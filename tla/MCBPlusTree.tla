---------------------------- MODULE MCBPlusTree ----------------------------
(***************************************************************************)
(* Instances of the B+ tree for TLC: small pages that split soon, and the  *)
(* sizes the repository's tests use.                                       *)
(***************************************************************************)
EXTENDS BPlusTree

MCCtorArgs == {<<2, 3>>, <<4, 4>>}

\* The small pages grow a third level by insertions alone.
FewRemoves == [a \in MCCtorArgs |-> IF a = <<2, 3>> THEN 0 ELSE 1]
AllRemoves == [a \in MCCtorArgs |-> 2]
=============================================================================
