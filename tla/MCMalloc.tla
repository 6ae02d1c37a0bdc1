------------------------------ MODULE MCMalloc ------------------------------
(* Instances of MallocProps on pools of a few small pages.                 *)
EXTENDS MallocProps

(* A word that looks like the tag of a small free block, the pattern a     *)
(* wrong merge would follow.                                               *)
FreeLooking == {[size |-> 1, used |-> FALSE]}
=============================================================================
