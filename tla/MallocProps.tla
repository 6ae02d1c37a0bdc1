---------------------------- MODULE MallocProps ----------------------------
(***************************************************************************)
(* What a heap of boundary tags has to keep, and what its callers rely on. *)
(***************************************************************************)
EXTENDS Malloc

TypeOK ==
  /\ mem \in [Addr -> [size : Nat, used : BOOLEAN]]
  /\ mm_end \in 0 .. Words /\ mm_end_block \in 0 .. Words
  /\ call \in [at : {"boot", "idle", "grow", "shrink", "panic"},
               n : Nat, cur_end : 0 .. Words]
  /\ live \subseteq [base : Addr, n : Nat]
  /\ reply \in [base : Addr, n : Nat]
  /\ PageAllocator!TypeOK

Running == call.at # "boot"
Blocks  == Walk(mem, mm_end_block)

(* The walk from the first block meets blocks with matching header and     *)
(* footer sizes and ends exactly at the end block: the list can be         *)
(* followed in both directions, whatever callers wrote into their blocks.  *)
(* It also holds while mm_malloc grows the heap or gives pages back.       *)
BlocksTile ==
  /\ TypeOK
  /\ Running =>
       /\ \A p \in Blocks :
            /\ BlockSize(mem, p) > 0
            /\ NextOf(mem, p) <= mm_end_block
            /\ PrevOf(mem, NextOf(mem, p)) = p
       /\ BlockSize(mem, mm_end_block) = 2 /\ Used(mem, mm_end_block)

(* Free blocks are merged at once: no two of them are neighbours, so a     *)
(* request that fits between two used blocks fits one free block.          *)
NoFreeNeighbours ==
  Running =>
    \A p \in Blocks :
      ~ Used(mem, p) => NextOf(mem, p) = mm_end_block \/ Used(mem, NextOf(mem, p))

(* The heap owns the pages below _mm_end and no others: what a failed      *)
(* mm_malloc took in between is given back (malloc.c:168).  So mm_malloc,  *)
(* the only user of page_alloc, always gets the page behind its end, and   *)
(* reaches neither of its panics (malloc.c:174, :179).                     *)
HeapOwnsItsPages ==
  /\ {b.base : b \in pages} = 0 .. (mm_end \div PageWords) - 1
  /\ call.at # "panic"

(* What a caller stored into its block is there until it frees the block:  *)
(* the tags mm_malloc and mm_free write for other blocks lie outside it.   *)
PayloadsKept ==
  [][\A b \in live \cap live' : \A a \in Payload(b) : mem'[a] = mem[a]]_vars

(* Requests above MAX_MEM_ALLOC fail (the comment at malloc.c:98).         *)
TooLargeFails == reply.base # None => reply.n <= MaxAlloc

(* mm_malloc and mm_free are a block pool on all the words of the page     *)
(* pool but the two of the end block: blocks lie apart and inside, a       *)
(* request up to MAX_MEM_ALLOC is refused only if no free stretch of the   *)
(* pool, used so far or not, could hold it.                                *)
Pool == INSTANCE BlockPool WITH
  Size <- Words - 2, Requests <- {r + 2 : r \in Requests}, MaxBlock <- MaxAlloc,
  blocks <- live
ImplementsBlockPool == Pool!Spec
=============================================================================
