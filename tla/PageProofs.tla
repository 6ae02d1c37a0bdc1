----------------------------- MODULE PageProofs -----------------------------
(***************************************************************************)
(* What module PageAlloc says for every pool size, as long as the callers  *)
(* ask for sizes the pool could serve and free the blocks they were given. *)
(***************************************************************************)
EXTENDS PageAlloc, TLAPS

Servable == Requests \subseteq 1 .. NumPages

(* The inductive invariant.  Disjointness and the flags need each other:   *)
(* page_free clears exactly its block because the flags describe disjoint  *)
(* blocks, and they go on describing them because it does.                 *)
IInv == TypeOK /\ BlocksInPool /\ BlocksDisjoint /\ FlagsDescribeBlocks

(* For a servable size the unsigned loop bound does not wrap.              *)
LEMMA BoundNoWrap ==
  ASSUME NEW n \in 1 .. NumPages
  PROVE  Bound(n) = NumPages - n
  BY PageAssumption DEF Bound

(* Where page_alloc finds room, the run lies in the pool and is free.      *)
LEMMA FitIsFreeRoom ==
  ASSUME NEW n \in 1 .. NumPages, NEW i \in Fits(n)
  PROVE  /\ i \in Heap /\ i + n <= NumPages
         /\ Run(i, n) \subseteq Heap
         /\ \A d \in Run(i, n) : IsFree(d)
  BY BoundNoWrap, PageAssumption DEF Fits, Run, Heap, Desc

BlockShape(b) ==
  /\ b.base \in Heap /\ b.n \in 1 .. NumPages
  /\ b.base + b.n - 1 \in Pages(b)
  /\ b.base + b.n - 1 \in Heap

LEMMA BlocksHaveShape ==
  ASSUME IInv, Servable
  PROVE  \A b \in blocks : BlockShape(b)
<1> SUFFICES ASSUME NEW b \in blocks PROVE BlockShape(b)
  OBVIOUS
<1>1. b.base \in Heap /\ b.n \in 1 .. NumPages
  BY DEF IInv, TypeOK, Servable
<1>2. b.base + b.n - 1 \in Pages(b)
  BY <1>1, PageAssumption DEF Pages, Run, Heap
<1> QED
  BY <1>1, <1>2 DEF BlockShape, IInv, BlocksInPool

(* page_free clears the pages of the block it is given, all and only.      *)
LEMMA ClearsItsBlock ==
  ASSUME IInv, Servable, NEW b \in blocks
  PROVE  Cleared(b.base) = Pages(b)
<1> DEFINE end == b.base + b.n - 1
<1>0. \A c \in blocks : BlockShape(c)
  BY BlocksHaveShape
<1>1. /\ b.base \in Heap /\ b.n \in 1 .. NumPages
      /\ Pages(b) \subseteq Heap /\ end \in Pages(b) /\ IsLast(end)
      /\ \A c \in blocks : c.base \in Heap /\ c.n \in 1 .. NumPages
  BY <1>0 DEF BlockShape, IInv, FlagsDescribeBlocks, BlocksInPool
<1>2. ASSUME NEW d \in Pages(b)
      PROVE  d \in Cleared(b.base)
  <2>1. \A e \in b.base .. d : e \in Pages(b) /\ ~ IsFree(e)
    BY <1>1 DEF IInv, FlagsDescribeBlocks, Pages, Run, Heap
  <2>2. ASSUME NEW e \in b.base .. (d - 1), IsLast(e)
        PROVE  FALSE
    <3>1. PICK c \in blocks : e = c.base + c.n - 1
      BY <1>1, <2>2 DEF IInv, FlagsDescribeBlocks, Pages, Run, Heap
    <3>2. e \in Pages(c) /\ e \in Pages(b)
      BY <1>1, <2>2, <3>1 DEF Pages, Run, Heap
    <3>3. b = c
      BY <3>2 DEF IInv, BlocksDisjoint
    <3> QED
      BY <1>1, <2>2, <3>1, <3>3 DEF Pages, Run, Heap
  <2>3. d \in Desc /\ d >= b.base
    BY <1>1, PageAssumption DEF Pages, Run, Heap, Desc
  <2> QED
    BY <2>1, <2>2, <2>3 DEF Cleared
<1>3. ASSUME NEW d \in Cleared(b.base)
      PROVE  d \in Pages(b)
  BY <1>1 DEF Cleared, Pages, Run, Heap, Desc
<1> QED
  BY <1>2, <1>3
-----------------------------------------------------------------------------
LEMMA InitEstablishes ==
  Init => IInv
  BY PageAssumption
     DEF Init, IInv, TypeOK, BlocksInPool, BlocksDisjoint, FlagsDescribeBlocks,
         Desc, Heap, Flags, IsFree, IsLast, TAKEN, LAST, NoReply

LEMMA AllocPreserves ==
  ASSUME IInv, Servable, NEW n \in Requests, page_alloc(n)
  PROVE  IInv'
<1> USE DEF Pages
<1>1. n \in 1 .. NumPages
  BY DEF Servable
<1>2. PICK i \in Fits(n) :
        /\ flags' = [d \in Desc |->
                       flags[d] \cup {f \in {TAKEN} : d \in Run(i, n)}
                                \cup {f \in {LAST}  : d = i + n - 1}]
        /\ blocks' = blocks \cup {[base |-> i, n |-> n]}
        /\ reply' = [n |-> n, base |-> i]
  BY DEF page_alloc
<1>3. /\ i \in Heap /\ i + n <= NumPages
      /\ Run(i, n) \subseteq Heap
      /\ \A d \in Run(i, n) : IsFree(d)
  BY <1>1, FitIsFreeRoom
<1> DEFINE new == [base |-> i, n |-> n]
<1>4. TypeOK'
  <2>1. flags' \in [Desc -> Flags]
    BY <1>2 DEF IInv, TypeOK, Flags
  <2>2. new \in [base : Heap, n : Requests]
    BY <1>3
  <2>3. reply' \in [base : Heap \cup {None}, n : Requests \cup {0}]
    BY <1>2, <1>3
  <2> QED
    BY <1>2, <2>1, <2>2, <2>3 DEF IInv, TypeOK
<1>5. \A b \in blocks : Pages(b) \cap Pages(new) = {}
  BY <1>3 DEF IInv, FlagsDescribeBlocks, BlocksInPool
<1>6. BlocksInPool'
  BY <1>2, <1>3 DEF IInv, BlocksInPool
<1>7. BlocksDisjoint'
  BY <1>2, <1>5 DEF IInv, BlocksDisjoint
<1>8. FlagsDescribeBlocks'
  <2> SUFFICES ASSUME NEW d \in Heap
               PROVE  /\ ~ IsFree(d)' <=> \E b \in blocks' : d \in Pages(b)
                      /\ IsLast(d)' <=> \E b \in blocks' : d = b.base + b.n - 1
    BY DEF FlagsDescribeBlocks
  <2>1. d \in Desc /\ Heap \subseteq Desc
    BY PageAssumption DEF Heap, Desc
  <2>2. ~ IsFree(d)' <=> ~ IsFree(d) \/ d \in Run(i, n)
    BY <1>2, <2>1 DEF IsFree, TAKEN, LAST
  <2>3. IsLast(d)' <=> IsLast(d) \/ d = i + n - 1
    BY <1>2, <2>1 DEF IsLast, TAKEN, LAST
  <2>4. /\ ~ IsFree(d) <=> \E b \in blocks : d \in Pages(b)
        /\ IsLast(d) <=> \E b \in blocks : d = b.base + b.n - 1
    BY DEF IInv, FlagsDescribeBlocks
  <2>5. /\ d \in Pages(new) <=> d \in Run(i, n)
        /\ d = new.base + new.n - 1 <=> d = i + n - 1
    OBVIOUS
  <2> HIDE DEF new, Pages
  <2>6. blocks' = blocks \cup {new}
    BY <1>2 DEF new
  <2> QED
    BY <2>2, <2>3, <2>4, <2>5, <2>6
<1> QED
  BY <1>4, <1>6, <1>7, <1>8 DEF IInv

LEMMA FreePreserves ==
  ASSUME IInv, Servable, NEW b \in blocks, page_free(b)
  PROVE  IInv'
<1>1. Cleared(b.base) = Pages(b)
  BY ClearsItsBlock
<1>2. TypeOK'
  BY DEF IInv, TypeOK, page_free, Flags, NoReply
<1>3. BlocksInPool'
  BY DEF IInv, BlocksInPool, page_free, Pages
<1>4. BlocksDisjoint'
  BY DEF IInv, BlocksDisjoint, page_free, Pages
<1>5. FlagsDescribeBlocks'
  <2> SUFFICES ASSUME NEW d \in Heap
               PROVE  /\ ~ IsFree(d)' <=> \E c \in blocks' : d \in Pages(c)
                      /\ IsLast(d)' <=> \E c \in blocks' : d = c.base + c.n - 1
    BY DEF FlagsDescribeBlocks, Pages
  <2>1. d \in Desc
    BY PageAssumption DEF Heap, Desc
  <2>2. /\ \A c \in blocks : c.base \in Heap /\ c.n \in 1 .. NumPages
        /\ \A c \in blocks : c # b => Pages(c) \cap Pages(b) = {}
        /\ \A c \in blocks : c.base + c.n - 1 \in Pages(c)
    BY BlocksHaveShape DEF BlockShape, IInv, BlocksDisjoint
  <2>3. ~ IsFree(d)' <=> ~ IsFree(d) /\ d \notin Pages(b)
    BY <1>1, <2>1 DEF page_free, IsFree
  <2>4. IsLast(d)' <=> IsLast(d) /\ d \notin Pages(b)
    BY <1>1, <2>1 DEF page_free, IsLast
  <2>5. blocks' = blocks \ {b}
    BY DEF page_free
  <2> QED
    BY <2>2, <2>3, <2>4, <2>5 DEF IInv, FlagsDescribeBlocks
<1> QED
  BY <1>2, <1>3, <1>4, <1>5 DEF IInv

(* The invariant of the allocator.                                         *)
THEOREM AllocatorInvariant ==
  ASSUME Servable PROVE Spec => []IInv
<1>1. ASSUME IInv, [Next]_vars PROVE IInv'
  <2>1. ASSUME NEW n \in Requests, page_alloc_fail(n) PROVE IInv'
    BY <1>1, <2>1 DEF page_alloc_fail, None, IInv, TypeOK, BlocksInPool,
       BlocksDisjoint, FlagsDescribeBlocks, IsFree, IsLast, Pages
  <2>2. CASE page_free_ignored \/ UNCHANGED vars
    BY <1>1, <2>2 DEF page_free_ignored, vars, IInv, TypeOK, BlocksInPool,
       BlocksDisjoint, FlagsDescribeBlocks, IsFree, IsLast, Pages
  <2> QED
    BY <1>1, <2>1, <2>2, AllocPreserves, FreePreserves DEF Next
<1> QED
  BY <1>1, InitEstablishes, PTL DEF Spec

(* The descriptors always say which pages are out and where blocks end.    *)
THEOREM FlagsAreRight ==
  ASSUME Servable PROVE Spec => []FlagsDescribeBlocks
  BY AllocatorInvariant, PTL DEF IInv

(* No page is ever in two blocks.                                          *)
THEOREM NoDoubleAllocation ==
  ASSUME Servable PROVE Spec => []BlocksDisjoint
  BY AllocatorInvariant, PTL DEF IInv
-----------------------------------------------------------------------------
LEMMA AllocIsPoolAlloc ==
  ASSUME IInv, Servable, NEW n \in Requests, page_alloc(n)
  PROVE  Pool!Alloc(n)
<1>1. n \in 1 .. NumPages
  BY DEF Servable
<1>2. PICK i \in Fits(n) : /\ blocks' = blocks \cup {[base |-> i, n |-> n]}
                           /\ reply' = [n |-> n, base |-> i]
  BY DEF page_alloc
<1>3. /\ i \in Heap /\ i + n <= NumPages
      /\ Run(i, n) \subseteq Heap
      /\ \A d \in Run(i, n) : IsFree(d)
  BY <1>1, FitIsFreeRoom
<1>4. \A b \in blocks : Pages(b) \cap Run(i, n) = {}
  BY <1>3 DEF IInv, FlagsDescribeBlocks
<1>5. Pool!Room(i, n)
  BY <1>3, <1>4 DEF Pool!Room, Pool!Extent, Pages, Run
<1> QED
  BY <1>2, <1>3, <1>5 DEF Pool!Alloc, Heap

(* Room in the pool is a fit for the search: nothing is refused that could *)
(* be served.                                                              *)
LEMMA FailIsPoolRefuse ==
  ASSUME IInv, Servable, NEW n \in Requests, page_alloc_fail(n)
  PROVE  Pool!Refuse(n)
<1>1. n \in 1 .. NumPages
  BY DEF Servable
<1>2. ASSUME NEW i \in 0 .. NumPages - 1, Pool!Room(i, n)
      PROVE  FALSE
  <2>1. Run(i, n) \subseteq Heap /\ i + n <= NumPages
    BY <1>1, <1>2, PageAssumption DEF Pool!Room, Run, Heap
  <2>2. \A b \in blocks : Pages(b) \cap Run(i, n) = {}
    BY <1>2 DEF Pool!Room, Pool!Extent, Pages, Run
  <2>3. \A d \in Run(i, n) : IsFree(d)
    BY <2>1, <2>2 DEF IInv, FlagsDescribeBlocks
  <2>4. i \in Run(i, n) /\ i <= Bound(n)
    BY <1>1, <2>1, BoundNoWrap, PageAssumption DEF Run
  <2>5. i \in Fits(n)
    BY <2>1, <2>3, <2>4, PageAssumption DEF Fits, Heap, Desc
  <2> QED
    BY <2>5 DEF page_alloc_fail
<1> QED
  BY <1>2 DEF Pool!Refuse, page_alloc_fail, Pool!None, None

(* The allocator implements the abstract pool: whatever fits is found.     *)
THEOREM AllocatorImplementsPool ==
  ASSUME Servable PROVE Spec => ImplementsBlockPool
<1>1. Init => Pool!Init
  BY DEF Init, Pool!Init, NoReply, Pool!NoReply, None, Pool!None
<1>2. ASSUME IInv, [Next]_vars PROVE [Pool!Next]_<<blocks, reply>>
  <2>1. ASSUME NEW b \in blocks, page_free(b) PROVE Pool!Next
    BY <2>1 DEF page_free, Pool!Free, Pool!Next, NoReply, Pool!NoReply, None,
       Pool!None
  <2>2. CASE page_free_ignored \/ UNCHANGED vars
    BY <2>2 DEF page_free_ignored, vars
  <2> QED
    BY <1>2, <2>1, <2>2, AllocIsPoolAlloc, FailIsPoolRefuse DEF Next, Pool!Next
<1> QED
  BY <1>1, <1>2, AllocatorInvariant, PTL DEF Spec, ImplementsBlockPool, Pool!Spec
=============================================================================
