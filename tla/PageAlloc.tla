----------------------------- MODULE PageAlloc -----------------------------
(***************************************************************************)
(* The page allocator of the kernel (code/os/11-syscall/page.c, the same   *)
(* file in stages 02 to 11): one descriptor byte per page, first fit.      *)
(*                                                                         *)
(* A pointer is abstracted to the index of its page in the heap pool;      *)
(* descriptor d describes page d.  The descriptors page_init clears are    *)
(* 0 .. NumPages-1; the 8 pages reserved for them hold NumDesc, and those  *)
(* from NumPages on keep whatever the RAM held.  Descriptor -1 is the byte *)
(* just below HEAP_START, which page_alloc(0) can reach.                   *)
(*                                                                         *)
(* An operator x_... right before x is x with a slip a programmer could    *)
(* make, a mutant the properties are tried against.                        *)
(***************************************************************************)
EXTENDS Integers

CONSTANTS NumPages,   \* _num_pages
          NumDesc,    \* descriptors the reserved area has room for
          WordSize,   \* 2^32: the modulus of uint32_t
          Requests    \* values of npages the callers pass

ASSUME PageAssumption ==
  /\ NumPages \in Nat \ {0}
  /\ NumDesc \in Nat /\ NumDesc >= NumPages
  /\ WordSize \in Nat /\ WordSize > NumDesc
  /\ Requests \subseteq Nat

VARIABLES flags,      \* struct Page.flags of every descriptor
          blocks,     \* ghost: the blocks callers hold, [base, n]
          reply       \* ghost: size and result of the last call, if it was
                      \* a page_alloc: a page or None

vars == <<flags, blocks, reply>>

TAKEN == "TAKEN"      \* PAGE_TAKEN
LAST  == "LAST"       \* PAGE_LAST
None  == -1           \* the pointer NULL
NoReply == [n |-> 0, base |-> None]

Desc  == -1 .. (NumDesc - 1)
Heap  == 0 .. (NumPages - 1)
Flags == SUBSET {TAKEN, LAST}

IsFree(d) == TAKEN \notin flags[d]
IsLast(d) == LAST \in flags[d]

(* page_init *)
Init ==
  /\ flags \in [Desc -> Flags]
  /\ \A d \in Heap : flags[d] = {}
  /\ blocks = {}
  /\ reply = NoReply
-----------------------------------------------------------------------------
(* The loop bound `i <= (_num_pages - npages)' is unsigned: it wraps when   *)
(* npages exceeds _num_pages.                                              *)
Bound_one_too_near(n) == (NumPages - n - 1) % WordSize
Bound(n) == (NumPages - n) % WordSize

(* The pages page_alloc marks for a block at page i.                       *)
Run(i, n) == i .. (i + n - 1)

(* The places where the search stops.  A search that leaves the reserved   *)
(* descriptors reads heap contents; it is not followed.                    *)
Fits(n) ==
  {i \in 0 .. (NumDesc - 1) :
     /\ i <= Bound(n)
     /\ IsFree(i)
     /\ \A j \in Run(i, n) : j \in Desc /\ IsFree(j)}

(* page_alloc: take the first fit, mark it, mark its last page.            *)
page_alloc(n) ==
  \E i \in Fits(n) :
     /\ \A j \in Fits(n) : i <= j
     /\ flags' = [d \in Desc |->
                    flags[d] \cup {f \in {TAKEN} : d \in Run(i, n)}
                             \cup {f \in {LAST}  : d = i + n - 1}]
     /\ blocks' = blocks \cup {[base |-> i, n |-> n]}
     /\ reply' = [n |-> n, base |-> i]

(* page_alloc returns NULL.                                                *)
page_alloc_fail(n) ==
  /\ Fits(n) = {}
  /\ reply' = [n |-> n, base |-> None]
  /\ UNCHANGED <<flags, blocks>>

(* The descriptors the loop of page_free clears from page p on: up to a    *)
(* free page (exclusive) or a last page (inclusive).                       *)
Cleared_past_the_last(p) ==
  {d \in Desc : d >= p /\ \A e \in p .. d : ~ IsFree(e)}
Cleared_but_the_last(p) ==
  {d \in Desc : d >= p /\ \A e \in p .. d : ~ IsFree(e) /\ ~ IsLast(e)}
Cleared(p) ==
  {d \in Desc : /\ d >= p
                /\ \A e \in p .. d : ~ IsFree(e)
                /\ \A e \in p .. (d - 1) : ~ IsLast(e)}

(* page_free of a block the caller holds.                                  *)
page_free(b) ==
  /\ flags' = [d \in Desc |-> IF d \in Cleared(b.base) THEN {} ELSE flags[d]]
  /\ blocks' = blocks \ {b}
  /\ reply' = NoReply

(* page_free of NULL or of an address at or above _alloc_end: ignored.     *)
page_free_ignored == UNCHANGED vars

Next ==
  \/ \E n \in Requests : page_alloc(n) \/ page_alloc_fail(n)
  \/ \E b \in blocks : page_free(b)
  \/ page_free_ignored

Spec == Init /\ [][Next]_vars
-----------------------------------------------------------------------------
TypeOK ==
  /\ flags \in [Desc -> Flags]
  /\ blocks \subseteq [base : Heap, n : Requests]
  /\ reply \in [base : Heap \cup {None}, n : Requests \cup {0}]

Pages(b) == Run(b.base, b.n)

(* No block reaches beyond the pool, _alloc_start .. _alloc_end            *)
(* (page.c:17-21).                                                         *)
BlocksInPool == \A b \in blocks : Pages(b) \subseteq Heap

(* No page belongs to two blocks, whatever was freed and refilled between. *)
BlocksDisjoint ==
  \A b, c \in blocks : b # c => Pages(b) \cap Pages(c) = {}

(* The descriptors say what is out: a page is TAKEN exactly while a block  *)
(* holds it, and LAST exactly at the end of a block.  page_free relies on  *)
(* it to stop at the end of its own block, page_alloc to leave no residue. *)
FlagsDescribeBlocks ==
  \A d \in Heap :
     /\ ~ IsFree(d) <=> \E b \in blocks : d \in Pages(b)
     /\ IsLast(d)   <=> \E b \in blocks : d = b.base + b.n - 1

(* page_alloc and page_free implement a block pool: a call gets a fresh    *)
(* block whenever one fits and is refused only when none does, and a free  *)
(* gives back its own pages and no other.                                  *)
Pool == INSTANCE BlockPool WITH Size <- NumPages, MaxBlock <- NumPages
ImplementsBlockPool == Pool!Spec
=============================================================================
