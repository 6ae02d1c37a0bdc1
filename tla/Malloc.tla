------------------------------- MODULE Malloc -------------------------------
(***************************************************************************)
(* The heap of exercises 8-1 and 15-1 (code/exercises/ex_15_1/malloc.c):   *)
(* boundary tags, first fit, grown page by page with page_alloc.           *)
(*                                                                         *)
(* Memory is words of 4 bytes; an address is a word's distance from        *)
(* _mm_start.  A word read as a tag has a size (in words) and the flag     *)
(* BLOCK_USED; BLOCK_PREV_USED is masked out wherever a tag is read.  The  *)
(* header of the block at p is word p-1, its footer word p+size-2.  Each   *)
(* iteration of the loops that get and give back pages is a step; no other *)
(* task runs in between: mm_malloc has one caller at a time.               *)
(*                                                                         *)
(* An operator x_... right before x is x with a slip a programmer could    *)
(* make, a mutant the properties are tried against.                        *)
(***************************************************************************)
EXTENDS Integers, FiniteSetsExt

CONSTANTS PageWords,  \* PAGE_SIZE, in words
          NumPages,   \* pages of the pool
          Requests,   \* sizes the callers ask for, rounded up to words
          MaxAlloc,   \* MAX_MEM_ALLOC, in words
          WordMod,    \* the modulus of size_t, in words
          Garbage     \* tags that memory nobody wrote may look like, and
                      \* that callers write into their blocks

ASSUME MallocAssumption ==
  /\ PageWords \in Nat /\ PageWords > 2
  /\ NumPages \in Nat \ {0}
  /\ Requests \subseteq Nat
  /\ MaxAlloc \in Nat /\ WordMod \in Nat /\ MaxAlloc < WordMod
  /\ NumPages * PageWords < WordMod   \* the pool is in the address space
  /\ Garbage \subseteq [size : Nat, used : BOOLEAN]

VARIABLES mem,          \* the word just below the heap, and the pool
          mm_end,       \* _mm_end
          mm_end_block, \* _mm_end_block
          call,         \* where mm_malloc is, and two of its variables
          live,         \* ghost: the blocks callers hold, tags included
          reply,        \* ghost: the last mm_malloc and its result
          flags, pages, page_reply   \* of the page allocator

heap  == <<mem, mm_end, mm_end_block>>
paged == <<flags, pages, page_reply>>
vars  == <<heap, call, live, reply, paged>>

PageAllocator == INSTANCE PageAlloc WITH
  NumDesc <- NumPages, WordSize <- WordMod, Requests <- {1},
  blocks <- pages, reply <- page_reply

Words == NumPages * PageWords
Addr  == -1 .. Words - 1

None     == -1
NoReply  == [n |-> 0, base |-> None]
Idle     == [at |-> "idle", n |-> 0, cur_end |-> 0]
Panicked == [Idle EXCEPT !.at = "panic"]

(* Before mm_init; what the words of the pool hold is left over.           *)
Init ==
  /\ mem \in {[a \in Addr |-> g] : g \in Garbage}
  /\ mm_end = 0 /\ mm_end_block = 0
  /\ call = [Idle EXCEPT !.at = "boot"]
  /\ live = {} /\ reply = NoReply
  /\ PageAllocator!Init /\ flags[-1] = {}   \* page_alloc(1) never reads it
-----------------------------------------------------------------------------
start_block == 1      \* _mm_start_block

Used(m, p)     == m[p - 1].used
BlockSize(m, p) == m[p - 1].size
NextOf(m, p)   == p + BlockSize(m, p)
PrevOf(m, p)   == p - m[p - 2].size

SetUsed(m, p, u) == [m EXCEPT ![p - 1].used = u]

(* Header and footer of the block at p.                                    *)
Tagged(m, p, size, used) ==
  [m EXCEPT ![p - 1]        = [size |-> size, used |-> used],
            ![p + size - 2] = [size |-> size, used |-> used]]

(* The block of no payload that ends the heap.                             *)
EndTagged(m, end) == Tagged(m, end - 1, 2, TRUE)

(* The blocks a walk from _mm_start_block meets before end.                *)
Walk(m, end) ==
  LET met[p \in 1 .. end - 1] ==
        p = start_block \/ \E q \in 1 .. p - 1 : NextOf(m, q) = p /\ met[q]
  IN  {p \in 1 .. end - 1 : met[p]}

Fits(m, p, size) == ~ Used(m, p) /\ BlockSize(m, p) >= size

(* The block at p is used for size words and the rest of it split off.     *)
Placed(m, p, size) ==
  IF BlockSize(m, p) > size
  THEN Tagged(Tagged(m, p, size, TRUE), p + size, BlockSize(m, p) - size, FALSE)
  ELSE SetUsed(m, p, TRUE)

(* mm_init, with its page_alloc(1).                                        *)
mm_init ==
  /\ call.at = "boot"
  /\ PageAllocator!page_alloc(1)
  /\ mm_end' = PageWords
  /\ mm_end_block' = PageWords - 1
  /\ mem' = EndTagged(Tagged(mem, start_block, PageWords - 2, FALSE), PageWords)
  /\ call' = Idle
  /\ UNCHANGED <<live, reply>>
-----------------------------------------------------------------------------
(* _get_alloc_size: what a request that needs n words with its tags gets.  *)
alloc_size_without_footer(n) == (n - 1) % WordMod
alloc_size(n) == n % WordMod

(* The words between the tags are the caller's to write, and it fills them *)
(* before anything else happens.                                           *)
Payload(b) == (b.base + 1) .. (b.base + b.n - 2)
Stored(m, b, g) == [a \in Addr |-> IF a \in Payload(b) THEN g ELSE m[a]]

(* mm_malloc returns the block at p, cut out of memory m.                  *)
Return(m, p, n) ==
  /\ \E g \in Garbage :
       mem' = Stored(Placed(m, p, alloc_size(n)), [base |-> p - 1, n |-> n], g)
  /\ live' = live \cup {[base |-> p - 1, n |-> n]}
  /\ reply' = [n |-> n, base |-> p - 1]
  /\ call' = Idle

ReturnNull(n) ==
  /\ reply' = [n |-> n, base |-> None]
  /\ call' = Idle
  /\ UNCHANGED live

Fitting(n) ==
  {p \in Walk(mem, mm_end_block) : Fits(mem, p, alloc_size(n))}

malloc_too_large(n) ==
  /\ call.at = "idle"
  /\ alloc_size(n) > MaxAlloc
  /\ ReturnNull(n)
  /\ UNCHANGED <<heap, paged>>

malloc_found(n) ==
  /\ call.at = "idle"
  /\ alloc_size(n) <= MaxAlloc
  /\ Fitting(n) # {}
  /\ Return(mem, Min(Fitting(n)), n)
  /\ UNCHANGED <<mm_end, mm_end_block, paged>>

malloc_not_found(n) ==
  /\ call.at = "idle"
  /\ alloc_size(n) <= MaxAlloc
  /\ Fitting(n) = {}
  /\ call' = [at |-> "grow", n |-> n, cur_end |-> mm_end]
  /\ UNCHANGED <<heap, live, reply, paged>>

mm_malloc(n) == malloc_too_large(n) \/ malloc_found(n) \/ malloc_not_found(n)

(* A new page at the end of the heap: it extends the last block if that is *)
(* free, and is a block of its own, in the place of the end block, if not. *)
Grown_without_merge(m) ==
  [mem |-> EndTagged(Tagged(m, mm_end_block, PageWords, FALSE), mm_end + PageWords),
   last |-> mm_end_block]
Grown(m) ==
  LET last == PrevOf(m, mm_end_block)
      p    == IF Used(m, last) THEN mm_end_block ELSE last
      size == IF Used(m, last) THEN PageWords ELSE BlockSize(m, last) + PageWords
  IN  [mem |-> EndTagged(Tagged(m, p, size, FALSE), mm_end + PageWords),
       last |-> p]

(* One iteration of `while (!found)' for which page_alloc has a page.      *)
grow ==
  /\ call.at = "grow"
  /\ PageAllocator!page_alloc(1)
  /\ IF page_reply'.base * PageWords # mm_end
     THEN call' = Panicked /\ UNCHANGED <<heap, live, reply>>
     ELSE /\ mm_end' = mm_end + PageWords
          /\ mm_end_block' = mm_end' - 1
          /\ LET g == Grown(mem)
             IN  IF Fits(g.mem, g.last, alloc_size(call.n))
                 THEN Return(g.mem, g.last, call.n)
                 ELSE mem' = g.mem /\ UNCHANGED <<call, live, reply>>

(* The block list cut back to cur_end.  The last block ends there again,   *)
(* unless it lies behind it.                                               *)
CutBack_end_only(m, cur_end) == EndTagged(m, cur_end)
CutBack(m, cur_end) ==
  LET last == Max(Walk(m, mm_end_block))
      end  == cur_end - 1
      cut  == EndTagged(m, cur_end)
  IN  IF last = end THEN cut ELSE Tagged(cut, last, end - last, Used(cut, last))

(* ... and for which page_alloc has none: undo what was done so far.       *)
grow_fail ==
  /\ call.at = "grow"
  /\ PageAllocator!page_alloc_fail(1)
  /\ mem' = CutBack(mem, call.cur_end)
  /\ mm_end_block' = call.cur_end - 1
  /\ call' = [call EXCEPT !.at = "shrink"]
  /\ UNCHANGED <<mm_end, live, reply>>

(* One iteration of the loop that gives pages back, the highest first.     *)
page_given_back_too_low(end) == end - 2 * PageWords
page_given_back(end) == end - PageWords

shrink ==
  /\ call.at = "shrink"
  /\ mm_end > call.cur_end
  /\ mm_end' = mm_end - PageWords
  /\ PageAllocator!page_free(
       [base |-> page_given_back(mm_end) \div PageWords, n |-> 1])
  /\ UNCHANGED <<mem, mm_end_block, call, live, reply>>

malloc_failed ==
  /\ call.at = "shrink"
  /\ mm_end <= call.cur_end
  /\ IF mm_end_block # mm_end - 1
     THEN call' = Panicked /\ UNCHANGED <<live, reply>>
     ELSE ReturnNull(call.n)
  /\ UNCHANGED <<heap, paged>>
-----------------------------------------------------------------------------
(* mm_free: merge the block at p with a free block behind it ...           *)
MergedWithNext(m, p) ==
  LET next == NextOf(m, p)
  IN  IF next # p /\ next <= mm_end_block /\ ~ Used(m, next)
      THEN Tagged(m, p, BlockSize(m, p) + BlockSize(m, next), FALSE)
      ELSE m

(* ... and then with a free block before it.                               *)
MergedWithPrev_never(m, p) == m
MergedWithPrev(m, p) ==
  LET prev == PrevOf(m, p)
  IN  IF prev # p /\ prev >= start_block /\ ~ Used(m, prev)
      THEN Tagged(m, prev, BlockSize(m, p) + BlockSize(m, prev), FALSE)
      ELSE m

mm_free(b) ==
  LET p == b.base + 1
  IN  /\ call.at = "idle"
      /\ mem' = MergedWithPrev(MergedWithNext(SetUsed(mem, p, FALSE), p), p)
      /\ live' = live \ {b}
      /\ reply' = NoReply
      /\ UNCHANGED <<mm_end, mm_end_block, call, paged>>

mm_free_null ==
  /\ call.at = "idle"
  /\ UNCHANGED vars

Next ==
  \/ mm_init
  \/ \E r \in Requests : mm_malloc(r + 2)
  \/ grow \/ grow_fail \/ shrink \/ malloc_failed
  \/ \E b \in live : mm_free(b)
  \/ mm_free_null

Spec == Init /\ [][Next]_vars
=============================================================================
