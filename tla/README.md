# RVOS in TLA+

RVOS is a small teaching kernel for one RISC-V hart (QEMU `virt`), developed in
twelve stages, `code/os/00-bootstrap` to `code/os/11-syscall`; each stage is the
previous one plus a subsystem, and the last one holds them all. The directory
`code/exercises` adds variants of the kernel: a malloc, priority schedulers,
other timers. This directory models the last stage, the cooperative stages it grew
out of and the exercises with state of their own, checks the models with TLC on
small instances, and proves the main theorems with TLAPS for all instances.

Paths below are relative to `code/os/11-syscall` unless they say otherwise;
`ex_N` is `code/exercises/ex_N`.

## 1. The system

| Part | State | Operations | What makes it correct |
|---|---|---|---|
| Page allocator `page.c` (02-11) | one descriptor byte per page, `_num_pages` | `page_init`, `page_alloc`, `page_free` | blocks lie in the pool and apart; descriptors say exactly what is out; a request is refused only if it fits nowhere |
| Trap entry and exit `entry.S` | the registers, `mscratch`, `mepc`, `mstatus` | `trap_vector`, `switch_to` | the registers of a task survive every trap and switch; a trap saves into the context of the task it interrupted |
| Trap dispatch `trap.c` | `mcause` | `trap_handler`, `external_interrupt_handler` | each cause gets its handler; a system call returns behind its `ecall`; what is not foreseen stops the system, for good |
| Scheduler `sched.c` (08-11) | `ctx_tasks`, `_top`, `_current` | `task_create`, `schedule`, `task_yield` | only tasks that are set up are switched to; no task can keep the hart; a task that yields gives it up |
| Lock `lock.c` | `mstatus.MIE` | `spin_lock`, `spin_unlock` | at most one task is between the two, running or preempted |
| Software timers `timer.c` | `_tick`, `timer_list` | `timer_create`, `timer_delete`, `timer_handler` | no timer is lost (but on a full table), doubled or early, and none is arbitrarily late |
| System calls `syscall.c`, `usys.S` | the saved context of the caller | `do_syscall`, `gethid` | the result arrives in the `a0` of the caller and nothing else changes |
| Boot `start.S`, `kernel.c` | all of the above, once | `_start`, `start_kernel` | nothing is interrupted before the first `switch_to` |
| UART, PLIC `uart.c`, `plic.c` | device registers | `uart_putc`, `uart_getc`, `uart_isr`, `plic_claim`, `plic_complete` | a character is written to an idle transmitter; one that arrives is read once, in order, and never forgotten |
| printf `printf.c` | one static buffer | `_vsnprintf`, `_vprintf`, `panic` | what is printed stands for the arguments; the buffer is not overrun; the output of one call is not mixed with another's |
| Cooperative kernels, stages 03-07, `ex_9_1`, `ex_9_2` | as the scheduler, plus status and priority | `switch_to` as a call, `schedule`, `task_create`, `task_yield`, `task_exit` | a task resumes where it called `task_yield`, with the registers it had; everyone of the highest priority takes turns |
| Malloc `ex_8_1`, `ex_15_1/malloc.c` | memory words, `_mm_end` | `mm_init`, `mm_malloc`, `mm_free` | boundary tags tile the heap, payloads are kept, pages are given back |
| Priority scheduler `ex_13_1`, `ex_15_1` | status, priority, slice of each task, a sorted timer queue | `task_yield`, `task_exit`, `task_sleep`, `task_wakeup`, `task_create`, `schedule` | the highest priority runs, exited tasks stay dead, sleepers wake in time |
| Timers on lists `ex_15_1/timer_structs` | nodes of a list or a skip list, timers | `timer_create`, `timer_delete`, `timer_check`, the operations of the lists | the pointers keep their shape, no block is lost, both are one sorted queue |

How they interact. There is one hart and so one thread of control at any moment;
all concurrency comes from interrupts. A tick (CLINT) enters `trap_vector`, which
saves the registers to the context `mscratch` points to, and `trap_handler` runs
the expired timer and `schedule`, which leaves through `switch_to` on another
task's context and never returns to its caller. `task_yield` writes the CLINT's
MSIP word and so provokes a software interrupt that takes the same way. (In
the cooperative stages `task_yield` calls `schedule` and `switch_to` itself, and
they do return.) A task
between `spin_lock` and `spin_unlock` has MIE off, so that no interrupt comes;
the timer calls are built on that. `task_create`, `page_alloc` and `printf` are
not. The handlers of expired timers are called inside of the trap, and
trap handlers print to the same UART, and through the same buffer, as the tasks they
interrupt.

What is hard. A preemption can hit any instruction: between the halves of
`task_create`, between marking a task asleep and arming its timer, between the
fields of a timer, between looking at the transmitter and writing to it, or just
after `task_yield` has raised an interrupt that then hits another task. State of
the hart (`mscratch`, MIE, MPIE, MSIP) is shared by all tasks and must be right at
every instruction at which a trap can come. Slots of tables are reused (timers,
tasks, pages, nodes) while somebody still holds an index. Devices go on while
their handlers run. `PROJECT.json` lists these hazards at their lines, with the
properties that would catch them.

## 2. The modules

```
BlockPool        abstract: disjoint blocks out of a pool, refused only if nothing fits
  ^ implemented by
PageAlloc        page.c                       PageProofs     theorems
  ^ used by
Malloc           ex_15_1/malloc.c             MallocProps    properties; implements BlockPool
MallocInv        inductive invariant          MallocProofs   theorems

Timer            timer.c, one call one step   TimerHist      what callers are owed
  |                                           TimerProofs    theorems
  ^ implemented by (under interrupts)
Kernel           entry.S trap.c sched.c lock.c timer.c syscall.c, statement by statement
  | EXTENDS TaskCode (a task's registers and code)
  | implements
VirtualCpus      abstract: one processor per task
KernelInv        inductive invariant          KernelProofs   theorems

Coop             stages 03-07, ex_9_1, ex_9_2, switch_to label by label
  | implements (CoopProps)
Coroutines       abstract: one thread of control per task
CoopInv          inductive invariant          CoopProofs     theorems

Printf           printf.c: format -> text     PrintfProps    reference and properties
Console          printf.c uart.c plic.c, under interrupts
                                              ConsoleProps   properties
ConsoleInv       inductive invariant          ConsoleProofs  theorems

PrioSched        ex_15_1/sched.c and callers  PrioProps      properties
PrioInv          inductive invariant          PrioProofs     theorems

ListNodes        memory and walks
List, SkipList   timer_structs/list.c, skip_list.c, pointer by pointer
  ^ EXTENDed by
ListTimer        list_timer.c, timer.c        ListTimerProps properties
  | implements
TimerQueue       abstract: a sorted queue, one timer a tick
ListTimerInv     inductive invariant          ListTimerProofs theorems

MCPageAlloc, MCTimer, MCKernel, MCMalloc, MCPrio, MCCoop, MCConsole, MCListTimer
                 instances for TLC
```

**PageAlloc.** A pointer is the index of its page. `flags[d]` is the descriptor
of page `d`; descriptors beyond `_num_pages` exist (the reserved area has room
for more) and hold anything, and so does the byte below the array. `Bound(n)` is
the unsigned loop bound `_num_pages - npages`, with its wrap. `blocks` and
`reply` are ghosts: what callers hold, and the last result. `page_free` is
called with a block the caller holds, and clears what the loop clears, which is
computed from the flags and not from the ghost.

**Timer, TimerHist.** The table with `timer_create`, `timer_delete` and the tick
as single steps. One expired slot per tick, lowest first, cleared after its handler.
Handlers leave the timers alone here, as all in the repository do: a call of
`timer_create` or `timer_delete` in a handler ends in a `spin_unlock` that lets the
pending tick into the trap, so that neither the call nor the tick is one step any
more. `Kernel` has that case. When the table is full, `timer_create` reads the word
behind it (`BehindIsNull`, both answers in the run). `TimerHist` adds ghosts: the
timers callers are owed, which of these were created on a full table (`stray`), and
the ticks each slot has left.

**TaskCode, VirtualCpus.** A task is a record of registers: its stack, a label
for its pc, `a0`, and one more register. `After(r)` is the set of registers its
code can lead to in one step when nobody interferes. `VirtualCpus` is the
promise: each task moves by `After` alone, and while one is in a locked section
no other moves.

**Kernel.** One set of registers, `regs`, holds whatever the hart executes; a task
that does not execute is its saved context. A step is one labelled piece of code
(labels in `TaskCode`), a trap (`trap_vector`, masked, hence one step), or a
device. Calls that the hazards are about are split into statements: `task_create`
(five), `timer_create` (lock, find, two stores, unlock), `task_yield` (two),
the tick (count, check and handler, clear, reload, schedule, switch). `HandlerCalls`
are the timer calls that handlers may make, one in each run of a handler, after which
interrupts are on between the handler and the clearing of its slot. `mstatus` is
MIE, MPIE, MPP and the mode, and moves as the hart moves it on a trap and `mret`.
`UserMode` is the `CONFIG_SYSCALL` build: tasks in U-mode, where interrupts are
always on and machine-mode CSRs raise an exception. Without it the module is the
kernel of stage 10, whose sources differ only in the system call; stages 08 and 09
have the same `sched.c`, `lock.c` and `page.c` and no software timers.
Which of several pending interrupts is taken is left open.

**Malloc.** Memory is an array of words; a word read as a tag has a size and a
used flag. `Walk` follows the tags; `Placed`, `Tagged`, `MergedWithNext` and the
others write them as the code does. `mm_malloc` that does not find a block takes
pages from an instance of `PageAlloc`, one iteration one step, and when the pool
runs out undoes it, one page a step. A caller fills its block with words that
look like tags of free blocks (`Garbage`), and so does the word below the heap,
which `mm_free` reads as a footer. That the pool lies inside the address space, so that
the address of no block wraps, is part of `MallocAssumption`.

**Coop.** Four kernels in one module, chosen by `kernel`: stage 04, stage 07 (the
same and a trap at any label), exercise 9-1 and exercise 9-2 (where every switch goes
through a context of the kernel). `switch_to` is six steps, at the labels where
`mscratch`, `t6` or the context change hands; the registers are `ra`, `sp`, `a0`,
`t6`, and one pair `s` for all that a task keeps for itself. `ra` is a label, so what
is returned to is what was saved, whether or not it makes sense. `hit` records that a
trap came at a moment when `mscratch` was not at the context of the one who runs.
`Coroutines` is the promise: control moves between threads and changes nothing of what
they hold; a slot that is used again starts from the beginning, with its argument.

**Printf, Console.** `Printf` is `_vsnprintf` as a function from a format and arguments
to a text, with the conversions of the code (digits by repeated division or four bits at a
time, and two passes that treat `%c` differently), its loops as recursive functions.
`PrintfProps` has the reference: the number a row of digits stands for (`Value`).
`Console` is everything around it: tasks and the tick handler run the
same code of `_vprintf` and `uart_puts` on the one buffer, byte by byte, and of
`uart_putc` by a poll and a write. A byte of the buffer is the number of its
printer, so that foreign text shows. The transmitter, the receiver and the PLIC gateway are
processes of their own; `pending` and `claimed` are the two bits of the PLIC.
A literal string is printed as one character: `uart_puts` on it is the loop `PutChar`
stands for.

**PrioSched.** A task's place in its call (`at`, saved in `ctx`) stands for its
registers; statements of `task_yield`, `task_exit` and `task_sleep` can be
preempted, the phases of a trap cannot. `schedule` is the two scans of the code
as a condition on the chosen task (`NextTask`), with the slice count and the
assignments to `_current`; `KeepsSlices` leaves out the one that only `ex_15_1`
has. Timers are a queue sorted by the ticks left, which is what `ListTimer` shows the
lists to be.

**ListNodes, List, SkipList, ListTimer.** Nodes are records with `prev`, `next` or
`forward` pointers; every operation of the two lists is an operator that changes
pointers in the order of the code. Its loops are walks: `Walked` says where a loop
along given links ends, `Chain` which nodes it meets, both as recursive functions over the
number of steps, and `Update` is the array `update`, one walk a level, each from where the
one above ended. The level of a new node, random
in the code, is any. `ListTimer` is one call, one step, as the calls hold the interrupt
lock. The handler of a timer runs between `timer_handler` and `handler_returns`, in the
trap, and leaves timers to tasks, as in the whole exercise: `spin_unlock`
(`list_timer.c:37`, `:51`, `:67`, `:82`) would enable interrupts in the trap as in
`timer.c` (section 4). Memory for nodes and timers runs out, and deletions follow null
pointers where the code does (`phase = "fault"`).

In each module that models code, operators named `x_...` next to an operator `x`
are the slips against which the properties were tried (`mutants` in
`PROJECT.json`); no specification uses them. Type invariants are checked as a
conjunct of `BlocksTile`, `CurrentIsCaller`, `ListKeepsShape` and `BufferIsKept`, and
proved for `PageAlloc`, `Malloc`, `Kernel`, `TimerHist`, `PrioSched`, `Console`, `Coop` and `ListTimer`.

## 3. The runs

Each run names one question. Figures are distinct states.

| Run | Instance | What it shows |
|---|---|---|
| `page_alloc` | 6 pages, all sizes 1-6 (26 k) | every sequence of calls: `BlocksDisjoint`, `FlagsDescribeBlocks`, and the allocator implements `BlockPool` |
| `timer_service` | 3 slots, 4 handlers, timeouts 3 and 4, 10 ticks, either word behind the table (28 k) | `LostOnlyWhenFull`, `NeverEarly`, and slot *i* at most *i* ticks late (`LatenessBound`) |
| `kernel_tasks` | 2 tasks and a third created at run time, M-mode (331 k) | `ScratchIsCurrent`, `LockExcludes`, `CreatedTasksAreSetUp`, and the kernel implements `VirtualCpus` |
| `kernel_timers` | 2 tasks, 2 slots, 4 ticks (617 k) | statement-level timer calls under preemption implement `Timer` |
| `kernel_user` | `CONFIG_SYSCALL`, a task that creates a second, both devices (72 k) | contexts and results of system calls are kept (`VirtualCpus`); only CSR accesses panic |
| `kernel_live` | 2 tasks (11 k) | a yield leads to another task; every task runs again and again, each `schedule` brings its turn nearer |
| `coop` | 3 slots, the four kernels (694 k) | `CurrentExecutes`, `HighestIsResumed`, `EveryoneTakesTurns`, and each kernel implements `Coroutines` |
| `console` | 2 tasks, a buffer of 4, texts of 1, 2 and 4, 2 characters arriving (811 k), and 2,520 formats | `BufferIsKept`, `UndisturbedPrints`, `PollHolds`, `EveryCharEchoed`; `PrintsItems` |
| `malloc` | 3 pages of 6 words, five request sizes (182 k) | tags tile the heap in every state, no two free neighbours, payloads kept, pages given back, implements `BlockPool` |
| `prio_sched` | 3 task slots, 2 priorities, 1 extra timer (1.5 M) | highest runs, calls act on their caller, wakeups meet sleepers within a bound, equals are all picked |
| `prio_sleep` | as above, one priority | **violated**: a tick inside of `task_sleep` puts the task to sleep for ever |
| `timer_lists` | 3 nodes, levels 0-2, timeouts 1 and 3, both builds (14 k) | `ListKeepsShape`, `BlocksAreListed`, `OnlyTallestDeleted`, `FirstOfEquals`, implements `TimerQueue`, `EveryTimerFires` |

Why the bounds are enough to see the interesting cases.

* `page_alloc`: 6 pages hold three blocks with gaps of different sizes on either
  side, so first fit skips gaps, refuses in a fragmented pool, and refills a place
  whose old flags must be gone. The theorems of section 5 remove the bound.
* `timer_service`: more handlers than slots, so that timers are created on a full table,
  where the word behind it is NULL or is not, anew at each call; two timeouts that
  let a later timer be due earlier; enough ticks for a slot to be used again
  and to overtake another twice, were that possible. Timeouts are not
  shorter than the table, which `LatenessBound` needs and states.
* `kernel_*`: with two tasks each can be preempted by the other anywhere; the third
  slot of `kernel_tasks` makes `_top` change while a task is preempted inside of
  `task_create`. The tick counter is kept to `MaxTick` where timers are
  present and to a single value elsewhere (`TickMod = 1`), which leaves the clock
  unbounded.
* `coop`: three slots, so that a scan has someone before, at and behind `_current`, a
  slot is used again while two others wait, and in 9-2 the kernel runs in between.
  Tasks have an argument or none, and the priority 0 or 255, the lowest, which
  is also the one of no task. `Counting` bounds where tasks change what they hold:
  stages 04 and 07; in the exercises the argument they keep shows a mix-up.
* `console`: the texts are shorter than the buffer by two, the most the code admits, and
  too long, so that printing ends in the endless loop; 1 is the tick's. Two tasks
  and the handler can be in the buffer at once, one behind the other. A receiver for one
  character and two characters give the case that matters for the PLIC: the second
  arrives while the first is served. `LongBits = 8` has every number, and with them
  both ends of the range, as arguments; formats have up to three items.
* `malloc`: requests that fit a page, that need a second or third page, that fit
  only after merging, and that fail after one page or after two were taken and have to be
  given back. `MaxAlloc` is 15 words, just below what the pool holds, so refusal for size
  and for space both happen.
* `prio_sched`: three slots for two starting tasks, so that a slot is free, is
  taken by a task created in a handler, and is reused after an exit; sleeps of 2
  ticks let two sleepers and a creation be due at once. `MaxTimers` bounds the
  timers that tasks arm besides their own sleeps; `OversleepBound` is stated in it.
* `timer_lists`: three nodes on levels 0 to 2 have every order of levels and, with two
  timeouts and the clock, every order of times, equal ones included; a fourth creation
  runs out of memory. No timer is later than `LongestDelay`, the number of nodes,
  where counting stops. `INVALID`, the priority of head and tail, is above all others
  as in the code.

Deadlock is checked in every run: the system never stops, a panic being an endless loop.

### Fairness

The safety runs assume none. `LiveSpec` of `Kernel` assumes that the hart goes on
executing (`WF HartStep`); that an interrupt which is pending and again and again
unmasked is taken (`SF Interrupt`: it can be masked in between by a lock or
a trap, hence strong; the hart looks for pending interrupts after every `mret` and
write of `mstatus`); and that a task does not stay between `spin_lock` and
`spin_unlock` for ever (`SF spin_unlock("cs")`: the locked loop of `user.c` is
finite). That the clock goes on is not assumed but a premise of
`EveryTaskRuns` (`ClockFairness`); `YieldRelinquishes` holds without it.
`PrioSched` assumes that the hart takes a pending software interrupt and gets
through its traps; nothing is assumed of tasks, which may stop making calls.
`HighestIsPicked` has the ticking clock as its premise for the part that is liveness.
`Coop` assumes that the hart executes the code of the kernel, and that a task that
runs yields or exits in the end, as all tasks of its `user.c` do: there is no other way
to get the hart back. `Console` assumes that the hart gets through traps,
that the devices go on, and that a pending UART interrupt is taken in the end (`SF`:
it waits for traps to end; the PLIC keeps it and the hart prefers it to the tick).
Tasks may stop printing. `ListTimer` assumes that ticks go on as long as there are
timers, and that handlers return.

## 4. Disagreements between the code and what is said of it

The run `prio_sleep` ends in a violation (`ex_15_1/sched.c:202`: status first, timer
second), and the finding in `PROJECT.json` quotes what the repository says.
Others are outside of what the runs instantiate, because the other properties do
not survive them, or are stated as the exception in a property that holds. They can
be seen by changing a configuration; put the property alone in the place of the others:

| Behaviour | Change | Then violated |
|---|---|---|
| a handler that calls `timer_create` or `timer_delete` enables interrupts inside the trap (`timer.c:67`, `:86`) | `HandlerCalls = {"timer_create"}` or `{"timer_delete"}` in `MCKernelTimers.cfg` | `ScratchIsCurrent` |
| the trap let in there saves the middle of `timer_check` as if it were the task; resumed later, it clears a slot that holds another timer by then (`timer.c:99`) | the same | `ClearsWhatFired` |
| two preempted creators share a context and count two (`sched.c:58`) | `MaxTasks = 4`, `Creators = {0, 1}`, `Calls = {"task_create"}` in `MCKernelTasks.cfg` | `CreatedTasksAreSetUp` |
| `task_yield` panics in U-mode (`sched.c:73`) | `UserMode = TRUE` in `MCKernelLive.cfg` | `YieldRelinquishes` |
| a request larger than the pool wraps the loop bound (`page.c:113`) | `Requests <- OversizedToo` in `MCPageAlloc.cfg` | `BlocksInPool` |
| two printers overwrite each other's text (`printf.c:117`) | in `MCConsole.cfg` | `PrintsOwnText` |
| a task preempted between poll and write loses a character (`uart.c:115`) | in `MCConsole.cfg` | `NothingOverwritten` |
| the most negative number is printed with characters below `0` (`printf.c:47`) | in `MCConsole.cfg` | `ItemsStand` |
| only the writing pass takes the argument of `%c` (`printf.c:80`): the measuring pass reads it for the next conversion | in `MCConsole.cfg` | `Concatenates` |
| a trap in stages 05-07 while `mscratch` is moved, or before there is a context, saves over another task or derails (`07-hwtimer/entry.S:135`) | in `MCCoop.cfg` | `TrapsAreHarmless` |
| a task created with the argument NULL is given what the last owner of its slot left in `a0` (`ex_9_1/sched.c:109`) | in `MCCoop.cfg` | `ArgArrives` |
| `task_wakeup` adds a second `schedule` to that of the tick, and a task can be picked for ever and never execute (`ex_15_1/sched.c:197`) | `Starters = {3}`, `Prios = {0}`, `Sleeps = {1}`, `MaxTimers = 0` in `MCPrio.cfg` | `HighestGetsTurns` |
| a slice does not survive a tick in `ex_15_1` (`sched.c:109`) | `Slices = {1, 2}` in `MCPrio.cfg` | `SlicesAreKept` |
| a size close to 2^32 wraps in `_get_alloc_size` (`ex_15_1/malloc.c:43`) | `NumPages = 2`, `Requests = {2, 63}` in `MCMalloc.cfg` | `TooLargeFails` |
| null pointers are followed: by `skip_list_delete2` for a node that is not on the top level (`skip_list.c:167`), by `timer_delete(NULL)`, which finds head or tail (`list_timer.c:57`, `:72`), and when `mm_malloc` fails (`list_timer.c:29`) | in `MCListTimer.cfg` | `NoFault` |

Two more of these. When `timer_create` runs off a full table, `NULL != t->func` reads the
word behind it, and the call may report success for a timer that never fires
(`timer.c:58`): `LostOnlyWhenFull` states it as the one way to lose a timer. And
`list_timer.c` ends its calls with the same `spin_unlock` as `timer.c` (`:37`, `:51`,
`:67`, `:82`). In a handler of exercise 15-1 a call would let in the pending tick, which
may pop a second timer while the first fires; both share the context of the interrupted
task, the lines behind the handler (`:100`, `:123`) can be run again, and the blocks
be freed twice. `ListTimer` does not have this case: its properties, and
the theorems about them, are about calls that tasks make.

## 5. What is proved

The theorems hold for every value of the constants that satisfies the assumption
of the module (`PageAssumption`, `KernelAssumption` and so on: types, at least one page,
task and timer slot). TLAPS checks them to the last leaf. The inductive invariants
(`IInv`, `MInv`, `KInv`, `TimerCalls`, `CInv`, `PInv`, `OInv`, `InputInv`, `OwedInv`, `Inv`) were all
checked with TLC before they were proved; to do so again, name them as INVARIANT in a module that extends
`KernelInv`, `CoopInv`, `PrioInv`, `ConsoleInv`, `MallocInv` or `ListTimerInv`.

**PageProofs**, for callers that ask for sizes the pool could serve (`Servable`).
The inductive invariant `IInv` is the types, blocks inside, blocks apart, and flags
that describe blocks. No two of these stand alone: `page_free` clears exactly its
own block only because the flags describe blocks that are apart
(`ClearsItsBlock`), and flags go on describing blocks only because it does.
`AllocatorInvariant` proves it; `FlagsAreRight` and `NoDoubleAllocation` follow.
`AllocatorImplementsPool` proves the refinement of `BlockPool`: where first fit
succeeds there is room (`FitIsFreeRoom`), and where it finds nothing there is none.
The difficulty is the unsigned bound, which does not wrap for servable sizes
(`BoundNoWrap`).

**MallocProofs**, for requests that stay below 2^w when the words of the tags are added
(`NoWrap`; the row `TooLargeFails` of section 4 is the other case). `MInv` says, with
`Blocks` the addresses the walk over the tags meets:

* `Tiles`: the blocks lie one behind the other from the first to the end block, and each
  block's two tags agree; `Merged`: of two neighbours one is used; `HeldBlocks`:
  those marked used are those callers hold;
* `OwnsPages`: the pages that are out are the first ones of the pool, up to `_mm_end`;
* `Growing`, `Failing`: what `mm_malloc` has in hand while it takes a page at a time,
  or gives them back: nothing fits, and all that is new is one free block at the end.

`Tiles` speaks of a set of addresses and not of a walk, so that splitting and
merging blocks are set operations; what callers write cannot disturb it because no tag lies
in a block that is held (`CallersKeepTheirPayloads`). That the walk of the code meets exactly
that set is an induction over the heap, done by a smallest counterexample
(`SmallestMember`, `WalkMeetsTiles`). `BlocksAlwaysTile`, `FreeBlocksAreMerged`
and `HeapAlwaysOwnsItsPages` follow, the last with the panics of `mm_malloc` excluded.
`MallocImplementsBlockPool`: a request is refused only after all pages had been taken and
nothing fitted. `Merged` turns that into "no free stretch of the pool is wide enough", and
`Failing` carries it, while the pages are given back, to the step that answers.

**KernelProofs**, under `RegularUse`: handlers call neither `timer_create` nor
`timer_delete`, and at most one task creates tasks at run time. (Section 4 shows what happens otherwise.) U-mode tasks may
call everything, also what panics there. `ScratchIsCurrent` and
`LockExcludes` are not inductive. `KInv` adds what they rest on:

* `TaskOnHart`: while a task executes it is `_current`, `mscratch` is its
  context, and MIE is on exactly outside of locked sections;
* `TrapOnHart`: while the kernel executes MIE is off, and MPIE and MPP are such that
  `mret` leads back to `TaskOnHart`;
* `Saved`: every other task is in its context, outside the locked sections. This
  is what makes the lock exclude: a trap can come only where the lock is not
  held, so no saved context is in a locked section;
* `IsTask`: a task in `task_create` has the context at `_top` filled in just as far
  as it has got, so that counting it publishes a complete one;
* `Trapped`, `UnusedIsZero`: what a trap recorded, that a panic has an access to a
  machine-mode CSR in U-mode behind it, and that contexts not yet used are zero.

`KernelInvariant` has one lemma per action or group of actions that change the same
variables. From it follow `TypeCorrect`, `TrapsSaveTheirTask`, `MutualExclusion`,
`TasksAreSetUp` and `OnlyCsrAccessPanics`; if U-mode tasks keep to calls without a CSR
access (`NoCsrCalls`) there is no panic at all (`NeverPanics`).

`TurnsPass` is what can be proved of the round robin, here and in `CoopProofs` and
`PrioProofs`. `Distance(c, t)` counts the places from `c` to `t` round the ring of `MaxTasks`;
each `schedule` that does not pick a task makes its distance from `_current` smaller, and nothing
but `schedule` changes it, so a task is passed over at most `MaxTasks` times
(`NextInTurnIsNearest`, `OnlyScheduleTurns`). The liveness properties `EveryTaskRuns`, `EveryoneTakesTurns`
and `HighestIsPicked` have this as their first conjunct; what they add is that schedules go on,
and that is left to TLC.

`KernelImplementsVirtualCpus` is the first refinement. The mapping `Registers(t)`
finds the registers of `t` in the hart, in its context, or, when a trap is about
to return, in its context but for the pc, which is in `mepc`. A step of a
task is a step of `VirtualCpus` (`TaskStepIsVirtual`); `Alone` holds because of `Saved`.
Traps, handlers, `schedule`, `switch_to` and `mret` change no `Registers(t)`
(`TrapIsInvisible`, `HandlerIsInvisible`, `RestoreIsInvisible`); a system call is
the one step the kernel makes on behalf of a task (`SyscallIsVirtual`).

`KernelImplementsTimer` is the second: what `timer.c` does in several statements is
one step of `Timer`, the one that writes `timeout_tick` (`TickArms`), the one that
clears a slot (`DeleteFrees`) and the one that checks (`CheckIsTheTick`). `ListView` and
`TickView` hide the half-done states, and `TimerCalls` is the invariant this needs: the slot that
is being filled was the first free one and still is (nobody can have come between, by
`KInv`), and a tick is handled only when the clock has asked for one.

**TimerProofs**, for any number of slots and timers, and any word behind the table at each
call. `OwedInv`, types and `LostOnlyWhenFull`, is inductive by itself: a creation takes a
slot that is free, or none and the timer is stray, and a handler that is not owed; a
deletion or a tick frees one slot, and what was in it is no longer owed
(`TimersLostOnlyWhenFull`). For the time one must assume that the counter does not
wrap in the life of the system (`NoWrap`). `DueInv` then says that
`timeout_tick` is the present tick plus what is left, which gives `NoTimerEarly`.
`LatenessIsBounded` needs an argument about slots that overtake: while slot *i* is
late, each tick fires a slot before it, and no slot twice, since a slot that has been filled
again meanwhile is not due before slot *i* is done (`LongTimeouts`: no timeout shorter than
the table). So the set `HaveOvertaken(i)` of slots with at least `MaxTimer` more ticks left than
slot *i* grows by one with every tick of lateness (`LateInv`), and it has *i* places.

**CoopProofs.** `CInv` says, label by label, what the hart holds on its
way through `switch_to` (`SwitchGoesOn`), and that whoever does not run is in its
context at a label it can go on from (`TasksWait`, `KernelWaits`). It is needed because
`CurrentExecutes` is about a task that executes, while what makes it true was put
into a context long before. In stage 07 nothing holds after a trap at the wrong
moment; until then (`~ hit`) everything does, traps included. From it follow
`OnlyCurrentExecutes`, `CallsNeverReturn` (the calls the code takes to be
final) and `SwitchesToHighest`. `CoopImplementsCoroutines` is the refinement: `Thread(t)`
finds what a task holds in the registers or in its context, and no label of
`switch_to` changes it for any task. `TurnsPass` holds of all four kernels: in the
exercises for the tasks of the highest priority, since the task picked is the nearest of them
(`NextIsNearest`), and also where `schedule` finds nobody else and stays (`ScheduleIsNearer`).

**PrioProofs**, for the `schedule` of exercise 15-1 (`AsIn151`). `RunsHighest` holds between
traps because every trap ends in `schedule` and no task can raise another's
priority or status. The other properties hang together: a task with a timer is
asleep, hence is not resumed, hence does not arm a second one (`WakeupsMeetSleepers`, `Executing`);
a task is saved inside of `task_exit` only if it is EXITED and inside of `task_sleep` only if it is
SLEEPING (`Waiting`), so what is resumed is in neither. A slot that is used again is
EXITED or EMPTY, so no timer waits for it. `OversleepIsBounded` counts: there are
no more timers than `MaxTimers` and one per sleeping task (`FewTimers`); a tick that fires one moves
all others a place forward as it makes them a tick older, and in a tick that fires
none, none is due, because the queue is sorted (`NotTooLate`). `TurnsPass` is about picking: that
a task picked need not get to execute is the row `HighestGetsTurns` of section 4.

**ConsoleProofs.** However many write into the buffer, its last byte is NUL: texts are
two shorter than the buffer, and a reader stops at a NUL at the latest there (`Placed`);
this needs nothing of what the others write, which is why it holds in the middle of
a mix-up (`NobodyLeavesBuffer`). A printer that nobody disturbs has its text in the buffer up to
where it is (`Owns`), which gives `TextsArePrinted`. `PollsHold`: only the printer that
executes writes to the transmitter, and a trap handler is not interrupted (`Polled`).

`InputIsKept` is about the way in. `EchoesInOrder` says that what has been echoed, what is in
`uart_isr`'s hand and what is in the receiver are together what has arrived, in its order;
it rests on `InputInv`: an interrupt is claimed exactly while the handler is between claim and
complete (`Serving`), what it is to put out is then a character from outside (`Holds`), and it can
claim only what is pending, because nobody but the handler clears that. Traps are not
interrupted, devices are: a character that arrives in any of these states goes to the end of the
receiver (`DevicesInput`). With it, `EveryCharEchoed` needs only that the handler is called again.

`PrintfPrintsItems` proves `PrintsItems` for every `LongBits` that is a multiple of four up to 64 and every
row of items (without a string behind a character, which the code takes for an
address), where the run has 8 bits and three items. The loops of `_vsnprintf` are recursive
functions, so the first thing to show is that these exist and have the values their bodies
say (`IteratesExist`, by a smallest counterexample). Then

* digits: `DecimalStands` and `HexStands` say that the row the loop leaves stands for the
  number, because each division takes off one digit and leaves less (`DecimalSteps`,
  `Shrinks`), and `Value` reads them back (`ValueSteps`); `SignedStands` and `PointerParts`
  add the sign and the prefix, and leave out the one number that has no negative;
* rows: a format is the directives of its items one behind the other (`FlattenSteps`);
  `Reaches` is the state of the loop before an item, each item moves it to the next
  (`ItemSteps`), and after all of them the pass has written the pieces (`RowWritten`) or added
  up their lengths (`RowMeasured`). The two passes take different arguments behind a `%c`;
  they agree unless a decimal number follows, the only piece whose length depends on
  its argument and that may stand there.

**ListTimerProofs**, for any number of nodes, any number of levels and both builds, and calls
that tasks make. What the code sees of a list is pointers; `Inv` says that there is one order `q` of nodes, without
repetition, that all of them agree with:

* `Place(q, i)`: head, the nodes of `q`, tail and the null pointer behind it by their position, so
  that each statement about links is one about positions;
* `DoublyLinked`: `next` leads from each place to the one after it, and `prev` back;
* `SkipLinked`: `forward[i]` leads from each node that reaches level *i* to the first behind it
  that does (`Follows`), the level of the list is the highest of its nodes, and above its own
  level a node has null pointers, which is what `skip_list_delete2` trips over;
* `Files`: `q` are the nodes allocated but for the one whose handler runs, their data are the
  timers, each once, sorted by time, and a timer is at most as late as it has timers before it.

`Inv` takes the order that the walk of the code meets for `q`; so the first part of the module
shows that a walk on links that lead only forward ends where it should (`WalkEnds`), and that
the nodes it meets are the nodes of any order that agrees with the links (`InOrderIs`,
`AtLevelIs`). These are inductions over the number of steps, done by a smallest counterexample
(`AllUpTo`). From there on the proofs are about positions: an insertion puts a node in at a
place (`InsertedPlaces`), a deletion takes one out (`RemovedPlaces`). `UpdateIs` shows that the
walks of `skip_list_insert` and `skip_list_delete` fill `update` with the last nodes before the
place, on every level, although each starts where the one above ended; `LinkedInShape` and
`UnlinkedShape` that the pointers changed are then the right ones. Both builds come together in
`InvNext`: a step keeps `Inv` if it leads to a list that has the nodes of some order, and if
the records agree with that order.

From `Inv` follow `ListsKeepTheirShape`, `BlocksAreAlwaysListed`, `OnlyTallestAreDeleted` and
`FirstOfEqualsIsFound`. `ListsImplementTimerQueue` needs no more either: `Listed` is the queue as
the order reads, an insertion in the one is an insertion in the other (`EntriesInserted`), and the
first that is due is the same (`TickQueues`).

Model-checked only: liveness, which is out of the prover's reach. These are `YieldRelinquishes`,
`EveryTimerFires`, and what `EveryTaskRuns`, `EveryoneTakesTurns`, `HighestIsPicked` and
`EveryCharEchoed` say beyond their first conjuncts, which are proved. Every invariant and every
action property that a run checks, and that holds, has its theorem.

## 6. What is not modelled

* The line input of `ex_7_1` and `ex_7_2` and the clock of `ex_12_1`: loops of one thread
  without state that outlives them. Reading them shows that `uart_puts` of
  `ex_7_1/start.S` calls `uart_putc` without saving `ra`, and so cannot return; and that
  `time_buf` and `back_buf` of `ex_12_1/timer.c:32` have no NUL although they are printed with `%s`.
* Parking of other harts, PMP, the linker script: constants or part of `Init`.
* A receiver that overruns, break and framing errors: `uart_isr` looks at none. In
  `Printf`, field widths and `%%`, which the code does not have (a `%` behind a `%` is
  ignored).
* Concurrent callers of `page_alloc` and of `mm_malloc`: neither takes a lock, and
  both modules have one caller at a time. From stage 08 on two tasks preempted between the
  test and the mark of `page_alloc` (`page.c:133`) would get the same pages.
* `_tick` wrapping at 2^32 (`timer.c:95`; `NoWrap` excludes it), a pointer given to
  `timer_delete` after its timer has fired and the slot been filled again (`timer.c:78`),
  `page_alloc(0)` (`page.c:135`) and freeing an address inside a block (`page.c:163`): all are
  uses no caller in the repository makes.
* That the store raising MSIP may hit another task when a tick comes first (`sched.c:74`) is
  part of `Kernel`, but nothing promises otherwise: the other task loses the hart once.
* In `Timer`, `PrioSched` and `ListTimer`, a handler that calls the timer API: no handler in
  the repository does. `Kernel` has it (`HandlerCalls`), for one call in a run of a handler.
* In `PrioSched`: a task does not execute another statement between the store that raises MSIP
  and the interrupt; `timer_create` is one step; `task_create` is
  called by `os_main` and by timer handlers, as the exercises do.
* Destroying the lists, `list_push_back` and the benchmarks of `timer_structs` but for the
  nodes they free.

The twelve stages, and the kernels in the exercises, are copies of each other with a
subsystem added or changed: most lines of the repository are a second to twelfth copy of
lines that are modelled once, from the last stage that has them.

## 7. Plan

1. *Done*: all components with state of their own, the theorems above.
2. *Next models*: two preempted callers of `page_alloc`, statement by statement; the PLIC and
   console inside of `Kernel`, so that handlers print in the traps that are taken there.
3. *Next proofs*: the theorems of whatever these models add; of the present ones all but
   liveness is proved.
