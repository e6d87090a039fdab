# TLA+ models of the ZeOS kernel

This directory holds a TLA+ development for the teaching kernel in
`src/ZeOSSysenter/zeos`: round-robin processes, threads inside a process,
semaphores, a keyboard buffer, paging with a small heap per process and a text
screen. `src/zeOSpparri` is an earlier kernel from which it grew.

The kernel runs on one processor. Interrupt and trap gates and `sysenter`
enter the kernel with interrupts disabled and nothing in the kernel enables them
again (only `cpu_idle` and the return to user code do), so a system call or an interrupt
handler runs alone until it returns or calls `task_switch`. One TLA+ action is
one such run. What interleaves is which task makes which call and when the
timer and the keyboard interrupt.

## Inventory

| component | state | operations | used by |
|---|---|---|---|
| task lists (`list.c`, `include/list.h`) | the two pointers in every `task_struct`, and the heads `freequeue`, `readyqueue`, `semafor_proces[i].blocked` | `list_add`, `list_add_tail`, `list_del`, `list_first`, `list_empty`, `INIT_LIST_HEAD` | scheduler, fork, threads, semaphores |
| scheduler (`sched.c`, `kernel-utils.S`) | `task[]`, `remaining_quantum`, `register_esp`, `state` | `init_sched`, `init_idle`, `init_task1`, `sched_next_rr`, `update_process_state_rr`, `needs_sched_rr`, `schedule`, `task_switch` | clock, yield, exit, semWait |
| processes and threads (`sys.c`) | `PID`, `TID`, `global_PID`, `global_TID` | `sys_fork`, `sys_exit`, `sys_threadCreate`, `sys_threadExit`, `sys_yield`, `sys_getpid` | user programs |
| semaphores (`sys.c`) | `semafor_proces[NUM_SEM]`: `semid`, `count`, `PID`, `blocked` | `sys_semCreate`, `sys_semWait`, `sys_semSignal`, `sys_semDestroy`, reset by `sys_fork` | user programs |
| clock interrupt (`interrupt.c`) | `zeos_ticks` | `clock_routine`: draw the clock, count, `schedule` | hardware |
| keyboard (`interrupt.c`, `io.c`, `sys.c`) | ring `circ_buff`: `read`, `write`, number of keys | `keyboard_routine` (producer), `sys_getKey` (consumer) | hardware, user programs |
| memory (`mm.c`, `sys.c`) | `phys_mem[]`, page directories and tables, the break and the first heap page of a process | `alloc_frame`, `free_frame`, `set_ss_pag`, `del_ss_pag`, `allocate_DIR`, `sys_sbrk`, and the memory half of fork, exit and threadCreate | processes |
| screen (`io.c`, `devices.c`, `sys.c`) | cursor, colours, video memory | `printc`, `printc_xy`, `sys_gotoXY`, `sys_SetColor`, `sys_spritePut`, `sys_write` | user programs, clock |
| statistics (`p_stats.c`, `sys.c`) | `p_stats` of every task | `update_stats` in the interrupt handlers and at every switch, `sys_get_stats` | user programs |
| system call entry (`entry.S`, `sys_call_table.S`, `user-utils.S`) | none | check of the number, dispatch | user programs |
| user memory (`utils.c`) | none | `access_ok`, `copy_data`, `copy_from_user`, `copy_to_user` | sys_write and others |
| boot (`bootsect.S`, `system.c`, `hardware.c`) | descriptor tables | straight-line initialization | |
| image builder (`build.c`) | none | writes the boot image on the build host | |
| user program (`user.c`, `libc.c`) | a shared counter, a semaphore and threads; a game; `itoa` | makes system calls | |
| earlier kernel (`zeOSpparri`) | `task[]` with `kids`, `dad` and `pending_unblocks`, three queues, frames and page tables | round robin, `sys_fork`, `sys_exit`, `sys_block`, `sys_unblock`, its own `sys_write` | a test of block and unblock in `user.c` |

How they interact: every call that gives up the processor ends in
`sched_next_rr`, which takes a node from `readyqueue` and calls `task_switch`;
the clock gets there through `update_process_state_rr`. A `task_struct` has one
list node, `list`, so the free queue, the ready queue and the queues of the
semaphores compete for it and the field `state` is what tells them apart. All
tasks hold a pointer `semafors` to one array, `semafor_proces`.

### What is hard, and what has to hold

* *Queues.* Nodes are linked without asking whether they are linked already,
  and `update_process_state_rr` decides by `state` whether to unlink. Tasks
  preempted, blocked, woken, ended and reused in any order must never be linked
  twice (`ListDiscipline`), and `state` must agree (`StateMatchesQueue`).
* *Switching.* `inner_task_switch` hands `register_esp` to `switch_stack` by
  value, before the running task saves its own position. Who is switched to
  must have a position worth returning to (`ContextMatchesState`).
* *Failure half way.* `sys_fork` copies the parent's `task_struct` and resets
  semaphores before it knows whether there are frames; `sys_threadCreate` uses
  up a TID. Task structures must come back (`SlotsAccountedFor`) and stale
  identifiers must not be confused with live ones (`UniqueIds`).
* *Semaphores.* `sys_semSignal` takes the first blocked thread because the
  counter says there is one (`SemCountMatchesBlocked`, `SignalFindsThread`);
  semaphores are destroyed and created again while threads wait
  (`WokenByOwnProcess`, `NoTaskLost`); only the creator may use one
  (`OwnerOnly`).
* *Frames.* Fork, threadCreate and sbrk take frames one at a time and may run
  out at any of them; exit, threadExit and sbrk release by page numbers that may
  have moved. A mapped frame must not be handed out again (`FrameOwnership`),
  and a failed call must give back what it took (`NoFrameChangeOnFailure`).
* *Time.* Elapsed time is the difference of two counters that wrap, booked on
  one of three accounts by five different paths; a path that forgets to, or does it
  twice, shows up only in later sums (`AccountsComplete`). A PID may be found in
  a structure that is free (`ReportsTaskInUse`).
* *Screen.* `sys_write` cuts a block into pieces, words and bytes
  (`WritesWhatWasAsked`), the address checks work on pages modulo the address
  range (`AccessChecked`), the pieces may be read from elsewhere than what was
  checked (`PrintsUserBytes`), and sprites are checked by their corner only
  (`DrawnInPlace`).
* *The program.* Its main destroys the semaphore while threads are before,
  in, inside or after it: no increment may be lost before
  that (`CountsWhileSemaphore`), no thread may be left behind
  (`AllThreadsEnd`) and the kernel must survive it (`KernelGoesOn`).
* *The earlier kernel.* A child's single list node is linked in the `kids` of its
  parent and then, still linked, in the ready queue, so that walks over `kids`
  lead through whatever queue the child is in. `QueuesIntact`,
  `OnlyParentsStop` and `GrandchildFound` say how far that goes well.
* *Fairness.* Round robin is first come first served (`NoOvertaking`), and
  nobody starves (`ReadyEventuallyRuns`); idle runs only when nothing can
  (`IdleOnlyWhenNothingReady`), and then for ever (`IdleIsFinal`).
* *Limits.* The quantum is tested for zero only, the ring buffer has 256 places,
  a thread's stack may be at the last page, range checks are off by one in
  places.

The hazards are listed line by line in `PROJECT.json`.

## Modules

| module | models or shows |
|---|---|
| `TaskLists` | the list operations |
| `Processes` | scheduler, processes, threads, semaphores, clock; its properties |
| `MCProcesses` | the instances of `Processes` for TLC |
| `Keyboard` | the ring buffer between `keyboard_routine` and `sys_getKey` |
| `KeyQueue` | what the ring buffer promises: a bounded queue; `Keyboard` implements it |
| `MCKeyboard` | the instance of `Keyboard` for TLC |
| `Memory` | frames, page tables, heaps and user stacks, composed with `Processes` |
| `MCMemory` | the instance of `Memory` for TLC |
| `Statistics`, `MCStatistics` | the time accounting and `sys_get_stats`, composed with `Processes` |
| `UserMemory` | `access_ok` and the copies between user and kernel memory |
| `Screen`, `MCScreen` | printing, write, cursor, colours, sprites and numbers, on top of `UserMemory` |
| `SemaphoreProgram`, `MCSemaphoreProgram` | the program of `user.c` running on `Processes` |
| `ListPointers` | `list.c` pointer by pointer |
| `EarlyKernel` | scheduler, fork, exit, block and unblock of the earlier kernel, on `ListPointers` |
| `EarlyMemory`, `MCEarlyKernel` | its frames and page tables, composed with `EarlyKernel` |
| `EarlyProgram`, `MCEarlyProgram` | its `user.c` running on `EarlyKernel` |
| `BasicFacts` | remainders and quotients, induction over sets of numbers, recursive functions and folds |
| `ProcessesProofs` | what the list operations keep, the inductive invariant of `Processes` and its theorems, counters and queues of the semaphores |
| `KeyboardProofs` | the indices of the ring, and that the ring implements the queue |
| `MemoryProofs` | the inductive invariant of `Memory`, and that `Memory` implements `Processes` |
| `StatisticsProofs` | the same for `Statistics`, and that its accounts are complete |
| `SemaphoreProgramProofs` | the program loses no update and stops no kernel |
| `ScreenProofs` | what the loops of the calls on the screen compute |
| `EarlyProofs` | queues, frames and test program of the earlier kernel, pointer by pointer |

### `TaskLists`

The circular lists as a function from list heads to sequences of tasks. A node
that is linked at most once makes this exact; `ListDiscipline` says that it is.
`INIT_LIST_HEAD` on a list in use empties the sequence and leaves the nodes
hanging from nothing, which is what the code does. `list_move_all` is the loop
of `sys_semDestroy`.

### `Processes`

| variable | code |
|---|---|
| `lists` | `freequeue` (-1), `readyqueue` (-2), `semafor_proces[i].blocked` (i) |
| `running` | `current()` |
| `state`, `PID`, `TID`, `register_esp` | the fields of `task_struct` |
| `remaining_quantum` | the variable of that name in `sched.c` |
| `sem` | `semafor_proces` without the queues, and `value`, a history of the initial value |
| `global_PID`, `global_TID` | the counters of `sys.c` |
| `fault` | what the kernel has done that C does not define, or "none" |

Actions are called like the functions: `sys_yield`, `sys_fork`,
`sys_threadCreate`, `sys_exit`, `sys_threadExit`, `sys_semCreate`,
`sys_semWait`, `sys_semSignal`, `sys_semDestroy`; `Clock` is `clock_routine`
and `UseBeyondArray` is any of the last three with the number `NUM_SEM`.

Abstractions:

* How the memory half of a fork or threadCreate ends is an input (`result`);
  `Memory` computes it.
* `register_esp` is not an address but the path that left it: `task_switch`
  called from the clock, from yield, from semWait or from exit, or the stacks
  made by hand in `init_idle`, `sys_fork` and `sys_threadCreate`. This is what
  decides whether returning there makes sense. For a task that switches to
  itself at a position saved at another depth the outcome depends on the
  compiler, and the model allows both.
* A fault freezes the model. Nothing is claimed about what follows.
* A call that returns an error before it has changed anything is a stuttering
  step and has no action.
* `total_quantum` is `DEFAULT_QUANTUM` for every task; no call changes it.

### `Keyboard` and `KeyQueue`

The fields of `cBuffer`, the character the last `sys_getKey` delivered, and a
history variable that remembers an overrun until the ring is empty again. The
counter wraps at `COUNTER_RANGE`, 2^32 in the code. `KeyQueue` is a queue of at
most `Size` keys that may become a number of unknown keys when it overflows.
Only bytes with bit 7 set are keys; `char_map` has an entry for every one that
a keyboard sends.

### `Memory`

| variable | code |
|---|---|
| `phys_mem` | the frames marked `USED_FRAME` |
| `pagusr_table` | the page table in each place of the array, from a page to a frame or `NotPresent` |
| `dir` | `dir_pages_baseAddr`, as the place whose table a task uses |
| `heap_pointer` | `heap_pointer_proc`, in pages |
| `ustack` | the page of a thread's user stack, zero for the stack in the data pages |

Each action is the action of `Processes` together with what the same call does to
memory: `ForkMemory` with `sys_fork`, `ThreadMemory` with `sys_threadCreate`,
`ExitMemory`, `ThreadExitMemory`; the result that is an input there follows from
the free frames and the page tables here. `sys_sbrk` is new. Calls of
`alloc_frame` in a loop are one operator, `alloc_frames`, which assigns the lowest
free frames to a set of pages in order.

Abstractions:

* Pages, not bytes. `heap_pointer_proc` moves by whole pages whatever the
  size passed to `sys_sbrk`, and both of its limits give the same answer for the
  size rounded away from zero.
* The pages of the kernel are the same in every table and left out.
* The TLB is left out except in `sys_fork`: there the heap is copied through
  entries deleted just before, and the model allows both that the processor
  still has them and that the kernel faults.
* A task whose user stack is not mapped cannot make a call. It would fault and
  stay in the handler of the fault.

### `Statistics`

Each action is the one of `Processes` with what the same handler does to
`p_stats`; `get_ticks` lets time pass between handlers, `KeyboardStats` is the
accounting around the keyboard interrupt. `spent` is a history
of the time a task has really run and not run, against which the accounts
are compared, `left` of the PIDs that stayed behind in free structures, and `report`
the structure `sys_get_stats` has copied from. All counters wrap at
`TICK_RANGE`. Left out are `blocked_ticks`, which stays zero, and `total_trans` and
`remaining_ticks`, which are only reported.

### `UserMemory` and `Screen`

A byte is the address it was read from, so what a write prints can be compared
with what it was asked to print. `access_ok` is the code's arithmetic on page
numbers, with the wrap of the address range and the missing break of its switch.
`Screen` has the cursor, the colours, and `last`, the last call with its result, the bytes it
printed and the cells it wrote; nothing else survives a call. Both kernels share
the module and are told apart by `kernel`, since `io.c` is nearly the same in both:
the later has sprites, gotoXY and colours, the earlier another `sys_write` and the
echo of keys. `printc_xy` is also what the clock on the screen is drawn with.
`copyPage` says whether the page after the data is mapped, which a fork may
leave so. Positions, colours and addresses passed to the calls lie inside and outside
their ranges; the numbers printed are those of `itoa`, `put_hex` and `perror`.

### `SemaphoreProgram`

`pc` is what each task does next; `contador` is read and written in two steps, so
that the clock can preempt a thread in between. A step of a task takes place when
that task runs in `Processes`, and a system call is the action of
`Processes`. Delays are the time until the next step. Frames suffice for five
threads, so creation succeeds.

### `ListPointers`, `EarlyKernel`, `EarlyMemory`, `EarlyProgram`

Sequences are no good for the earlier kernel, where one node hangs from two lists.
`ListPointers` has the two pointer functions that `list.c` writes;
`list_for_each` is the walk, bounded by the number of cells, after which it never ends.
`EarlyKernel` has the heads, the task fields, `qticks`, and `fault` for what stops the
kernel: a NULL pointer followed, a list head taken for a task, a walk that does not
end, a switch from a task to itself. Every negative `qticks` is -1, since only zero
is tested. `tangled` becomes true when a second fork writes into a queue
through the stale pointers of the first child; the properties are stated up to
there, because after it the queues are whatever those writes left.
`EarlyMemory` adds the frames and tables, where the code does not notice
that there is no frame. `EarlyProgram` is the test of block and unblock in
`user.c`: a child that wakes its grandchild over and over.

## Runs

| run | shows |
|---|---|
| `proc_safety` | two processes with threads and two semaphores, every call with every input the code lets through, edge values included: lists, states, contexts, identifiers and slots stay consistent, idle is final, the ready queue is first come first served; counters agree with queues, only a thread of the same process wakes a thread, and no step loses a task except a fork, which loses the threads blocked at that moment |
| `proc_liveness` | round robin starves no ready task, whatever the programs do, as long as nobody uses semaphores |
| `keyboard` | the ring is a queue until a key arrives while it is full, and again after it has been emptied |
| `mem_safety` | two processes, threads and heaps that grow and shrink until the frames run out: no frame mapped as data or heap is handed out twice, a call that fails gives back what it took |
| `mem_limit` | a short page table, which heaps and thread stacks reach before the frames run out: breaks stop at its end, also where a thread stack one page beyond it passes the check |
| `stats` | through every switch, call and interrupt, with counters that wrap, each tick is booked once; and which structures `sys_get_stats` finds |
| `screen` | writes of up to three buffers and one byte, whole multiples included, at addresses around the pages of the program, sprites at the edges, any sequence of calls: what is printed is what was asked, from memory of the user, in place, and the cursor stays on the screen |
| `program` | main and its threads, preempted anywhere: no increment is lost while the semaphore exists, and all threads end whenever main destroys it |
| `early` | the queues of the earlier kernel stay proper although children hang from two lists, only parents stop the kernel, frames suffice and are not shared, and only a quantum that has passed zero starves anybody |
| `early_program` | its test of block and unblock: the walk over `kids` always meets the grandchild, which is woken and exits |
| `viol_owner`, `viol_unblock` | two places where the code does not do what its comments say (below) |

`CHECK_DEADLOCK FALSE` appears where a faulting kernel stops; the keyboard and
the two programs never stop.

### Bounds

`NR_TASKS` is 10 in the code and 4 or 5 here: idle, the first process and two or three
more are enough for a parent, a thread and a process of its own, and for a
queue with an order. `NUM_SEM` is 10 in the code and at most 2 here, enough for
the search of `sys_semCreate` to pass over a used one, and for threads of two
processes on two semaphores. `DEFAULT_QUANTUM` is 2, so that a tick may or may
not end the turn. `MaxPID` and `MaxTID` bound how many processes and threads
are ever created; a task structure is reused within them. `MaxCount` bounds the
counter of a semaphore. The theorems do without any of these values.

The ring has 4 places instead of 256 and the counter wraps at 12 instead of 2^32,
so that a run overruns and wraps it. The machine of `Memory` has 12
frames, of which every second one is handed out, one page of code and two of
data: enough for a second process and a heap, and few enough for every call to
meet the lack of frames. There a heap stays away from the end of the page table;
`mem_limit` has a table of 7 pages with one of data, which a heap of three pages
fills, and three threads, so that a stack is also asked for at the very end.
`proc_safety` creates semaphores with the values -1 and 0, and counts up to 1.

`stats` has three task structures and counters of one bit: idle, a parent and a
child or thread are all that a switch involves, and a counter of two values
tells whether a tick was booked zero times, once or twice. `screen` has 2 rows of
3 cells, a buffer of 3 bytes, words of 2 and pages of 8 in 64 addresses; sizes are
-1, 0, 1, and 3, 4, 6, 7, 9 and 10: blocks of whole buffers and of one byte more, blocks that end
in the middle and at the end of a word and of a page, that cross the end of the
program or of the address range, and lines that wrap at the end of the screen all
occur. `program` has three threads, one inside the semaphore, one blocked and one
on its way there. `early` has four structures, which is a grandchild, and PIDs
up to 6, so that structures are reused; its quantum is 2. In `early_program` the
quantum is 4, so that the first process can, but need not, fork before it ends.

### Fairness

`FairSpec` has weak fairness of `Clock` only: the timer interrupts for ever, and
both user code and `cpu_idle` run with interrupts enabled. No program is assumed
ever to make a call. `ReadyEventuallyRuns` is checked without semaphores
because a woken thread goes to the *front* of the ready queue
(`list_add` in `sys_semSignal`) with a full quantum: two threads that keep
signalling each other keep all others waiting, and no fairness of the hardware
changes that.

`ProgSpec`, in both programs, adds strong fairness of the step of each task: a
task that gets the processor again and again goes on, because its quantum (10
or 1000 ticks) is time for many instructions. Strong, because a task that waits for its next turn
can take no step. `FairMemSpec` of the earlier kernel has weak fairness of
`Clock`, as `FairSpec`.

## Proofs

The modules whose names end in `Proofs`, and `BasicFacts`, are checked by
TLAPS. Every invariant of every passing run is stated by a theorem, and so are all action
properties and the refinement.

The type invariant and each safety invariant of `Processes` are proved as
`Spec => []P`, for every number of tasks (at least two), semaphores and ticks, and
all inputs. None of them is inductive alone, so they are proved together as

    Inv == TypeOK /\ ListDiscipline /\ StateMatchesQueue
           /\ IdleOnlyWhenNothingReady /\ UniqueIds /\ IdsBelowGlobals
           /\ ContextMatchesState /\ SlotsAccountedFor

* Linking the running task in a queue keeps `ListDiscipline` because the
  running task is in none. Waking a blocked thread needs it to be blocked in
  one queue only.
* `update_process_state_rr` unlinks nothing because `state[running]` is
  `ST_RUN`, which is part of `StateMatchesQueue`.
* `UniqueIds` needs `IdsBelowGlobals`: a fresh PID or TID differs from all
  others only because none in use is above the counter. It does not need
  anything about free task structures, whose identifiers are stale.
* `ContextMatchesState` also says when a switch goes to a position that is no
  context: never to another task, since who is ready or idle has one, hence to
  the running task itself. It is then alone in the ready queue, and the clock
  does not switch when nobody else is there; so it has called yield.
* `IdleIsFinal` follows since the only step of idle is a clock tick, and the
  ready queue is empty while idle runs.

The proof of an action goes through one of three lemmas about what it does to
the lists and states: `SwitchAway` (the running task leaves and
`sched_next_rr` picks another), `CreateTask` (a free structure is filled in and
placed) and `WakeThreads`. They rest on facts about list operations
that are stated for any lists and any heads.

`NoOvertaking` is a statement about the order of the elements that two sequences
share. `InOrder` is that relation between two sequences, with one
lemma for each way an operation changes a list (append, put in front, take the first, rotate),
and every action changes the ready queue in one of them.

`SemCountMatchesBlocked` counts from zero, or from the value of a semaphore that
was created with a negative one. It is inductive together with `Inv` (a thread keeps
its PID while it is blocked) and with `DebtKept`: as long as the kernel lives, a
counter that started below zero has not risen above the value it started with,
because the signal that raises it takes a thread from an empty queue. That signal is the
exception of `SignalFindsThread`. The theorems hold for all initial values. `NoTaskLost` and
`WokenByOwnProcess` rest on it: the task that a signal takes from a queue is
blocked there, and has the PID the semaphore was created with.

`MemoryProofs` first shows `MemSpec => Spec`: each action with memory is an action of
`Processes`, or leaves its variables alone. Everything proved of `Processes`
therefore holds with memory. Its own invariant is

    MemInv == Inv /\ MemTypeOK /\ FrameOwnership /\ BreakInRange
              /\ TablesKnown /\ ReservedUsed

where `TablesKnown` gives every task in use a page table and `ReservedUsed` keeps the
frames of kernel and code marked. Without the second `FrameOwnership` is not
inductive: a child's data could be given a frame of the code. That a failed call
leaves the marks as they were needs only what `alloc_frames` returns.

`StatisticsProofs` shows `StatSpec => Spec` in the same way.
`ReportsTaskInUse` needs that a free structure has the PID -1 or one in `left`
(`FreeIdsLeft`). `AccountsComplete` is kept by the induction together with `StatInv`: the accounts of all tasks
balance for whoever is on the processor, an update moves the pending time of a task
to one of its accounts, and a switch makes two of them. The sums are taken modulo the
width of the counters (`BasicFacts`).

`KeyboardProofs` shows `TypeOK` and `IndicesAgree` of the ring. The second
needs that the size of the ring divides the range of the counter
(`RangeAssumption`, true of 256 and 2^32): otherwise a wrap of the counter would
move the two indices apart. The refinement of `KeyQueue` adds to them that
the counter is at most the size as long as there was no overrun. A key that
arrives goes to a place none of the waiting ones are in, because two offsets below
the size have different places. It also needs that the counter can go past
the size by one without wrapping: with a range of only one more the overrun would not be
noticed.

`SemaphoreProgramProofs` proves `CountsWhileSemaphore` and `KernelGoesOn` for any number of
threads and any quantum with

    ProgInv == Inv /\ SemCountMatchesBlocked /\ NoDebt /\ KernelGoesOn /\ ProgTypeOK
               /\ FreshFirst /\ Roles /\ OneInside

`OneInside` is the mutual exclusion: one thread between wait and signal that is not
blocked, a permit only if there is none, and whoever has read the counter finds it
unchanged. `FreshFirst` says that no task structure is used for two threads,
which would let one thread be counted for another.

### The screen

`ScreenProofs` proves every property of `Screen` for every size of screen, buffer,
word and page, every layout of the program, and all strings, sprites and numbers.
A call is one action and needs of the state before it only that the cursor
is on the screen, so the inductive invariant `ScreenInv` is the conjunction of the
properties. The work is in what the loops of a call compute:

* printing a string, whatever is in it, keeps any set of positions that printing one
  character keeps (`PrintkStays`);
* the pieces of a write, cut in words and bytes, are runs of addresses (`CopyIsRun`,
  `ChunksAreRuns`) that join to the block when the stride is the size of the buffer
  or there is only one piece (`ChunksJoin`); with the doubled stride of the earlier kernel
  they do not, which is why `WritesWhatWasAsked` leaves its long blocks out; they lie within
  twice the length of the block all the same (`ChunksNear`), so that what is read and does not
  fault is memory of the user (`ReadIsUser`), which is `PrintsUserBytes`;
* the test of `access_ok` on page numbers is turned into one on addresses
  (`ProgramAccepted`, `AcceptedEnd`);
* a sprite is a walk over its content by row and column, by the quotient and the remainder of the
  index;
* the digits of a number read back as the number, by induction on it (`DigitsReadBack`),
  and reading them reversed gives the same.

Folds and recursive functions are out of reach of the library's induction theorems,
which have an operator as a parameter. `BasicFacts` does without: `SetInduction` speaks of
a *set* of numbers that contains zero and with each number the next one,
`RecursionExists` and `FoldExists` build the function that a recursive definition chooses, and
a fact about all lengths is the statement that the set of the lengths it holds for is
everything.

### The earlier kernel

The nodes of `EarlyKernel` are linked twice, so there is no sequence to reason about.
`EarlyProofs` works with *rings*: `Ring(p, h, S)` says that following `next` from the head
`h` goes through exactly the cells of `S` and back, and that `prev` is its inverse. Each list operation
has a lemma: `list_add` to a ring adds a cell, `list_del` removes one, and a write to
a cell outside leaves a ring alone. `RingProper` leads from rings to the walks that
`ProperList` and `Visited` are about. The inductive invariant is

    KernelInv == (fault = "none" /\ ~ tangled => Scheduled(lists, running, status))
                 /\ OnlyParentsStop

where `Scheduled` says that all tasks but the running one and `idle_task` are in the
ring of the queue for their state, that `idle_task` runs only when nobody else is ready, and that
the list of kids of a task in use is empty or leads to a task (`Family`). That is all that remains of
a `kids` list once its nodes have been moved to the queues, and it is enough:
an exit or an unblock goes wrong only when it is not empty. A fork links the child in `kids` and
then in the ready queue. The first child of a process, and a later one while the last child is at the
end of the ready queue, leaves the ready queue as if it had been linked once; everything else sets
`tangled`.

With the memory the invariant is

    MemoryInv == KernelInv /\ DataNotShared /\ FramesSuffice
                 /\ (fault = "none" /\ ~ tangled =>
                       Allotted(phys_mem, pagusr_table, Users(running, status)))

where `Allotted` accounts for every marked frame: the kernel's, the code's, and one per
process and data page, all different. A fork takes a structure from the free queue, so at most
`NR_TASKS - 2` processes hold frames before it; counting them, `EnoughFrames` leaves as
many as the child needs. `FramesSuffice` is therefore about the exits, which must have
given everything back.

The test program has `ProgramInv`: its two forks happen one after the other, and who calls unblock
has the grandchild as the first of its kids. The walk then stops at its first node, whatever
queue that is linked in at the moment.

### Assumptions

Assumptions on the constants are the named `ASSUME`s of the modules that declare them. Those
that are more than types:

* the size of the ring divides the range of its counter (`RangeAssumption`);
* there are frames for the code and the data of all processes of the earlier kernel
  (`EnoughFrames`: 8 + 9 * 20 of 384);
* sizes passed to write are at most half the address range, since they are an `int`
  (`ScreenAssumption`): the page of `addr + size` may wrap, but not come round;
* twice the program, with the page after it, fits in the address range after its first page
  (`AddressAssumption`): what lies within twice the length of a block does not come round;
* the numbers printed have a largest one, since they are machine words;
* the content of a sprite, if there is one, is as long as the loops over its rows and
  columns read (`SpriteAssumption`): what lies behind a shorter array is not modelled.

### Only model-checked

Liveness under fairness is out of the prover's reach: `ReadyEventuallyRuns`,
`AllThreadsEnd`, `StarvesOnlyBelowZero`, `GrandchildEnds`.

## Disagreements between code and comments

* `viol_owner`: the comments say that a semaphore belongs to the process that
  created it; `sys_fork` resets all of them, with the threads
  blocked on them, because every task points to the same array.
* `viol_unblock`: a comment of the earlier kernel says that `sys_unblock` looks
  through the blocked children; its walk leaves the list of children and wakes
  a process that is not a child of the caller.

Others are visible in the actions and have no run of their own.

* `sys_yield` with nobody else ready makes a task switch to itself, and continue
  at an old position of its stack (`SwitchResults`).
* `sys_fork` does not copy the heap: its loop maps the parent's frames below the heap
  of the child, and no heap page of the child (`ForkMemory`).
* `sys_exit` does not release the heap, as the loop over it never runs
  (`ExitMemory`).
* `sys_fork` gives the child the directory of its place in the task array, which
  threads of another process may still be using after their creator has ended.
* A thread that ends releases the page at its own break, which is not its stack
  once it has used sbrk or made a thread (`ThreadExitMemory`).
* Semaphore number 10 passes the check `semID > 10` (`UseBeyondArray`).
* `sys_semCreate` accepts a negative value, after which `sys_semSignal` may take the
  head of an empty queue for a task (the fault "empty_wakeup").
* Shrinking the heap deletes the page table entry before it reads the frame to
  free, so that nothing is freed (`sys_sbrk`).
* `access_ok` lets a block end in the page after the data, and its
  check for writing goes on to the one for reading (`AccessChecked` says what gets through).
* The `sys_write` of the earlier kernel moves its address and its offset, so
  that every second piece of a long block is left out and what is printed after it lies
  beyond the block (`EarlierStride`).
* In `sys_fork` of the earlier kernel a comment says that the child should point to the
  same physical pages as its parent ("queremos que el hijo apunte a las mismas páginas físicas que
  el padre", `zeOSpparri/sys.c:88`); the code, and the comment at line 122, give it new ones
  (`DataNotShared`).
* In the earlier kernel a parent that exits follows the pointers its walk has
  just deleted (`sys_exit`, fault "null"); and a quantum that passes zero while the ready queue is
  empty is never found at zero again (`StarvesOnlyBelowZero`).

## Not modelled

* Boot, descriptor tables and device programming: straight-line code run once,
  before the initial states of the models.
* The image builder `build.c`: a program of the build host.
* The system call entry: saving registers, a comparison and a jump through a
  table, in assembler. A property of it would restate the comparison.
* The TLB, except for the copy in `sys_fork`: the code flushes it only by loading
  a directory, and which stale entries are still there is up to the processor.
* The game of `user.c`: sprite data and a loop that draws it. Its calls are in the
  environment of the other models, which lets any task make any call at any time.
* The contents of registers, stacks and memory, which are copied and not looked at.
* Some corners of operations that are modelled: sizes passed to `sys_sbrk` within a page of
  the largest `int`, where rounding overflows (`sys.c:92`); the write to entry TOTAL_PAGES of a page table,
  which is entry zero of the next one (`sys.c:220`); the branch of `access_ok` for heap addresses
  (`utils.c:84`), which no modelled call depends on; a sprite whose `content` cannot be read (the check at
  `io.c:97` is commented out); the quantum of the earlier kernel after 2^31 ticks below zero
  (`zeOSpparri/sched.c:99`).

## Plan

Done, in this order: the lists, scheduler, processes and threads with their
inductive invariant; the semaphores; the keyboard and its queue; memory; the time
accounting; user memory and the screen of both kernels; the program with its semaphore;
the earlier kernel with its pointers, memory and program; the refinements of
`Processes` by `Memory` and `Statistics` and of `KeyQueue` by `Keyboard`, proved for all
values of the constants; the theorems about the screen and the earlier kernel.

Left: a proof that the program of `user.c` implements an abstract counter under mutual
exclusion; a proof that the pointers of `ListPointers` implement the
sequences of `TaskLists` while no node is linked twice, for which the rings of
`EarlyProofs` are the first half; the clock on the screen as part
of the composition with the scheduler.
