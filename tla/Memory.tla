------------------------------- MODULE Memory -------------------------------
(***************************************************************************)
(* Frames, page tables, heaps and user stacks of the kernel in             *)
(* ZeOSSysenter/zeos: mm.c, sys_sbrk and the memory half of the calls in   *)
(* module Processes.  Every call is that of Processes together with what   *)
(* it does to memory, and memory now decides how fork and threadCreate     *)
(* end.                                                                    *)
(*                                                                         *)
(* Addresses count in pages: heap_pointer_proc starts at a page and moves  *)
(* by whole pages.  Kernel pages, the same in every table, and the bytes   *)
(* inside a page are left out.  The processor is taken to see a change of  *)
(* a page table at once, except where sys_fork depends on it (below).      *)
(***************************************************************************)
EXTENDS Processes

CONSTANTS
  TOTAL_PAGES,     \* frames of the machine, and pages of a page table
  NUM_PAG_KERNEL,  \* the first ones, which belong to the kernel
  NUM_PAG_CODE,    \* pages of code of a program
  NUM_PAG_DATA,    \* pages of data and stack of a program
  SbrkPages        \* sizes passed to sys_sbrk, rounded away from zero to pages

ASSUME PagesAssumption ==
  /\ {TOTAL_PAGES, NUM_PAG_KERNEL, NUM_PAG_CODE, NUM_PAG_DATA} \subseteq Nat \ {0}
  /\ NUM_PAG_KERNEL + 2 * (NUM_PAG_CODE + NUM_PAG_DATA) <= TOTAL_PAGES
  /\ SbrkPages \subseteq Int \ {0}

(* Memory, and not an input, decides how a fork ends.                      *)
ASSUME AnyResultAssumption == {"ok", "EAGAIN", "page_fault"} \subseteq ForkResults

(* The layout of an address space.  The pages between the data and the     *)
(* heap are where sys_fork maps pages of the child while it copies.        *)
PAG_LOG_INIT_CODE == NUM_PAG_KERNEL
PAG_LOG_INIT_DATA == PAG_LOG_INIT_CODE + NUM_PAG_CODE
DATA_END == PAG_LOG_INIT_DATA + NUM_PAG_DATA
INIT_HEAP == DATA_END + NUM_PAG_DATA

CodePages == PAG_LOG_INIT_CODE .. PAG_LOG_INIT_DATA - 1
DataPages == PAG_LOG_INIT_DATA .. DATA_END - 1
CopyPages == DATA_END .. INIT_HEAP - 1
HeapPages == INIT_HEAP .. TOTAL_PAGES - 1
Page == PAG_LOG_INIT_CODE .. TOTAL_PAGES - 1

(* A page table entry is a frame or, when it is zero, not present.         *)
Frame == 0 .. TOTAL_PAGES - 1
NotPresent == -1

VARIABLES
  phys_mem,      \* the frames marked USED_FRAME
  pagusr_table,  \* the page table in each place of the array
  dir,           \* dir_pages_baseAddr of a task: whose table it uses
  heap_pointer,  \* heap_pointer_proc of a task
  ustack         \* ustack of a task, zero for the stack in the data pages

memVars == << phys_mem, pagusr_table, dir, heap_pointer, ustack >>

(* The frame that alloc_frame hands out as number n, from 0.               *)
NthFrame(n) == NUM_PAG_KERNEL + 2 * n

(* init_mm and init_task1, which calls set_user_pages.                     *)
MemInit ==
  /\ phys_mem = 0 .. NUM_PAG_KERNEL - 1
                \cup {NthFrame(n) : n \in 0 .. NUM_PAG_CODE + NUM_PAG_DATA - 1}
  /\ pagusr_table = [t \in Task |-> [p \in Page |->
                       IF t = init_task /\ p < DATA_END THEN NthFrame(p - NUM_PAG_KERNEL)
                                                        ELSE NotPresent]]
  /\ dir = [t \in Task |-> IF t \in {idle_task, init_task} THEN t ELSE -1]
  /\ heap_pointer = [t \in Task |-> IF t = init_task THEN INIT_HEAP ELSE 0]
  /\ ustack = [t \in Task |-> 0]

-----------------------------------------------------------------------------
(* Frames and page tables.                                                 *)

(* Mutant: the search goes one frame too far.                              *)
MutOneTooFar == {f \in NUM_PAG_KERNEL .. TOTAL_PAGES : (f - NUM_PAG_KERNEL) % 2 = 0}

(* The frames alloc_frame looks at: every second one.                      *)
Allocatable == {f \in NUM_PAG_KERNEL .. TOTAL_PAGES - 1 : (f - NUM_PAG_KERNEL) % 2 = 0}

FreeFrames == Allocatable \ phys_mem

(* What one alloc_frame per page, in order, returns: the lowest frames.    *)
(* The set is empty when there are not enough.                             *)
alloc_frames(pages) ==
  {a \in [pages -> FreeFrames] :
     /\ \A p, q \in pages : p < q => a[p] < a[q]
     /\ \A p \in pages, f \in FreeFrames : f < a[p] => f \in Range(a)}

(* The pages served before the frames ran out.                             *)
Served(pages) == {p \in pages : alloc_frames({q \in pages : q <= p}) # {}}

(* The frames in use after free_frame on each of the given ones: frames of *)
(* the kernel, and the first one that is not, are never freed.             *)
free_frames(mem, frames) ==
  mem \ {f \in frames : f > NUM_PAG_KERNEL /\ f < TOTAL_PAGES}

Present(d, p) == pagusr_table[d][p] # NotPresent

(* An entry that is not present reads as frame zero.  So does page         *)
(* TOTAL_PAGES: it is entry zero of the next table, and a change to that   *)
(* entry, a page of the kernel which it does not use, is left out.         *)
get_frame(d, p) ==
  IF p \notin Page \/ ~ Present(d, p) THEN 0 ELSE pagusr_table[d][p]

(* A table after set_ss_pag of every page in the domain of a.              *)
set_ss_pags(table, a) == [p \in Page |-> IF p \in DOMAIN a THEN a[p] ELSE table[p]]

del_ss_pags(table, pages) == [p \in Page |-> IF p \in pages THEN NotPresent ELSE table[p]]

(* A program whose user stack is not mapped makes no call: it faults.      *)
StackPage(t) == IF ustack[t] = 0 THEN DATA_END - 1 ELSE ustack[t]
CanCall == Syscall /\ Present(dir[running], StackPage(running))

-----------------------------------------------------------------------------
(* The heap.                                                               *)

(* Mutant: the new break is not compared with the end of the page table.   *)
MutNoLimit(new) == new >= INIT_HEAP

(* Both range checks of sys_sbrk, for the new break.  (The code rounds the *)
(* size up in an int, which overflows for sizes within a page of the       *)
(* largest int; no such size is modelled.)                                 *)
BreakAllowed(new) == new >= INIT_HEAP /\ new <= TOTAL_PAGES

(* Mutant: what was allocated before the failure is kept.                  *)
MutNoRollback(first, last) ==
  LET table == dir[running]
      some == Served(first .. last)
  IN /\ phys_mem' = phys_mem \cup FreeFrames
     /\ pagusr_table' = [pagusr_table EXCEPT ![table] = del_ss_pags(@, some)]

(* The frames run out in the middle of the pages first .. last, and those  *)
(* taken are given back.                                                   *)
Rollback(first, last) ==
  LET table == dir[running]
      some == Served(first .. last)
  IN /\ phys_mem' = free_frames(phys_mem \cup FreeFrames, FreeFrames)
     /\ pagusr_table' = [pagusr_table EXCEPT ![table] = del_ss_pags(@, some)]

(* Growing maps the pages from the break on.  Shrinking removes the entry  *)
(* at the break before each step down, one page too high, and asks for its *)
(* frame afterwards, which is zero then: no frame is freed.                *)
sys_sbrk(n) ==
  LET old == heap_pointer[running]
      new == old + n
      table == dir[running]
  IN /\ CanCall
     /\ BreakAllowed(new)
     /\ \/ /\ n > 0
           /\ \E a \in alloc_frames(old .. new - 1) :
                /\ phys_mem' = phys_mem \cup Range(a)
                /\ pagusr_table' = [pagusr_table EXCEPT ![table] = set_ss_pags(@, a)]
           /\ heap_pointer' = [heap_pointer EXCEPT ![running] = new]
        \/ /\ n > 0
           /\ alloc_frames(old .. new - 1) = {}
           /\ Rollback(old, new - 1)
           /\ UNCHANGED heap_pointer
        \/ /\ n < 0
           /\ pagusr_table' = [pagusr_table EXCEPT ![table] = del_ss_pags(@, new + 1 .. old)]
           /\ phys_mem' = free_frames(phys_mem, {0})
           /\ heap_pointer' = [heap_pointer EXCEPT ![running] = new]
     /\ UNCHANGED << dir, ustack, vars >>

-----------------------------------------------------------------------------
(* Creating processes and threads.                                         *)

CanCreate == CanCall /\ ~ list_empty(lists, freequeue)

(* The fields that the copy of the parent's task structure gives a child.  *)
Inherit(child) ==
  /\ heap_pointer' = [heap_pointer EXCEPT ![child] = heap_pointer[running]]
  /\ ustack' = [ustack EXCEPT ![child] = ustack[running]]

Heap == INIT_HEAP .. heap_pointer[running] - 1

(* The loop that is to copy the heap goes through the pages between data   *)
(* and heap, over and over, and maps the frames of the parent there in the *)
(* table of the child.                                                     *)
CopyPage(h) == DATA_END + ((h - INIT_HEAP) % NUM_PAG_DATA)
HeapCopies ==
  [p \in {CopyPage(h) : h \in Heap} |->
     get_frame(dir[running],
               CHOOSE h \in Heap : CopyPage(h) = p /\ \A g \in Heap : CopyPage(g) = p => g <= h)]

(* The tables once the child has its data pages a, and the code pages.     *)
ChildTables(child, a) ==
  [pagusr_table EXCEPT ![child] =
     set_ss_pags(set_ss_pags(@, a), [p \in CodePages |-> get_frame(dir[running], p)])]

(* The tables after both loops that copy: the entries the parent had       *)
(* between data and heap are gone.                                         *)
CopiedTables(child, a) ==
  LET T == [ChildTables(child, a) EXCEPT ![child] = set_ss_pags(@, HeapCopies)]
  IN [T EXCEPT ![dir[running]] = del_ss_pags(@, CopyPages)]

(* The data pages of the parent must be mapped to be copied.  Those of the *)
(* heap are written through entries that were deleted just before, which   *)
(* works only if the processor still remembers them.                       *)
CopyResults(child, a) ==
  LET mapped == \A p \in DataPages : ChildTables(child, a)[dir[running]][p] # NotPresent
  IN (IF mapped THEN {"ok"} ELSE {"page_fault"})
     \cup (IF Heap # {} /\ child # dir[running] THEN {"page_fault"} ELSE {})

(* sys_fork.  allocate_DIR gives the child the table of its place in the   *)
(* array, whoever may be using it.                                         *)
ForkMemory(child) ==
  /\ dir' = [dir EXCEPT ![child] = child]
  /\ Inherit(child)
  /\ \/ \E a \in alloc_frames(DataPages) : \E result \in CopyResults(child, a) :
          /\ sys_fork(result)
          /\ phys_mem' = phys_mem \cup Range(a)
          /\ pagusr_table' = IF result = "ok" THEN CopiedTables(child, a)
                                              ELSE ChildTables(child, a)
     \/ /\ alloc_frames(DataPages) = {}
        /\ sys_fork("EAGAIN")
        /\ phys_mem' = free_frames(phys_mem \cup FreeFrames, FreeFrames)
        /\ pagusr_table' = [pagusr_table EXCEPT ![child] = del_ss_pags(@, Served(DataPages))]

(* sys_threadCreate.  The new thread uses the table of the running one,    *)
(* its stack is the page at the break of the running task, and its own     *)
(* break is where that was.  The test pag_heap > TOTAL_PAGES never holds   *)
(* (BreakInRange), and neither does the condition of the loop that is to   *)
(* release the heap when there is no frame.                                *)
ThreadMemory(child) ==
  LET page == heap_pointer[running]
      table == dir[running]
  IN /\ dir' = [dir EXCEPT ![child] = table]
     /\ \/ \E a \in alloc_frames({page}) :
             /\ sys_threadCreate(IF page = TOTAL_PAGES THEN "page_fault" ELSE "ok")
             /\ phys_mem' = phys_mem \cup Range(a)
             /\ pagusr_table' = [pagusr_table EXCEPT ![table] = set_ss_pags(@, a)]
             /\ heap_pointer' = [heap_pointer EXCEPT ![child] = page, ![running] = page + 1]
             /\ ustack' = [ustack EXCEPT ![child] = page]
        \/ /\ alloc_frames({page}) = {}
           /\ sys_threadCreate("EAGAIN")
           /\ Inherit(child)
           /\ UNCHANGED << phys_mem, pagusr_table >>

-----------------------------------------------------------------------------
(* Ending them.                                                            *)

(* Mutant: the frames are given back and stay mapped.                      *)
MutStillMapped(pages) ==
  /\ phys_mem' = free_frames(phys_mem, {get_frame(dir[running], p) : p \in pages})
  /\ UNCHANGED pagusr_table

Release(pages) ==
  /\ phys_mem' = free_frames(phys_mem, {get_frame(dir[running], p) : p \in pages})
  /\ pagusr_table' = [pagusr_table EXCEPT ![dir[running]] = del_ss_pags(@, pages)]

(* sys_exit releases the data pages.  The loop that is to release the heap *)
(* runs while the break is below the start of the heap, that is, never.    *)
ExitMemory ==
  /\ sys_exit
  /\ Release(DataPages)
  /\ UNCHANGED << dir, heap_pointer, ustack >>

(* sys_threadExit releases the page at the break of the thread, which is   *)
(* its stack as long as it has moved the break itself in no call.          *)
ThreadExitMemory ==
  /\ sys_threadExit
  /\ Release({heap_pointer[running]})
  /\ heap_pointer' = [heap_pointer EXCEPT ![running] = @ - 1]
  /\ UNCHANGED << dir, ustack >>

-----------------------------------------------------------------------------
(* The calls that leave memory alone.                                      *)
SemaphoreCall ==
  \/ \E value \in SemValues : sys_semCreate(value)
  \/ \E semID \in SemIds :
       \/ UseBeyondArray(semID)
       \/ sys_semWait(semID)
       \/ sys_semSignal(semID)
       \/ sys_semDestroy(semID)

MemNext ==
  \/ Clock /\ UNCHANGED memVars
  \/ CanCall /\ sys_yield /\ UNCHANGED memVars
  \/ CanCall /\ SemaphoreCall /\ UNCHANGED memVars
  \/ CanCreate /\ ForkMemory(FreeTask)
  \/ CanCreate /\ ThreadMemory(FreeTask)
  \/ CanCall /\ ExitMemory
  \/ CanCall /\ ThreadExitMemory
  \/ \E n \in SbrkPages : sys_sbrk(n)

memAllVars == << vars, memVars >>

MemSpec == Init /\ MemInit /\ [][MemNext]_memAllVars

-----------------------------------------------------------------------------
(* Type invariant.                                                         *)
MemTypeOK ==
  /\ phys_mem \subseteq Frame
  /\ pagusr_table \in [Task -> [Page -> Frame \cup {NotPresent}]]
  /\ dir \in [Task -> Task \cup {-1}]
  /\ heap_pointer \in [Task -> Nat]
  /\ ustack \in [Task -> Nat]

CodeFrames == {NthFrame(n) : n \in 0 .. NUM_PAG_CODE - 1}
OwnPages == DataPages \cup HeapPages

(* A frame mapped as data or heap is marked as used, belongs neither to    *)
(* the kernel nor to the code, and is mapped by one page of one table      *)
(* only: whatever order processes and threads fork, grow, fail and end in, *)
(* no frame that somebody still maps there is handed out again.            *)
FrameOwnership ==
  \A d \in Task, p \in OwnPages : Present(d, p) =>
     /\ pagusr_table[d][p] \in phys_mem
     /\ pagusr_table[d][p] \notin CodeFrames \cup 0 .. NUM_PAG_KERNEL - 1
     /\ \A e \in Task, q \in OwnPages :
          pagusr_table[e][q] = pagusr_table[d][p] => e = d /\ q = p

(* The break of a task in use is between the start of the heap and the end *)
(* of the page table.  The loops on exit and the test in sys_threadCreate  *)
(* behave as described above because of this.                              *)
BreakInRange ==
  fault = "none" =>
    \A t \in Task \ (Free \cup {idle_task}) :
       heap_pointer[t] >= INIT_HEAP /\ heap_pointer[t] <= TOTAL_PAGES

(* A call that fails half way gives back the frames it has taken: frames   *)
(* change hands only when a break moves, or a task is created or ends.     *)
NoFrameChangeOnFailure ==
  [][phys_mem' # phys_mem =>
       Free' # Free \/ \E t \in Task \ Free : heap_pointer'[t] # heap_pointer[t]]_memAllVars
=============================================================================
