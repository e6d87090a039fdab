---------------------------- MODULE MemoryProofs ----------------------------
(***************************************************************************)
(* Proofs about module Memory, for every size of the machine, of a program *)
(* and of the arguments of sys_sbrk: with memory added the kernel still    *)
(* implements module Processes, breaks stay in the page table, and every   *)
(* frame of data or heap belongs to one page of one table.                 *)
(***************************************************************************)
EXTENDS Memory, ProcessesProofs

(* A task in use has a page table.                                         *)
TablesKnown == \A t \in Task \ Free : dir[t] \in Task

(* The frames of the kernel and of the code are never free.                *)
ReservedUsed == CodeFrames \cup 0 .. NUM_PAG_KERNEL - 1 \subseteq phys_mem

(* The inductive invariant.  It rests on that of Processes: the running    *)
(* task is in use, and so has a break in range and a table.                *)
MemInv ==
  /\ Inv
  /\ MemTypeOK
  /\ FrameOwnership
  /\ BreakInRange
  /\ TablesKnown
  /\ ReservedUsed

Entry == Frame \cup {NotPresent}

-----------------------------------------------------------------------------
(* The layout of an address space.                                         *)
LEMMA Layout ==
  /\ TOTAL_PAGES \in Nat /\ NUM_PAG_KERNEL \in Nat /\ NUM_PAG_DATA \in Nat \ {0}
  /\ INIT_HEAP \in Nat \ {0} /\ INIT_HEAP <= TOTAL_PAGES
  /\ DATA_END \in Nat /\ INIT_HEAP = DATA_END + NUM_PAG_DATA
  /\ OwnPages \subseteq Page
  /\ DataPages \subseteq OwnPages
  /\ DataPages \subseteq Int
  /\ CodePages \cap OwnPages = {}
  /\ CopyPages \cap OwnPages = {}
  /\ \A p \in Int : INIT_HEAP <= p /\ p < TOTAL_PAGES => p \in OwnPages
  /\ \A p \in Int : p \in Page => p < TOTAL_PAGES
  /\ \A p \in DataPages : p < INIT_HEAP
  BY PagesAssumption
  DEF INIT_HEAP, DATA_END, PAG_LOG_INIT_DATA, PAG_LOG_INIT_CODE, OwnPages, Page,
      DataPages, HeapPages, CodePages, CopyPages

(* Frames are natural numbers, and the one that means nothing is none.     *)
LEMMA Frames ==
  /\ 0 \in Frame
  /\ NotPresent \notin Frame
  /\ Frame \subseteq Nat
  /\ Allocatable \subseteq Frame
  /\ NUM_PAG_KERNEL \in CodeFrames
  /\ \A f \in Frame : f < TOTAL_PAGES
  /\ \A f \in Allocatable : f >= NUM_PAG_KERNEL /\ f < TOTAL_PAGES
<1>1. /\ 0 \in Frame /\ NotPresent \notin Frame
      /\ Frame \subseteq Nat
      /\ \A f \in Frame : f < TOTAL_PAGES
  BY PagesAssumption DEF Frame, NotPresent
<1>2. /\ Allocatable \subseteq Frame
      /\ \A f \in Allocatable : f >= NUM_PAG_KERNEL /\ f < TOTAL_PAGES
  BY PagesAssumption DEF Frame, Allocatable
<1>3. NthFrame(0) = NUM_PAG_KERNEL /\ 0 \in 0 .. NUM_PAG_CODE - 1
  BY PagesAssumption DEF NthFrame
<1>4. NUM_PAG_KERNEL \in CodeFrames
  BY <1>3 DEF CodeFrames
<1>5. QED
  BY <1>1, <1>2, <1>4

(* What a list of calls of alloc_frame returns: frames that were free, a   *)
(* different one for every page.                                           *)
LEMMA Allocated ==
  ASSUME NEW pages, pages \subseteq Int, NEW a \in alloc_frames(pages)
  PROVE  /\ DOMAIN a = pages
         /\ \A p \in pages : a[p] \in Frame \ phys_mem
         /\ \A p, q \in pages : a[p] = a[q] => p = q
         /\ Range(a) \subseteq Frame
         /\ \A p \in pages : a[p] \in Range(a)
<1>1. /\ a \in [pages -> FreeFrames]
      /\ \A p, q \in pages : p < q => a[p] < a[q]
  BY DEF alloc_frames
<1>2. \A p \in pages : a[p] \in Frame \ phys_mem
  BY <1>1, Frames DEF FreeFrames
<1>3. \A p \in pages : a[p] \in Int
  <2>1. SUFFICES ASSUME NEW p \in pages PROVE a[p] \in Int
    OBVIOUS
  <2>2. a[p] \in Nat
    BY <1>2, Frames
  <2>3. QED
    BY <2>2
<1>4. ASSUME NEW p \in pages, NEW q \in pages, a[p] = a[q], p # q
      PROVE  FALSE
  <2>1. p < q \/ q < p
    BY <1>4
  <2>2. QED
    BY <2>1, <1>1, <1>3, <1>4
<1>5. QED
  BY <1>1, <1>2, <1>4 DEF Range

(* A loop that runs out of frames gives back all it has taken.             *)
LEMMA GivenBack ==
  ASSUME MemTypeOK, ReservedUsed
  PROVE  free_frames(phys_mem \cup FreeFrames, FreeFrames) = phys_mem
<1>1. \A f \in FreeFrames : f \notin phys_mem /\ f \in Allocatable
  BY DEF FreeFrames
<1>2. \A f \in FreeFrames : f > NUM_PAG_KERNEL /\ f < TOTAL_PAGES
  <2>1. NUM_PAG_KERNEL \in phys_mem
    BY Frames DEF ReservedUsed
  <2>2. SUFFICES ASSUME NEW f \in FreeFrames PROVE f > NUM_PAG_KERNEL /\ f < TOTAL_PAGES
    OBVIOUS
  <2>3. f # NUM_PAG_KERNEL /\ f \in Nat /\ f >= NUM_PAG_KERNEL /\ f < TOTAL_PAGES
    BY <1>1, <2>1, Frames
  <2>4. QED
    BY <2>3, Layout
<1>3. QED
  BY <1>1, <1>2 DEF free_frames

(* What a page table holds is a frame or nothing, and so is what get_frame *)
(* reads, whatever the page.                                               *)
LEMMA TableTypes ==
  ASSUME MemTypeOK, NEW d \in Task
  PROVE  /\ pagusr_table[d] \in [Page -> Entry]
         /\ \A p : get_frame(d, p) \in Frame
<1>1. pagusr_table[d] \in [Page -> Entry]
  BY DEF MemTypeOK, Entry
<1>2. QED
  BY <1>1, Frames DEF get_frame, Present, Entry

(* Entering frames in a page table leaves a page table.                    *)
LEMMA SetType ==
  ASSUME NEW table \in [Page -> Entry], NEW a, \A p \in DOMAIN a : a[p] \in Entry
  PROVE  set_ss_pags(table, a) \in [Page -> Entry]
  BY DEF set_ss_pags

(* Deleting entries of a page table leaves a page table.                   *)
LEMMA DelType ==
  ASSUME NEW table \in [Page -> Entry], NEW pages
  PROVE  del_ss_pags(table, pages) \in [Page -> Entry]
  BY DEF del_ss_pags, Entry

(* A step that maps fresh frames at pages of one table, and may unmap any. *)
LEMMA MapFresh ==
  ASSUME FrameOwnership, ReservedUsed, NEW d \in Task, NEW a,
         \A p \in DOMAIN a : a[p] \in Frame \ phys_mem /\ a[p] \in phys_mem',
         \A p, q \in DOMAIN a : a[p] = a[q] => p = q,
         phys_mem \subseteq phys_mem',
         \A e \in Task, p \in OwnPages :
            \/ pagusr_table'[e][p] \in {pagusr_table[e][p], NotPresent}
            \/ e = d /\ p \in DOMAIN a /\ pagusr_table'[e][p] = a[p]
  PROVE  FrameOwnership' /\ ReservedUsed'
<1>1. ReservedUsed'
  BY DEF ReservedUsed
<1>2. ASSUME NEW e \in Task, NEW p \in OwnPages, pagusr_table'[e][p] # NotPresent
      PROVE  \/ /\ pagusr_table'[e][p] = pagusr_table[e][p]
                /\ pagusr_table[e][p] \in phys_mem
             \/ /\ e = d /\ p \in DOMAIN a
                /\ pagusr_table'[e][p] = a[p]
                /\ a[p] \notin phys_mem
  BY <1>2 DEF FrameOwnership, Present
<1>3. ASSUME NEW e \in Task, NEW p \in OwnPages, pagusr_table'[e][p] # NotPresent
      PROVE  /\ pagusr_table'[e][p] \in phys_mem'
             /\ pagusr_table'[e][p] \notin CodeFrames \cup 0 .. NUM_PAG_KERNEL - 1
  <2>1. CASE pagusr_table'[e][p] = pagusr_table[e][p]
    BY <1>3, <2>1 DEF FrameOwnership, Present
  <2>2. CASE p \in DOMAIN a /\ pagusr_table'[e][p] = a[p] /\ a[p] \notin phys_mem
    BY <2>2 DEF ReservedUsed
  <2>3. QED
    BY <1>2, <1>3, <2>1, <2>2
<1>4. ASSUME NEW e \in Task, NEW p \in OwnPages, NEW f \in Task, NEW q \in OwnPages,
             pagusr_table'[e][p] # NotPresent, pagusr_table'[f][q] = pagusr_table'[e][p]
      PROVE  f = e /\ q = p
  <2>1. CASE pagusr_table'[e][p] = pagusr_table[e][p] /\ pagusr_table'[f][q] = pagusr_table[f][q]
    BY <1>4, <2>1 DEF FrameOwnership, Present
  <2>2. CASE e = d /\ f = d /\ p \in DOMAIN a /\ q \in DOMAIN a
             /\ pagusr_table'[e][p] = a[p] /\ pagusr_table'[f][q] = a[q]
    BY <1>4, <2>2
  <2>3. QED
    BY <1>2, <1>4, <2>1, <2>2
<1>5. QED
  BY <1>1, <1>3, <1>4 DEF FrameOwnership, Present
(* A step that gives back the frames of some pages of one table, and       *)
(* unmaps those pages.                                                     *)
LEMMA Unmapped ==
  ASSUME MemTypeOK, FrameOwnership, ReservedUsed, NEW pages,
         dir[running] \in Task,
         pages \cap Page \subseteq OwnPages,
         Release(pages)
  PROVE  /\ FrameOwnership' /\ ReservedUsed'
         /\ phys_mem' \subseteq Frame
         /\ pagusr_table' \in [Task -> [Page -> Entry]]
<1> DEFINE d == dir[running]
           given == {get_frame(d, p) : p \in pages}
<1>1. /\ phys_mem' \subseteq phys_mem
      /\ \A f \in phys_mem \ phys_mem' : f \in given /\ f > NUM_PAG_KERNEL
      /\ pagusr_table' = [pagusr_table EXCEPT ![d] = del_ss_pags(@, pages)]
  BY DEF Release, free_frames
<1>2. pagusr_table \in [Task -> [Page -> Entry]]
  BY DEF MemTypeOK, Entry
<1>3. pagusr_table' \in [Task -> [Page -> Entry]]
  BY <1>1, <1>2, DelType
<1>4. \A e \in Task, p \in Page : pagusr_table'[e][p] =
         IF e = d /\ p \in pages THEN NotPresent ELSE pagusr_table[e][p]
  BY <1>1, <1>2 DEF del_ss_pags
<1>5. ASSUME NEW f \in phys_mem \ phys_mem'
      PROVE  \E p \in pages \cap OwnPages : f = pagusr_table[d][p] /\ Present(d, p)
  <2>1. PICK p \in pages : f = get_frame(d, p)
    BY <1>1, <1>5
  <2>2. f # 0
    BY <1>1, <1>5, Layout
  <2>3. QED
    BY <2>1, <2>2 DEF get_frame
<1>6. OwnPages \subseteq Page
  BY Layout
<1>7. ReservedUsed'
  <2>1. \A f \in phys_mem \ phys_mem' : f \notin CodeFrames \cup 0 .. NUM_PAG_KERNEL - 1
    BY <1>5 DEF FrameOwnership
  <2>2. QED
    BY <2>1 DEF ReservedUsed
<1>8. ASSUME NEW e \in Task, NEW p \in OwnPages, pagusr_table'[e][p] # NotPresent
      PROVE  /\ pagusr_table'[e][p] = pagusr_table[e][p]
             /\ ~ (e = d /\ p \in pages)
             /\ Present(e, p)
  BY <1>4, <1>6, <1>8 DEF Present
<1>9. ASSUME NEW e \in Task, NEW p \in OwnPages, pagusr_table'[e][p] # NotPresent
      PROVE  pagusr_table[e][p] \in phys_mem'
  <2>1. pagusr_table[e][p] \in phys_mem
    BY <1>8, <1>9 DEF FrameOwnership
  <2>2. ASSUME pagusr_table[e][p] \notin phys_mem' PROVE FALSE
    <3>1. PICK q \in pages \cap OwnPages :
             pagusr_table[e][p] = pagusr_table[d][q] /\ Present(d, q)
      BY <1>5, <2>1, <2>2
    <3>2. e = d /\ p = q
      BY <3>1 DEF FrameOwnership
    <3>3. QED
      BY <1>8, <1>9, <3>1, <3>2
  <2>3. QED
    BY <2>2
<1>10. FrameOwnership'
  <2>1. ASSUME NEW e \in Task, NEW p \in OwnPages, pagusr_table'[e][p] # NotPresent
        PROVE  /\ pagusr_table'[e][p] \in phys_mem'
               /\ pagusr_table'[e][p] \notin CodeFrames \cup 0 .. NUM_PAG_KERNEL - 1
    BY <1>8, <1>9, <2>1 DEF FrameOwnership
  <2>2. ASSUME NEW e \in Task, NEW p \in OwnPages, NEW f \in Task, NEW q \in OwnPages,
               pagusr_table'[e][p] # NotPresent, pagusr_table'[f][q] = pagusr_table'[e][p]
        PROVE  f = e /\ q = p
    <3>1. pagusr_table[f][q] = pagusr_table[e][p] /\ Present(e, p)
      BY <1>8, <2>2
    <3>2. QED
      BY <3>1 DEF FrameOwnership
  <2>3. QED
    BY <2>1, <2>2 DEF FrameOwnership, Present
<1>11. QED
  BY <1>1, <1>3, <1>7, <1>10 DEF MemTypeOK

-----------------------------------------------------------------------------
(* The task that makes a call.                                             *)
LEMMA Caller ==
  ASSUME MemInv, CanCall
  PROVE  /\ running \in Task \ (Free \cup {idle_task})
         /\ fault = "none"
         /\ dir[running] \in Task
         /\ heap_pointer[running] \in Nat
         /\ heap_pointer[running] >= INIT_HEAP
         /\ heap_pointer[running] <= TOTAL_PAGES
<1>1. running \in Task /\ running \notin Free
  BY Heads, DisciplineOfInv DEF MemInv, Inv, TypeOK, Free
<1>2. fault = "none" /\ running # idle_task
  BY DEF CanCall, Syscall
<1>3. QED
  BY <1>1, <1>2 DEF MemInv, TablesKnown, BreakInRange, MemTypeOK

(* The task structure that a call takes from the free queue.               *)
LEMMA Child ==
  ASSUME Inv, ~ list_empty(lists, freequeue)
  PROVE  FreeTask \in Task /\ FreeTask \in Free
  BY Heads, DisciplineOfInv, ListDelFirst DEF FreeTask, Free

(* A call that creates no task takes none from the free queue, and every   *)
(* action starts from a kernel that has not stopped.                       *)
LEMMA FreeKept ==
  ASSUME Inv,
         \/ Clock \/ sys_yield \/ sys_exit \/ sys_threadExit \/ SemaphoreCall \/ UNCHANGED vars
  PROVE  /\ Free \subseteq Free'
         /\ fault' = "none" => fault = "none"
         /\ sys_exit \/ sys_threadExit => running \in Free'
<1> USE Heads
<1>1. /\ TypeOK /\ Disciplined(lists, ListHead, Task)
      /\ \A h \in ListHead : idle_task \notin Members(lists, h)
      /\ running \in Task /\ state \in [Task -> state_t]
  BY DisciplineOfInv DEF Inv, TypeOK
<1>2. ASSUME fault = "none", running # idle_task, NEW home \in ListHead,
             NEW L, Disciplined(L, ListHead, Task),
             \A h \in ListHead : Members(L, h) =
                IF h = home THEN Members(lists, h) \cup {running} ELSE Members(lists, h),
             NEW st \in [Task -> state_t], NEW path \in Context,
             sched_next_rr(L, st, path)
      PROVE  Free \subseteq Free' /\ (home = freequeue => running \in Free')
  <2>1. \A h \in ListHead : idle_task \notin Members(L, h)
    BY <1>1, <1>2
  <2>2. lists'[freequeue] = L[freequeue]
    BY <1>1, <1>2, <2>1, SchedNext
  <2>3. Free' = Members(L, freequeue)
    BY <2>2 DEF Free, Members
  <2>4. QED
    BY <1>2, <2>3 DEF Free
<1>3. CASE sys_exit \/ sys_threadExit
  <2>1. fault = "none" /\ running # idle_task /\ sched_next_rr(ExitLists, state, "exit")
    BY <1>3 DEF sys_exit, sys_threadExit, Syscall
  <2>2. QED
    BY <1>1, <1>2, <2>1, ExitListsMembers DEF Context
<1>4. CASE Clock \/ sys_yield
  <2>1. fault = "none"
    BY <1>4 DEF Clock, sys_yield, Syscall
  <2>2. UNCHANGED lists => Free \subseteq Free'
    BY DEF Free
  <2>3. ASSUME NEW path \in {"clock", "yield"}, sched_next_rr(ReadyLists, ReadyStates, path),
               running # idle_task
        PROVE  Free \subseteq Free'
    <3>1. path \in Context
      BY DEF Context
    <3>2. QED
      BY <1>2, <2>1, <2>3, <3>1, ReadyListsMembers
  <2>4. ASSUME sys_yield PROVE Free \subseteq Free'
    BY <2>3, <2>4 DEF sys_yield, Syscall
  <2>5. ASSUME Clock PROVE Free \subseteq Free'
    <3>1. \/ UNCHANGED lists
          \/ sched_next_rr(ReadyLists, ReadyStates, "clock") /\ ~ list_empty(lists, readyqueue)
      BY <2>5 DEF Clock, needs_sched_rr
    <3>2. ~ list_empty(lists, readyqueue) => running # idle_task
      BY <1>1, EmptyMembers DEF Inv, IdleOnlyWhenNothingReady, Ready
    <3>3. QED
      BY <2>2, <2>3, <3>1, <3>2
  <2>6. sys_exit \/ sys_threadExit => running \in Free'
    BY <1>3
  <2>7. QED
    BY <1>4, <2>1, <2>4, <2>5, <2>6
<1>5. CASE SemaphoreCall
  <2>1. fault = "none" /\ running # idle_task
    BY <1>5 DEF SemaphoreCall, sys_semCreate, UseBeyondArray, sys_semWait, sys_semSignal,
                sys_semDestroy, Syscall
  <2>2. ASSUME NEW value \in SemValues, sys_semCreate(value)
        PROVE  lists'[freequeue] = lists[freequeue]
    <3>1. PICK i \in SemIndex : lists' = INIT_LIST_HEAD(lists, {blocked(i)})
      BY <2>2 DEF sys_semCreate
    <3>2. QED
      BY <1>1, <3>1, InitListHead
  <2>3. ASSUME NEW semID \in SemIds, UseBeyondArray(semID)
        PROVE  lists'[freequeue] = lists[freequeue]
    BY <2>3 DEF UseBeyondArray, schedVars
  <2>4. ASSUME NEW semID \in SemIds, sys_semWait(semID)
        PROVE  Free \subseteq Free'
    <3>1. semID \in SemIndex
      BY <2>4 DEF sys_semWait, Usable
    <3>2. CASE UNCHANGED << schedVars, fault >>
      BY <3>2 DEF schedVars, Free
    <3>3. CASE sched_next_rr(BlockLists(semID), [state EXCEPT ![running] = "ST_BLOCKED"], "sem")
      <4> DEFINE L == list_add(lists, running, blocked(semID))
                 st == [state EXCEPT ![running] = "ST_BLOCKED"]
      <4>1. /\ Disciplined(L, ListHead, Task)
            /\ \A h \in ListHead : Members(L, h) =
                 IF h = blocked(semID) THEN Members(lists, h) \cup {running} ELSE Members(lists, h)
        BY <1>1, <3>1, DisciplineOfInv, ListAdd
      <4>2. st \in [Task -> state_t] /\ "sem" \in Context
        BY <1>1 DEF state_t, Context
      <4> HIDE DEF L, st
      <4>3. sched_next_rr(L, st, "sem")
        BY <3>3 DEF L, st, BlockLists
      <4>4. QED
        BY <1>2, <2>1, <3>1, <4>1, <4>2, <4>3
    <3>4. QED
      BY <2>4, <3>2, <3>3 DEF sys_semWait
  <2>5. ASSUME NEW semID \in SemIds, sys_semSignal(semID)
        PROVE  lists'[freequeue] = lists[freequeue]
    <3>1. semID \in SemIndex /\ lists \in [ListHead -> Seq(Task)]
      BY <2>5 DEF sys_semSignal, Usable, Inv, TypeOK
    <3>2. QED
      BY <2>5, <3>1 DEF sys_semSignal, list_add, list_del_first
  <2>6. ASSUME NEW semID \in SemIds, sys_semDestroy(semID)
        PROVE  lists'[freequeue] = lists[freequeue]
    <3>1. semID \in SemIndex /\ lists \in [ListHead -> Seq(Task)]
      BY <2>6 DEF sys_semDestroy, Usable, Inv, TypeOK
    <3>2. QED
      BY <2>6, <3>1 DEF sys_semDestroy, list_move_all
  <2>7. lists'[freequeue] = lists[freequeue] => Free \subseteq Free'
    BY DEF Free, Members
  <2>8. Free \subseteq Free'
    BY <1>5, <2>2, <2>3, <2>4, <2>5, <2>6, <2>7 DEF SemaphoreCall
  <2>9. sys_exit \/ sys_threadExit => running \in Free'
    BY <1>3
  <2>10. QED
    BY <2>1, <2>8, <2>9
<1>6. CASE UNCHANGED vars
  <2>1. UNCHANGED << lists, fault >>
    BY <1>6 DEF vars, schedVars
  <2>2. sys_exit \/ sys_threadExit => running \in Free'
    BY <1>3
  <2>3. QED
    BY <2>1, <2>2 DEF Free
<1>7. QED
  BY <1>3, <1>4, <1>5, <1>6

(* A call that creates a task takes one from the free queue at most, and   *)
(* the task stays out of it unless the call fails with EAGAIN.             *)
LEMMA FreeAfterCreate ==
  ASSUME Inv, NEW result, sys_fork(result) \/ sys_threadCreate(result)
  PROVE  /\ Free \ {FreeTask} \subseteq Free'
         /\ result # "EAGAIN" => FreeTask \notin Free'
         /\ result = "page_fault" => fault' # "none"
<1> USE Heads
<1> DEFINE child == FreeTask
           L == list_del_first(lists, freequeue)
<1>1. ~ list_empty(lists, freequeue)
  BY DEF sys_fork, sys_threadCreate
<1>2. /\ Disciplined(L, ListHead, Task)
      /\ child \in Task
      /\ \A h \in ListHead : child \notin Members(L, h)
      /\ \A h \in ListHead : Members(L, h) = Members(lists, h) \ {child}
  BY <1>1, DisciplineOfInv, ListDelFirst DEF FreeTask
<1>3. /\ Disciplined(ForkLists, ListHead, Task)
      /\ \A h \in ListHead : Members(ForkLists, h) = IF h \in SemIndex THEN {} ELSE Members(L, h)
  BY <1>2, InitListHead DEF ForkLists
<1> HIDE DEF child, L
<1>4. ASSUME NEW M, Disciplined(M, ListHead, Task),
             \A h \in ListHead : child \notin Members(M, h),
             Members(M, freequeue) = Free \ {child},
             \/ lists' = M
             \/ lists' = list_add_tail(M, child, readyqueue)
             \/ lists' = list_add_tail(M, child, freequeue) /\ result = "EAGAIN"
      PROVE  /\ Free \ {child} \subseteq Free'
             /\ result # "EAGAIN" => child \notin Free'
  <2>1. /\ Members(list_add_tail(M, child, readyqueue), freequeue) = Members(M, freequeue)
        /\ Members(list_add_tail(M, child, freequeue), freequeue) = Members(M, freequeue) \cup {child}
    BY <1>2, <1>4, ListAddTail
  <2>2. \/ Free' = Members(M, freequeue)
        \/ Free' = Members(M, freequeue) \cup {child} /\ result = "EAGAIN"
    BY <1>4, <2>1 DEF Free
  <2>3. QED
    BY <1>4, <2>2
<1>5. CASE sys_fork(result)
  <2>1. /\ \/ lists' = list_add_tail(ForkLists, child, readyqueue)
           \/ lists' = list_add_tail(ForkLists, child, freequeue) /\ result = "EAGAIN"
           \/ lists' = ForkLists
        /\ result = "page_fault" => fault' # "none"
    BY <1>5 DEF sys_fork, child
  <2>2. /\ Members(ForkLists, freequeue) = Free \ {child}
        /\ \A h \in ListHead : child \notin Members(ForkLists, h)
    BY <1>2, <1>3 DEF Free
  <2>3. QED
    BY <1>3, <1>4, <2>1, <2>2 DEF child
<1>6. CASE sys_threadCreate(result)
  <2>1. /\ \/ lists' = list_add_tail(L, child, readyqueue)
           \/ lists' = list_add_tail(L, child, freequeue) /\ result = "EAGAIN"
           \/ lists' = L
        /\ result = "page_fault" => fault' # "none"
    BY <1>6 DEF sys_threadCreate, child, L
  <2>2. Members(L, freequeue) = Free \ {child}
    BY <1>2 DEF Free
  <2>3. QED
    BY <1>2, <1>4, <2>1, <2>2 DEF child
<1>7. QED
  BY <1>5, <1>6

-----------------------------------------------------------------------------
(* Every step of Memory is one of Processes, or leaves its state alone.    *)
LEMMA StepImplements ==
  ASSUME [MemNext]_memAllVars
  PROVE  [Next]_vars
<1>1. CASE \E n \in SbrkPages : sys_sbrk(n)
  BY <1>1 DEF sys_sbrk
<1>2. CASE CanCreate /\ ForkMemory(FreeTask)
  <2>1. PICK result \in {"ok", "EAGAIN", "page_fault"} : sys_fork(result)
    BY <1>2 DEF ForkMemory, CopyResults
  <2>2. QED
    BY <2>1, AnyResultAssumption DEF Next
<1>3. CASE CanCreate /\ ThreadMemory(FreeTask)
  <2>1. PICK result \in {"ok", "EAGAIN", "page_fault"} : sys_threadCreate(result)
    BY <1>3 DEF ThreadMemory
  <2>2. QED
    BY <2>1 DEF Next
<1>4. CASE CanCall /\ ExitMemory
  BY <1>4 DEF ExitMemory, Next
<1>5. CASE CanCall /\ ThreadExitMemory
  BY <1>5 DEF ThreadExitMemory, Next
<1>6. CASE Clock \/ sys_yield \/ SemaphoreCall
  BY <1>6 DEF SemaphoreCall, Next
<1>7. CASE UNCHANGED memAllVars
  BY <1>7 DEF memAllVars
<1>8. QED
  BY <1>1, <1>2, <1>3, <1>4, <1>5, <1>6, <1>7 DEF MemNext

(* Module Memory implements module Processes: with frames and page tables  *)
(* deciding how fork and threadCreate end, the kernel does nothing to its  *)
(* queues, tasks and semaphores that Processes does not allow, so all that *)
(* is proved of Processes holds of it.                                     *)
THEOREM MemoryImplementsProcesses == MemSpec => Spec
  BY StepImplements, PTL DEF MemSpec, Spec

-----------------------------------------------------------------------------
(* The tables made at boot satisfy the invariant.                          *)
LEMMA InitMemInv ==
  ASSUME Init, MemInit
  PROVE  MemInv
<1> USE Heads
<1>1. Inv
  BY InitInv
<1>2. \A n \in 0 .. NUM_PAG_CODE + NUM_PAG_DATA - 1 :
         /\ NthFrame(n) \in Frame
         /\ NthFrame(n) >= NUM_PAG_KERNEL
  BY PagesAssumption DEF NthFrame, Frame
<1>3. \A p \in Page : p < DATA_END => p - NUM_PAG_KERNEL \in 0 .. NUM_PAG_CODE + NUM_PAG_DATA - 1
  BY PagesAssumption
  DEF Page, DATA_END, PAG_LOG_INIT_DATA, PAG_LOG_INIT_CODE
<1>4. MemTypeOK
  <2>1. phys_mem \subseteq Frame
    <3>1. 0 .. NUM_PAG_KERNEL - 1 \subseteq Frame
      BY PagesAssumption DEF Frame
    <3>2. QED
      BY <1>2, <3>1 DEF MemInit
  <2>2. pagusr_table \in [Task -> [Page -> Frame \cup {NotPresent}]]
    BY <1>2, <1>3 DEF MemInit
  <2>3. QED
    BY <2>1, <2>2, Layout DEF MemTypeOK, MemInit
<1>5. ReservedUsed
  <2>1. 0 .. NUM_PAG_CODE - 1 \subseteq 0 .. NUM_PAG_CODE + NUM_PAG_DATA - 1
    BY PagesAssumption
  <2>2. QED
    BY <2>1 DEF ReservedUsed, CodeFrames, MemInit
<1>6. ASSUME NEW d \in Task, NEW p \in OwnPages, Present(d, p)
      PROVE  /\ d = init_task
             /\ p \in Int
             /\ p - NUM_PAG_KERNEL \in NUM_PAG_CODE .. NUM_PAG_CODE + NUM_PAG_DATA - 1
             /\ pagusr_table[d][p] = NthFrame(p - NUM_PAG_KERNEL)
  <2>1. p \in Page
    BY Layout
  <2>2. d = init_task /\ p < DATA_END /\ pagusr_table[d][p] = NthFrame(p - NUM_PAG_KERNEL)
    BY <1>6, <2>1 DEF Present, MemInit
  <2>3. QED
    BY <2>2, PagesAssumption
    DEF OwnPages, DataPages, HeapPages, DATA_END, INIT_HEAP, PAG_LOG_INIT_DATA, PAG_LOG_INIT_CODE
<1>7. FrameOwnership
  <2>1. ASSUME NEW d \in Task, NEW p \in OwnPages, Present(d, p)
        PROVE  /\ pagusr_table[d][p] \in phys_mem
               /\ pagusr_table[d][p] \notin CodeFrames \cup 0 .. NUM_PAG_KERNEL - 1
    <3>1. p - NUM_PAG_KERNEL \in 0 .. NUM_PAG_CODE + NUM_PAG_DATA - 1
      BY <1>6, <2>1, PagesAssumption
    <3>2. NthFrame(p - NUM_PAG_KERNEL) \notin 0 .. NUM_PAG_KERNEL - 1
      BY <1>6, <2>1, PagesAssumption DEF NthFrame
    <3>3. \A n \in 0 .. NUM_PAG_CODE - 1 : NthFrame(n) # NthFrame(p - NUM_PAG_KERNEL)
      BY <1>6, <2>1, PagesAssumption DEF NthFrame
    <3>4. NthFrame(p - NUM_PAG_KERNEL) \in phys_mem
      BY <3>1 DEF MemInit
    <3>5. NthFrame(p - NUM_PAG_KERNEL) \notin CodeFrames
      BY <3>3 DEF CodeFrames
    <3>6. QED
      BY <1>6, <2>1, <3>2, <3>4, <3>5
  <2>2. ASSUME NEW d \in Task, NEW p \in OwnPages, Present(d, p),
               NEW e \in Task, NEW q \in OwnPages, pagusr_table[e][q] = pagusr_table[d][p]
        PROVE  e = d /\ q = p
    <3>1. Present(e, q)
      BY <2>2 DEF Present
    <3>2. /\ e = d /\ p \in Int /\ q \in Int
          /\ NthFrame(p - NUM_PAG_KERNEL) = NthFrame(q - NUM_PAG_KERNEL)
      BY <1>6, <2>2, <3>1
    <3>3. QED
      BY <3>2, PagesAssumption DEF NthFrame
  <2>3. QED
    BY <2>1, <2>2 DEF FrameOwnership
<1>8. \A t \in Task \ Free : t \in {idle_task, init_task}
  <2>1. SUFFICES ASSUME NEW t \in Task, t \notin {idle_task, init_task} PROVE t \in Free
    OBVIOUS
  <2>2. t - 1 \in 1 .. NR_TASKS - 2 /\ t = (t - 1) + 1
    BY <2>1, NR_TASKS_Assumption DEF Task, idle_task, init_task
  <2> DEFINE s == [i \in 1 .. NR_TASKS - 2 |-> i + 1]
  <2>3. lists[freequeue] = s
    BY DEF Init
  <2>4. t - 1 \in DOMAIN s /\ s[t - 1] = t
    BY <2>2
  <2>5. QED
    BY <2>3, <2>4 DEF Free, Members, Range
<1>9. BreakInRange
  BY <1>8, Layout DEF BreakInRange, MemInit
<1>10. TablesKnown
  BY <1>8 DEF TablesKnown, MemInit
<1>11. QED
  BY <1>1, <1>4, <1>5, <1>7, <1>9, <1>10 DEF MemInv

-----------------------------------------------------------------------------
(* A step that leaves memory alone.                                        *)
LEMMA MemoryAlone ==
  ASSUME MemInv, Inv', UNCHANGED memVars,
         Clock \/ sys_yield \/ SemaphoreCall \/ UNCHANGED vars
  PROVE  MemInv'
<1>1. Free \subseteq Free' /\ (fault' = "none" => fault = "none")
  BY FreeKept DEF MemInv
<1>2. UNCHANGED << phys_mem, pagusr_table, dir, heap_pointer, ustack >>
  BY DEF memVars
<1>3. MemTypeOK' /\ FrameOwnership' /\ ReservedUsed'
  BY <1>2 DEF MemInv, MemTypeOK, FrameOwnership, ReservedUsed, Present
<1>4. BreakInRange' /\ TablesKnown'
  BY <1>1, <1>2 DEF MemInv, BreakInRange, TablesKnown
<1>5. QED
  BY <1>3, <1>4 DEF MemInv

(* sbrk grows by frames nobody has, or shrinks and releases nothing.       *)
LEMMA SbrkMemInv ==
  ASSUME MemInv, Inv', NEW n \in SbrkPages, sys_sbrk(n)
  PROVE  MemInv'
<1> DEFINE old == heap_pointer[running]
           new == old + n
           table == dir[running]
<1>1. /\ running \in Task /\ table \in Task
      /\ old \in Nat /\ INIT_HEAP <= old /\ old <= TOTAL_PAGES
      /\ n \in Int
      /\ new \in Int /\ new >= INIT_HEAP /\ new <= TOTAL_PAGES
      /\ UNCHANGED << dir, ustack, vars >>
      /\ UNCHANGED << lists, fault >>
  <2>1. n \in Int
    BY PagesAssumption
  <2>2. CanCall /\ BreakAllowed(new) /\ UNCHANGED << dir, ustack, vars >>
    BY DEF sys_sbrk
  <2>3. UNCHANGED << lists, fault >>
    BY <2>2 DEF vars, schedVars
  <2>4. new \in Int
    BY <2>1, <2>2, Caller
  <2>5. QED
    BY <2>1, <2>2, <2>3, <2>4, Caller DEF BreakAllowed
<1>2. new \in Nat
  BY <1>1, Layout
<1>3. MemTypeOK /\ FrameOwnership /\ ReservedUsed /\ pagusr_table \in [Task -> [Page -> Entry]]
  BY DEF MemInv, MemTypeOK, Entry
<1>4. ASSUME heap_pointer' \in {heap_pointer, [heap_pointer EXCEPT ![running] = new]}
      PROVE  BreakInRange' /\ TablesKnown' /\ heap_pointer' \in [Task -> Nat]
  <2>1. heap_pointer \in [Task -> Nat]
    BY DEF MemInv, MemTypeOK
  <2>2. heap_pointer' \in [Task -> Nat] /\ BreakInRange'
    BY <1>1, <1>2, <1>4, <2>1 DEF MemInv, BreakInRange, Free
  <2>3. TablesKnown'
    BY <1>1 DEF MemInv, TablesKnown, Free
  <2>4. QED
    BY <2>2, <2>3
<1>5. ASSUME phys_mem' = phys_mem, NEW pages,
             pagusr_table' = [pagusr_table EXCEPT ![table] = del_ss_pags(@, pages)]
      PROVE  /\ FrameOwnership' /\ ReservedUsed' /\ phys_mem' \subseteq Frame
             /\ pagusr_table' \in [Task -> [Page -> Entry]]
  <2>1. pagusr_table' \in [Task -> [Page -> Entry]]
    BY <1>1, <1>3, <1>5, DelType
  <2>2. \A e \in Task, p \in Page : pagusr_table'[e][p] \in {pagusr_table[e][p], NotPresent}
    BY <1>1, <1>3, <1>5 DEF del_ss_pags
  <2> DEFINE none == [p \in {} |-> 0]
  <2>3. FrameOwnership' /\ ReservedUsed'
    <3>1. DOMAIN none = {}
      OBVIOUS
    <3> HIDE DEF none
    <3>2. \A e \in Task, p \in OwnPages :
             pagusr_table'[e][p] \in {pagusr_table[e][p], NotPresent}
      BY <2>2, Layout
    <3>3. QED
      BY <1>1, <1>3, <1>5, <3>1, <3>2, MapFresh
  <2>4. QED
    BY <1>3, <1>5, <2>1, <2>3 DEF MemTypeOK
<1>6. CASE n > 0 /\ heap_pointer' = [heap_pointer EXCEPT ![running] = new]
  <2>1. PICK a \in alloc_frames(old .. new - 1) :
          /\ phys_mem' = phys_mem \cup Range(a)
          /\ pagusr_table' = [pagusr_table EXCEPT ![table] = set_ss_pags(@, a)]
    <3>1. n # 0 /\ new # old
      BY <1>1, <1>6
    <3>2. heap_pointer' # heap_pointer
      BY <1>1, <1>3, <1>6, <3>1 DEF MemTypeOK
    <3>3. QED
      BY <1>6, <1>1, <3>2 DEF sys_sbrk
  <2>2. old .. new - 1 \subseteq Int
    OBVIOUS
  <2>3. /\ DOMAIN a = old .. new - 1
        /\ \A p \in DOMAIN a : a[p] \in Frame \ phys_mem /\ a[p] \in phys_mem'
        /\ \A p, q \in DOMAIN a : a[p] = a[q] => p = q
        /\ Range(a) \subseteq Frame
    <3> DEFINE pages == old .. new - 1
    <3>1. pages \subseteq Int /\ a \in alloc_frames(pages)
      BY <2>1, <2>2
    <3> HIDE DEF pages
    <3>2. /\ DOMAIN a = pages
          /\ \A p \in pages : a[p] \in Frame \ phys_mem
          /\ \A p, q \in pages : a[p] = a[q] => p = q
          /\ Range(a) \subseteq Frame
          /\ \A p \in pages : a[p] \in Range(a)
      BY <3>1, Allocated
    <3>3. QED
      BY <2>1, <3>2 DEF pages
  <2>4. pagusr_table' \in [Task -> [Page -> Entry]]
    <3>1. \A p \in DOMAIN a : a[p] \in Entry
      BY <2>3 DEF Entry
    <3>2. QED
      BY <1>1, <1>3, <2>1, <3>1, SetType
  <2>5. \A e \in Task, p \in Page : pagusr_table'[e][p] =
           IF e = table /\ p \in DOMAIN a THEN a[p] ELSE pagusr_table[e][p]
    BY <1>1, <1>3, <2>1 DEF set_ss_pags
  <2>6. FrameOwnership' /\ ReservedUsed'
    <3>1. \A e \in Task, p \in OwnPages :
             \/ pagusr_table'[e][p] \in {pagusr_table[e][p], NotPresent}
             \/ e = table /\ p \in DOMAIN a /\ pagusr_table'[e][p] = a[p]
      BY <2>5, Layout
    <3>2. phys_mem \subseteq phys_mem'
      BY <2>1
    <3>3. table \in Task /\ FrameOwnership /\ ReservedUsed
      BY <1>1, <1>3
    <3> HIDE DEF table, old, new
    <3>4. /\ \A p \in DOMAIN a : a[p] \in Frame \ phys_mem /\ a[p] \in phys_mem'
          /\ \A p, q \in DOMAIN a : a[p] = a[q] => p = q
      BY <2>3
    <3>5. QED
      BY ONLY <3>1, <3>2, <3>3, <3>4, MapFresh
  <2>7. phys_mem' \subseteq Frame
    BY <1>3, <2>1, <2>3 DEF MemTypeOK
  <2>8. MemTypeOK'
    BY <1>1, <1>3, <1>4, <1>6, <2>4, <2>7 DEF MemTypeOK, Entry
  <2>9. QED
    BY <1>4, <1>6, <2>6, <2>8 DEF MemInv
<1>7. CASE n > 0 /\ Rollback(old, new - 1) /\ UNCHANGED heap_pointer
  <2>1. /\ phys_mem' = phys_mem
        /\ pagusr_table' = [pagusr_table EXCEPT ![table] =
                              del_ss_pags(@, Served(old .. new - 1))]
    BY <1>3, <1>7, GivenBack DEF Rollback
  <2>2. MemTypeOK'
    BY <1>1, <1>3, <1>4, <1>5, <1>7, <2>1 DEF MemTypeOK, Entry
  <2>3. QED
    BY <1>4, <1>5, <1>7, <2>1, <2>2 DEF MemInv
<1>8. CASE n < 0
  <2>1. /\ phys_mem' = phys_mem
        /\ pagusr_table' = [pagusr_table EXCEPT ![table] = del_ss_pags(@, new + 1 .. old)]
        /\ heap_pointer' = [heap_pointer EXCEPT ![running] = new]
    <3>1. /\ phys_mem' = free_frames(phys_mem, {0})
          /\ pagusr_table' = [pagusr_table EXCEPT ![table] = del_ss_pags(@, new + 1 .. old)]
          /\ heap_pointer' = [heap_pointer EXCEPT ![running] = new]
      BY <1>1, <1>8 DEF sys_sbrk
    <3>2. ~ (0 > NUM_PAG_KERNEL)
      BY Layout
    <3>3. QED
      BY <3>1, <3>2 DEF free_frames
  <2>2. MemTypeOK'
    BY <1>1, <1>3, <1>4, <1>5, <2>1 DEF MemTypeOK, Entry
  <2>3. QED
    BY <1>4, <1>5, <2>1, <2>2 DEF MemInv
<1>9. QED
  BY <1>6, <1>7, <1>8 DEF sys_sbrk

(* What a call that creates a task does to the structures of the tasks.    *)
LEMMA CreateMemInv ==
  ASSUME MemInv, Inv', CanCreate,
         NEW result, sys_fork(result) \/ sys_threadCreate(result),
         NEW table \in Task, dir' = [dir EXCEPT ![FreeTask] = table],
         heap_pointer' \in [Task -> Nat], ustack' \in [Task -> Nat],
         fault' = "none" =>
           \A t \in {FreeTask, running} :
              heap_pointer'[t] >= INIT_HEAP /\ heap_pointer'[t] <= TOTAL_PAGES,
         \A t \in Task \ {FreeTask, running} : heap_pointer'[t] = heap_pointer[t],
         phys_mem' \subseteq Frame,
         pagusr_table' \in [Task -> [Page -> Entry]],
         FrameOwnership', ReservedUsed'
  PROVE  MemInv'
<1>1. FreeTask \in Task /\ Inv /\ MemTypeOK /\ TablesKnown /\ BreakInRange /\ fault = "none"
  BY Child DEF MemInv, CanCreate, CanCall, Syscall
<1>2. Free \ {FreeTask} \subseteq Free'
  BY <1>1, FreeAfterCreate
<1>3. MemTypeOK'
  BY <1>1 DEF MemTypeOK, Entry
<1>4. TablesKnown'
  BY <1>1, <1>2 DEF TablesKnown, MemTypeOK
<1>5. BreakInRange'
  BY <1>1, <1>2 DEF BreakInRange
<1>6. QED
  BY <1>3, <1>4, <1>5 DEF MemInv

(* The copy of the heap goes to the pages between data and heap.           *)
LEMMA CopiesOutside ==
  ASSUME MemInv, CanCall
  PROVE  /\ \A p \in OwnPages : p \notin DOMAIN HeapCopies
         /\ \A p \in DOMAIN HeapCopies : HeapCopies[p] \in Entry
<1>1. \A h \in Heap : CopyPage(h) \in CopyPages
  <2>1. SUFFICES ASSUME NEW h \in Heap PROVE CopyPage(h) \in CopyPages
    OBVIOUS
  <2>2. h - INIT_HEAP \in Int /\ NUM_PAG_DATA \in Nat \ {0} /\ DATA_END \in Nat
        /\ INIT_HEAP = DATA_END + NUM_PAG_DATA
    BY Layout DEF Heap
  <2>3. (h - INIT_HEAP) % NUM_PAG_DATA \in 0 .. NUM_PAG_DATA - 1
    BY <2>2
  <2>4. QED
    BY <2>2, <2>3 DEF CopyPage, CopyPages
<1>2. DOMAIN HeapCopies \subseteq CopyPages
  BY <1>1 DEF HeapCopies
<1>3. \A p \in DOMAIN HeapCopies : HeapCopies[p] \in Entry
  BY Caller, TableTypes DEF HeapCopies, Entry, MemInv
<1>4. QED
  BY <1>2, <1>3, Layout

(* fork gives the child frames nobody has, or gives all of them back.      *)
LEMMA ForkMemInv ==
  ASSUME MemInv, Inv', CanCreate, ForkMemory(FreeTask)
  PROVE  MemInv'
<1> DEFINE child == FreeTask
           parent == dir[running]
<1>1. /\ child \in Task /\ running \in Task /\ parent \in Task
      /\ CanCall
      /\ heap_pointer[running] >= INIT_HEAP /\ heap_pointer[running] <= TOTAL_PAGES
      /\ MemTypeOK /\ FrameOwnership /\ ReservedUsed /\ BreakInRange
      /\ pagusr_table \in [Task -> [Page -> Entry]]
  BY Caller, Child DEF CanCreate, MemInv, MemTypeOK, Entry
<1>2. /\ heap_pointer' \in [Task -> Nat]
      /\ ustack' \in [Task -> Nat]
      /\ heap_pointer'[child] = heap_pointer[running]
      /\ \A t \in Task \ {child} : heap_pointer'[t] = heap_pointer[t]
      /\ dir' = [dir EXCEPT ![child] = child]
  BY <1>1 DEF ForkMemory, Inherit, MemTypeOK
<1>3. \A t \in {child, running} :
         heap_pointer'[t] >= INIT_HEAP /\ heap_pointer'[t] <= TOTAL_PAGES
  BY <1>1, <1>2
<1>4. ASSUME NEW a \in alloc_frames(DataPages), NEW result \in {"ok", "page_fault"},
             sys_fork(result),
             phys_mem' = phys_mem \cup Range(a),
             pagusr_table' = IF result = "ok" THEN CopiedTables(child, a)
                                              ELSE ChildTables(child, a)
      PROVE  MemInv'
  <2>1. /\ DOMAIN a = DataPages
        /\ \A p \in DOMAIN a : a[p] \in Frame \ phys_mem /\ a[p] \in phys_mem'
        /\ \A p, q \in DOMAIN a : a[p] = a[q] => p = q
        /\ Range(a) \subseteq Frame
    BY <1>4, Allocated, Layout
  <2> DEFINE code == [p \in CodePages |-> get_frame(parent, p)]
             T == ChildTables(child, a)
             U == [T EXCEPT ![child] = set_ss_pags(@, HeapCopies)]
             V == CopiedTables(child, a)
  <2>2. /\ T \in [Task -> [Page -> Entry]]
        /\ \A e \in Task, p \in OwnPages : T[e][p] =
              IF e = child /\ p \in DOMAIN a THEN a[p] ELSE pagusr_table[e][p]
    <3>1. /\ DOMAIN code = CodePages
          /\ \A p \in CodePages : code[p] \in Entry
      BY <1>1, TableTypes DEF Entry
    <3>2. T = [pagusr_table EXCEPT ![child] = set_ss_pags(set_ss_pags(@, a), code)]
      BY DEF ChildTables
    <3> HIDE DEF code, T
    <3>3. set_ss_pags(pagusr_table[child], a) \in [Page -> Entry]
      <4>1. \A p \in DOMAIN a : a[p] \in Entry
        BY <2>1 DEF Entry
      <4>2. QED
        BY <1>1, <4>1, SetType
    <3>4. set_ss_pags(set_ss_pags(pagusr_table[child], a), code) \in [Page -> Entry]
      BY <3>1, <3>3, SetType
    <3>5. T \in [Task -> [Page -> Entry]]
      BY <1>1, <3>2, <3>4
    <3>6. \A p \in OwnPages : set_ss_pags(set_ss_pags(pagusr_table[child], a), code)[p] =
             IF p \in DOMAIN a THEN a[p] ELSE pagusr_table[child][p]
      BY <3>1, Layout DEF set_ss_pags
    <3>7. QED
      BY <1>1, <3>2, <3>5, <3>6
  <2>3. /\ U \in [Task -> [Page -> Entry]]
        /\ \A e \in Task, p \in OwnPages : U[e][p] = T[e][p]
    <3> HIDE DEF T
    <3>1. set_ss_pags(T[child], HeapCopies) \in [Page -> Entry]
      BY <1>1, <2>2, CopiesOutside, SetType
    <3>2. \A p \in OwnPages : set_ss_pags(T[child], HeapCopies)[p] = T[child][p]
      BY <1>1, CopiesOutside, Layout DEF set_ss_pags
    <3>3. QED
      BY <1>1, <2>2, <3>1, <3>2
  <2>4. /\ V \in [Task -> [Page -> Entry]]
        /\ \A e \in Task, p \in OwnPages : V[e][p] = T[e][p]
    <3>1. V = [U EXCEPT ![parent] = del_ss_pags(@, CopyPages)]
      BY DEF CopiedTables
    <3> HIDE DEF T, U, V
    <3>2. del_ss_pags(U[parent], CopyPages) \in [Page -> Entry]
      BY <1>1, <2>3, DelType
    <3>3. \A p \in OwnPages : del_ss_pags(U[parent], CopyPages)[p] = U[parent][p]
      BY Layout DEF del_ss_pags
    <3>4. QED
      BY <1>1, <2>3, <3>1, <3>2, <3>3
  <2>5. pagusr_table' = T \/ pagusr_table' = V
    BY <1>4
  <2> HIDE DEF T, U, V, code
  <2>6. /\ pagusr_table' \in [Task -> [Page -> Entry]]
        /\ \A e \in Task, p \in OwnPages : pagusr_table'[e][p] =
              IF e = child /\ p \in DOMAIN a THEN a[p] ELSE pagusr_table[e][p]
    BY <2>2, <2>4, <2>5
  <2>7. FrameOwnership' /\ ReservedUsed'
    <3>1. \A e \in Task, p \in OwnPages :
             \/ pagusr_table'[e][p] \in {pagusr_table[e][p], NotPresent}
             \/ e = child /\ p \in DOMAIN a /\ pagusr_table'[e][p] = a[p]
      BY <2>6
    <3>2. phys_mem \subseteq phys_mem' /\ child \in Task /\ FrameOwnership /\ ReservedUsed
      BY <1>1, <1>4
    <3>3. /\ \A p \in DOMAIN a : a[p] \in Frame \ phys_mem /\ a[p] \in phys_mem'
          /\ \A p, q \in DOMAIN a : a[p] = a[q] => p = q
      BY <2>1
    <3> HIDE DEF child
    <3>4. QED
      BY ONLY <3>1, <3>2, <3>3, MapFresh
  <2>8. phys_mem' \subseteq Frame
    BY <1>1, <1>4, <2>1 DEF MemTypeOK
  <2>9. QED
    BY <1>1, <1>2, <1>3, <1>4, <2>6, <2>7, <2>8, CreateMemInv
<1>5. ASSUME sys_fork("EAGAIN"),
             phys_mem' = free_frames(phys_mem \cup FreeFrames, FreeFrames),
             pagusr_table' = [pagusr_table EXCEPT ![child] = del_ss_pags(@, Served(DataPages))]
      PROVE  MemInv'
  <2>1. phys_mem' = phys_mem
    BY <1>1, <1>5, GivenBack
  <2>2. /\ pagusr_table' \in [Task -> [Page -> Entry]]
        /\ \A e \in Task, p \in Page : pagusr_table'[e][p] \in {pagusr_table[e][p], NotPresent}
    BY <1>1, <1>5, DelType DEF del_ss_pags
  <2>3. FrameOwnership' /\ ReservedUsed'
    <3> DEFINE none == [p \in {} |-> 0]
    <3>1. DOMAIN none = {} /\ init_task \in Task
      BY Heads
    <3> HIDE DEF none
    <3>2. \A e \in Task, p \in OwnPages :
             pagusr_table'[e][p] \in {pagusr_table[e][p], NotPresent}
      BY <2>2, Layout
    <3>3. QED
      BY <1>1, <2>1, <3>1, <3>2, MapFresh
  <2>4. phys_mem' \subseteq Frame
    BY <1>1, <2>1 DEF MemTypeOK
  <2>5. QED
    BY <1>1, <1>2, <1>3, <1>5, <2>2, <2>3, <2>4, CreateMemInv
<1>6. QED
  BY <1>4, <1>5 DEF ForkMemory, CopyResults

(* threadCreate maps one free frame in the table its process shares.       *)
LEMMA ThreadMemInv ==
  ASSUME MemInv, Inv', CanCreate, ThreadMemory(FreeTask)
  PROVE  MemInv'
<1> DEFINE child == FreeTask
           page == heap_pointer[running]
           table == dir[running]
<1>1. /\ child \in Task /\ running \in Task /\ table \in Task
      /\ child # running
      /\ page \in Nat /\ page >= INIT_HEAP /\ page <= TOTAL_PAGES
      /\ MemTypeOK /\ FrameOwnership /\ ReservedUsed
      /\ pagusr_table \in [Task -> [Page -> Entry]]
      /\ heap_pointer \in [Task -> Nat] /\ ustack \in [Task -> Nat]
      /\ dir' = [dir EXCEPT ![child] = table]
  BY Caller, Child DEF CanCreate, MemInv, MemTypeOK, Entry, ThreadMemory
<1>2. ASSUME NEW a \in alloc_frames({page}),
             sys_threadCreate(IF page = TOTAL_PAGES THEN "page_fault" ELSE "ok"),
             phys_mem' = phys_mem \cup Range(a),
             pagusr_table' = [pagusr_table EXCEPT ![table] = set_ss_pags(@, a)],
             heap_pointer' = [heap_pointer EXCEPT ![child] = page, ![running] = page + 1],
             ustack' = [ustack EXCEPT ![child] = page]
      PROVE  MemInv'
  <2> DEFINE result == IF page = TOTAL_PAGES THEN "page_fault" ELSE "ok"
             pages == {page}
  <2>1. pages \subseteq Int /\ a \in alloc_frames(pages)
    BY <1>1, <1>2
  <2> HIDE DEF pages
  <2>2. /\ \A p \in DOMAIN a : a[p] \in Frame \ phys_mem /\ a[p] \in phys_mem'
        /\ \A p, q \in DOMAIN a : a[p] = a[q] => p = q
        /\ Range(a) \subseteq Frame
    BY <1>2, <2>1, Allocated
  <2>3. pagusr_table' \in [Task -> [Page -> Entry]]
    <3>1. \A p \in DOMAIN a : a[p] \in Entry
      BY <2>2 DEF Entry
    <3>2. QED
      BY <1>1, <1>2, <3>1, SetType
  <2>4. \A e \in Task, p \in Page : pagusr_table'[e][p] =
           IF e = table /\ p \in DOMAIN a THEN a[p] ELSE pagusr_table[e][p]
    BY <1>1, <1>2 DEF set_ss_pags
  <2>5. FrameOwnership' /\ ReservedUsed'
    <3>1. \A e \in Task, p \in OwnPages :
             \/ pagusr_table'[e][p] \in {pagusr_table[e][p], NotPresent}
             \/ e = table /\ p \in DOMAIN a /\ pagusr_table'[e][p] = a[p]
      BY <2>4, Layout
    <3>2. phys_mem \subseteq phys_mem' /\ table \in Task /\ FrameOwnership /\ ReservedUsed
      BY <1>1, <1>2
    <3>3. /\ \A p \in DOMAIN a : a[p] \in Frame \ phys_mem /\ a[p] \in phys_mem'
          /\ \A p, q \in DOMAIN a : a[p] = a[q] => p = q
      BY <2>2
    <3> HIDE DEF table, page, child
    <3>4. QED
      BY ONLY <3>1, <3>2, <3>3, MapFresh
  <2>6. phys_mem' \subseteq Frame
    BY <1>1, <1>2, <2>2 DEF MemTypeOK
  <2>7. /\ heap_pointer' \in [Task -> Nat]
        /\ ustack' \in [Task -> Nat]
        /\ heap_pointer'[child] = page
        /\ heap_pointer'[running] = page + 1
        /\ \A t \in Task \ {child, running} : heap_pointer'[t] = heap_pointer[t]
    BY <1>1, <1>2
  <2>8. fault' = "none" => page # TOTAL_PAGES
    BY <1>2 DEF sys_threadCreate
  <2>9. fault' = "none" => page + 1 >= INIT_HEAP /\ page + 1 <= TOTAL_PAGES
    <3>1. /\ page \in Nat /\ page >= INIT_HEAP /\ page <= TOTAL_PAGES
          /\ INIT_HEAP \in Nat /\ TOTAL_PAGES \in Nat
      BY <1>1, Layout
    <3> HIDE DEF page
    <3>2. page # TOTAL_PAGES => page + 1 >= INIT_HEAP /\ page + 1 <= TOTAL_PAGES
      BY ONLY <3>1
    <3>3. QED
      BY <2>8, <3>2
  <2>10. sys_threadCreate(result)
    BY <1>2
  <2> HIDE DEF result
  <2>11. QED
    BY <1>1, <2>3, <2>5, <2>6, <2>7, <2>9, <2>10, CreateMemInv
<1>3. ASSUME sys_threadCreate("EAGAIN"), Inherit(child), UNCHANGED << phys_mem, pagusr_table >>
      PROVE  MemInv'
  <2>1. FrameOwnership' /\ ReservedUsed' /\ phys_mem' \subseteq Frame
        /\ pagusr_table' \in [Task -> [Page -> Entry]]
    BY <1>1, <1>3 DEF FrameOwnership, ReservedUsed, Present, MemTypeOK
  <2>2. /\ heap_pointer' \in [Task -> Nat]
        /\ ustack' \in [Task -> Nat]
        /\ heap_pointer'[child] = page
        /\ heap_pointer'[running] = page
        /\ \A t \in Task \ {child, running} : heap_pointer'[t] = heap_pointer[t]
    BY <1>1, <1>3 DEF Inherit
  <2>3. QED
    BY <1>1, <1>3, <2>1, <2>2, CreateMemInv
<1>4. QED
  BY <1>2, <1>3 DEF ThreadMemory

(* The end of a process or thread deletes entries before their frames are  *)
(* handed out again.                                                       *)
LEMMA ExitMemInv ==
  ASSUME MemInv, Inv', CanCall, ExitMemory \/ ThreadExitMemory
  PROVE  MemInv'
<1>1. /\ running \in Task /\ dir[running] \in Task
      /\ heap_pointer[running] \in Nat /\ heap_pointer[running] >= INIT_HEAP
      /\ heap_pointer[running] <= TOTAL_PAGES
      /\ fault = "none"
      /\ sys_exit \/ sys_threadExit
      /\ UNCHANGED << dir, ustack >>
      /\ Inv /\ MemTypeOK /\ FrameOwnership /\ ReservedUsed /\ TablesKnown /\ BreakInRange
      /\ heap_pointer \in [Task -> Nat]
  BY Caller DEF ExitMemory, ThreadExitMemory, MemInv, MemTypeOK
<1>2. PICK pages : Release(pages) /\ pages \cap Page \subseteq OwnPages
  <2>1. CASE ExitMemory
    <3>1. Release(DataPages) /\ DataPages \cap Page \subseteq OwnPages
      BY <2>1, Layout DEF ExitMemory
    <3>2. QED
      BY <3>1
  <2>2. CASE ThreadExitMemory
    <3>1. Release({heap_pointer[running]})
      BY <2>2 DEF ThreadExitMemory
    <3>2. heap_pointer[running] \in Page => heap_pointer[running] \in OwnPages
      BY <1>1, Layout
    <3>3. {heap_pointer[running]} \cap Page \subseteq OwnPages
      BY <3>2
    <3>4. QED
      BY <3>1, <3>3
  <2>3. QED
    BY <2>1, <2>2
<1>3. /\ FrameOwnership' /\ ReservedUsed'
      /\ phys_mem' \subseteq Frame
      /\ pagusr_table' \in [Task -> [Page -> Entry]]
  BY <1>1, <1>2, Unmapped
<1>4. Free \subseteq Free' /\ running \in Free'
  BY <1>1, FreeKept
<1>5. /\ heap_pointer' \in [Task -> Nat]
      /\ \A t \in Task \ {running} : heap_pointer'[t] = heap_pointer[t]
  <2>1. heap_pointer[running] - 1 \in Nat
    BY <1>1, Layout
  <2>2. heap_pointer' \in {heap_pointer, [heap_pointer EXCEPT ![running] = heap_pointer[running] - 1]}
    BY DEF ExitMemory, ThreadExitMemory
  <2>3. QED
    BY <1>1, <2>1, <2>2
<1>6. MemTypeOK'
  BY <1>1, <1>3, <1>5 DEF MemTypeOK, Entry
<1>7. TablesKnown' /\ BreakInRange'
  BY <1>1, <1>4, <1>5 DEF TablesKnown, BreakInRange
<1>8. QED
  BY <1>3, <1>6, <1>7 DEF MemInv

-----------------------------------------------------------------------------
(* Every step of the kernel with its memory keeps the invariant.           *)
LEMMA NextMemInv ==
  ASSUME MemInv, [MemNext]_memAllVars
  PROVE  MemInv'
<1>1. Inv'
  BY StepImplements, NextInv DEF MemInv
<1>2. CASE (Clock \/ sys_yield \/ SemaphoreCall \/ UNCHANGED vars) /\ UNCHANGED memVars
  BY <1>1, <1>2, MemoryAlone
<1>3. CASE CanCreate /\ ForkMemory(FreeTask)
  BY <1>1, <1>3, ForkMemInv
<1>4. CASE CanCreate /\ ThreadMemory(FreeTask)
  BY <1>1, <1>4, ThreadMemInv
<1>5. CASE CanCall /\ (ExitMemory \/ ThreadExitMemory)
  BY <1>1, <1>5, ExitMemInv
<1>6. CASE \E n \in SbrkPages : sys_sbrk(n)
  BY <1>1, <1>6, SbrkMemInv
<1>7. QED
  BY <1>2, <1>3, <1>4, <1>5, <1>6 DEF MemNext, memAllVars

(* The inductive invariant holds in every reachable state of Memory.       *)
THEOREM MemInvHolds == MemSpec => []MemInv
  BY InitMemInv, NextMemInv, PTL DEF MemSpec

(* Page tables hold frames of the machine, and a break is never negative,  *)
(* although the end of a thread lowers it without looking.                 *)
THEOREM MemTypeCorrect == MemSpec => []MemTypeOK
<1>1. MemInv => MemTypeOK
  BY DEF MemInv
<1>2. QED
  BY <1>1, MemInvHolds, PTL

(* No frame of data or heap is ever mapped twice, free while it is mapped, *)
(* or a frame of the kernel or the code: alloc_frame, free_frame and the   *)
(* calls that use them keep memory apart on every machine.                 *)
THEOREM FramesOwned == MemSpec => []FrameOwnership
<1>1. MemInv => FrameOwnership
  BY DEF MemInv
<1>2. QED
  BY <1>1, MemInvHolds, PTL

(* The break of every task in use stays between the start of its heap and  *)
(* the end of its page table.                                              *)
THEOREM BreaksInRange == MemSpec => []BreakInRange
<1>1. MemInv => BreakInRange
  BY DEF MemInv
<1>2. QED
  BY <1>1, MemInvHolds, PTL

(* A call that runs out of frames leaves the set of used frames as it was. *)
THEOREM FailureGivesBack == MemSpec => NoFrameChangeOnFailure
<1> DEFINE Changes == \/ Free' # Free
                      \/ \E t \in Task \ Free : heap_pointer'[t] # heap_pointer[t]
<1>1. ASSUME MemInv, [MemNext]_memAllVars
      PROVE  phys_mem' # phys_mem => Changes
  <2>1. CASE UNCHANGED memVars
    BY <2>1 DEF memVars
  <2>2. CASE CanCreate /\ ForkMemory(FreeTask)
    <3>1. FreeTask \in Free
      BY <1>1, <2>2, Child DEF CanCreate, MemInv
    <3>2. ASSUME NEW result \in {"ok", "page_fault"}, sys_fork(result)
          PROVE  Free' # Free
      BY <1>1, <3>1, <3>2, FreeAfterCreate DEF MemInv
    <3>3. CASE phys_mem' = free_frames(phys_mem \cup FreeFrames, FreeFrames)
      BY <1>1, <3>3, GivenBack DEF MemInv
    <3>4. QED
      BY <2>2, <3>2, <3>3 DEF ForkMemory, CopyResults
  <2>3. CASE CanCreate /\ ThreadMemory(FreeTask)
    <3>1. FreeTask \in Free /\ running \in Task \ Free /\ CanCall
      BY <1>1, <2>3, Child, Caller DEF CanCreate, MemInv
    <3>2. ASSUME NEW result \in {"ok", "page_fault"}, sys_threadCreate(result)
          PROVE  Free' # Free
      BY <1>1, <3>1, <3>2, FreeAfterCreate DEF MemInv
    <3>3. QED
      BY <2>3, <3>2 DEF ThreadMemory
  <2>4. CASE CanCall /\ (ExitMemory \/ ThreadExitMemory)
    <3>1. running \notin Free
      BY <1>1, <2>4, Caller
    <3>2. running \in Free'
      BY <1>1, <2>4, FreeKept DEF ExitMemory, ThreadExitMemory, MemInv
    <3>3. QED
      BY <3>1, <3>2
  <2>5. ASSUME NEW n \in SbrkPages, sys_sbrk(n)
        PROVE  phys_mem' # phys_mem => Changes
    <3>1. CanCall
      BY <2>5 DEF sys_sbrk
    <3>2. /\ running \in Task \ Free
          /\ heap_pointer[running] \in Nat
          /\ heap_pointer \in [Task -> Nat]
          /\ n \in Int \ {0}
      BY <1>1, <3>1, Caller, PagesAssumption DEF MemInv, MemTypeOK
    <3>3. CASE heap_pointer' = [heap_pointer EXCEPT ![running] = heap_pointer[running] + n]
      <4>1. heap_pointer'[running] # heap_pointer[running]
        BY <3>2, <3>3
      <4>2. QED
        BY <3>2, <4>1
    <3>4. CASE phys_mem' = free_frames(phys_mem \cup FreeFrames, FreeFrames)
      BY <1>1, <3>4, GivenBack DEF MemInv
    <3>5. QED
      BY <2>5, <3>3, <3>4 DEF sys_sbrk, Rollback
  <2>6. QED
    BY <1>1, <2>1, <2>2, <2>3, <2>4, <2>5 DEF MemNext, memAllVars
<1>2. MemInv /\ [MemNext]_memAllVars => [phys_mem' # phys_mem => Changes]_memAllVars
  BY <1>1
<1>3. QED
  BY <1>2, MemInvHolds, PTL DEF MemSpec, NoFrameChangeOnFailure
=============================================================================
