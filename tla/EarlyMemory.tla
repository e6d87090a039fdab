---------------------------- MODULE EarlyMemory ----------------------------
(***************************************************************************)
(* Frames and page tables of the earlier kernel, zeOSpparri: mm.c and the  *)
(* memory half of sys_fork and sys_exit, composed with module EarlyKernel. *)
(* Of the pages of the kernel only page zero, the one at NULL, is kept.    *)
(***************************************************************************)
EXTENDS EarlyKernel

CONSTANTS
  TOTAL_PAGES,     \* frames of the machine
  NUM_PAG_KERNEL,  \* the first ones, which belong to the kernel
  NUM_PAG_CODE,    \* pages of code of the program
  NUM_PAG_DATA     \* pages of data and stack of a process

(* The frames alloc_frame looks at: every second one.                      *)
Allocatable == {f \in NUM_PAG_KERNEL .. TOTAL_PAGES - 1 : (f - NUM_PAG_KERNEL) % 2 = 0}

(* 1024, 256, 8 and 20 in the code, with ten task structures: there are    *)
(* frames for the code and for the data of all processes.                  *)
ASSUME EnoughFrames ==
  /\ {TOTAL_PAGES, NUM_PAG_KERNEL, NUM_PAG_CODE, NUM_PAG_DATA} \subseteq Nat \ {0}
  /\ NUM_PAG_CODE + (NR_TASKS - 1) * NUM_PAG_DATA <= Cardinality(Allocatable)

(* In this kernel the data pages come before the code.                     *)
PAG_LOG_INIT_DATA == NUM_PAG_KERNEL
PAG_LOG_INIT_CODE == PAG_LOG_INIT_DATA + NUM_PAG_DATA
DataPages == PAG_LOG_INIT_DATA .. PAG_LOG_INIT_CODE - 1
CodePages == PAG_LOG_INIT_CODE .. PAG_LOG_INIT_CODE + NUM_PAG_CODE - 1
NULLPage == 0
Page == {NULLPage} \cup DataPages \cup CodePages

NotPresent == -1

VARIABLES
  phys_mem,     \* the frames marked USED_FRAME
  pagusr_table  \* the page table of each place of the task array

memVars == << phys_mem, pagusr_table >>

-----------------------------------------------------------------------------
init_frames == 0 .. NUM_PAG_KERNEL - 1

(* Every table starts with the pages of the kernel, NULL left out.         *)
init_table_pages == [t \in Task |-> [p \in Page |-> NotPresent]]

(* The frame alloc_frame hands out as number n, from 0.                    *)
NthFrame(n) == NUM_PAG_KERNEL + 2 * n

(* Code first, then data.                                                  *)
set_user_pages ==
  [p \in CodePages \cup DataPages |->
     IF p \in CodePages THEN NthFrame(p - PAG_LOG_INIT_CODE)
                        ELSE NthFrame(NUM_PAG_CODE + p - PAG_LOG_INIT_DATA)]

(* init_mm, and init_task1 as it calls set_user_pages, with the rest of    *)
(* the initialization.                                                     *)
MemInit ==
  /\ Init
  /\ phys_mem = init_frames \cup {set_user_pages[p] : p \in DOMAIN set_user_pages}
  /\ pagusr_table = [init_table_pages EXCEPT ![task_1] =
                       [p \in Page |-> IF p = NULLPage THEN NotPresent ELSE set_user_pages[p]]]

(* What one alloc_frame per data page, in order, returns.  The set is      *)
(* empty when there are not enough.                                        *)
alloc_frames ==
  LET free == Allocatable \ phys_mem
  IN {a \in [DataPages -> free] :
        /\ \A p, q \in DataPages : p < q => a[p] < a[q]
        /\ \A p \in DataPages, f \in free : f < a[p] => \E q \in DataPages : a[q] = f}

free_frame(mem, frames) == mem \ {f \in frames : f > NUM_PAG_KERNEL /\ f < TOTAL_PAGES}

(* An entry that is not present reads as frame zero.                       *)
get_frame(t, p) == IF pagusr_table[t][p] = NotPresent THEN 0 ELSE pagusr_table[t][p]

(* Mutant: the pages of the parent are shared, as the comment wants it.    *)
MutSharedData(a, p) == get_frame(running, p)

(* The table of the child: its own data pages, and the code and the pages  *)
(* of the kernel of the parent, set_ss_pag each.                           *)
ChildEntry(a, p) == IF p \in DataPages THEN a[p] ELSE get_frame(running, p)

(* Nobody notices when alloc_frame returns -1: new_ph_pag < 0 compares the *)
(* address of the array.  The pages of the child that are mapped below the *)
(* code while they are copied are gone at the end.                         *)
ForkMemory ==
  \/ \E a \in alloc_frames :
       /\ sys_fork("none")
       /\ IF fault' = "none"
          THEN /\ phys_mem' = phys_mem \cup {a[p] : p \in DataPages}
               /\ pagusr_table' = [pagusr_table EXCEPT ![FreeTask] =
                                     [p \in Page |-> ChildEntry(a, p)]]
          ELSE UNCHANGED memVars
  \/ /\ alloc_frames = {}
     /\ sys_fork("no_frame")
     /\ UNCHANGED memVars

(* Mutant: the last data page is forgotten.                                *)
MutAllButLast == DataPages \ {PAG_LOG_INIT_CODE - 1}

Released == DataPages

ExitMemory ==
  /\ sys_exit
  /\ IF list_empty(lists, kids(running))
     THEN /\ phys_mem' = free_frame(phys_mem, {get_frame(running, p) : p \in Released})
          /\ pagusr_table' = [pagusr_table EXCEPT ![running] =
                                [p \in Page |-> IF p \in Released THEN NotPresent ELSE @[p]]]
     ELSE UNCHANGED memVars

MemNext ==
  \/ Clock /\ UNCHANGED memVars
  \/ ForkMemory
  \/ ExitMemory
  \/ sys_block /\ UNCHANGED memVars
  \/ \E pid \in Pids : sys_unblock(pid) /\ UNCHANGED memVars

memAllVars == << vars, memVars >>

MemSpec == MemInit /\ [][MemNext]_memAllVars

(* The timer interrupts for ever.                                          *)
FairMemSpec == MemSpec /\ WF_memAllVars(Clock /\ UNCHANGED memVars)

-----------------------------------------------------------------------------
(* A fork always finds its frames, which nobody checks, because every exit *)
(* has given back all that its fork took.                                  *)
FramesSuffice == ~ tangled => fault # "no_frame"

(* No two processes share a frame of data, and a data page that is mapped  *)
(* has a frame that is marked.                                             *)
DataNotShared ==
  ~ tangled =>
    \A t \in Task, p \in DataPages : pagusr_table[t][p] # NotPresent =>
      /\ pagusr_table[t][p] \in phys_mem
      /\ \A u \in Task, q \in Page : pagusr_table[u][q] = pagusr_table[t][p] => u = t /\ q = p
=============================================================================
