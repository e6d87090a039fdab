----------------------------- MODULE Processes -----------------------------
(***************************************************************************)
(* Processes, threads, round-robin scheduling and semaphores of the kernel *)
(* in ZeOSSysenter/zeos: sched.c, the task half of sys.c and the clock     *)
(* interrupt.                                                              *)
(*                                                                         *)
(* The machine has one processor, and interrupt gates and sysenter clear   *)
(* the interrupt flag, so a system call or an interrupt handler runs       *)
(* without interruption from its entry until it returns or switches to     *)
(* another task.  Every action below is one such run.  What interleaves is *)
(* which task makes which call, and when the clock ticks.                  *)
(*                                                                         *)
(* Memory is left to nondeterminism here: how the allocation of memory     *)
(* ends is an input of sys_fork and sys_threadCreate.  A call that returns *)
(* an error before it changes anything is a stuttering step.               *)
(***************************************************************************)
EXTENDS TaskLists

CONSTANTS
  NR_TASKS,         \* number of task structures
  NUM_SEM,          \* number of semaphores
  DEFAULT_QUANTUM,  \* clock ticks a task may run before it is preempted
  SemValues,        \* initial values passed to sys_semCreate
  SemIds,           \* semaphore identifiers passed to the other sem calls
  ForkResults,      \* results of the memory allocation in sys_fork
  MaxPID,           \* bound: sys_fork creates no PID above it
  MaxTID,           \* bound: sys_threadCreate creates no TID above it
  MaxCount          \* bound: sys_semSignal raises no counter above it

ASSUME NR_TASKS_Assumption == NR_TASKS \in Nat /\ NR_TASKS >= 2
ASSUME NUM_SEM_Assumption == NUM_SEM \in Nat
ASSUME QuantumAssumption == DEFAULT_QUANTUM \in Nat /\ DEFAULT_QUANTUM > 0
ASSUME InputAssumption ==
  /\ SemValues \subseteq Int
  /\ SemIds \subseteq Int
  /\ ForkResults \subseteq {"ok", "EAGAIN", "page_fault"}
ASSUME BoundAssumption == MaxPID \in Int /\ MaxTID \in Int /\ MaxCount \in Int

(* A task is the index of its task_union in task[]; init_idle takes the    *)
(* first one from the free queue and init_task1 the second.                *)
Task == 0 .. NR_TASKS - 1
idle_task == 0
init_task == 1

SemIndex == 0 .. NUM_SEM - 1

(* The list heads.  The queue of the threads blocked on semaphore i has    *)
(* the number i as its key.                                                *)
freequeue == -1
readyqueue == -2
blocked(i) == i
ListHead == {freequeue, readyqueue} \cup SemIndex

state_t == {"ST_RUN", "ST_READY", "ST_BLOCKED"}

(* register_esp, the saved position in the kernel stack of a task, is      *)
(* represented by the path that left it there: "zero" is the value in the  *)
(* zero-filled task array, "idle", "thread" and "fork" are the hand-made   *)
(* stacks of init_idle, sys_threadCreate and sys_fork, and the others are  *)
(* the calls of task_switch that saved a running task.                     *)
Context == {"zero", "idle", "fork", "thread", "clock", "yield", "sem", "exit"}

(* What stops the kernel: a switch to a stack position that is no longer a *)
(* saved context, a semaphore read beyond the end of the array, a wake-up  *)
(* from an empty queue, and an access of the kernel to a logical page that *)
(* is not mapped.                                                          *)
Fault == {"none", "stale_esp", "sem_index", "empty_wakeup", "page_fault"}

VARIABLES
  lists,              \* the contents of every list
  running,            \* current(), the task whose kernel stack is in use
  state,              \* the field state of each task_struct
  PID,                \* the field PID
  TID,                \* the field TID
  register_esp,       \* the field register_esp
  remaining_quantum,  \* ticks left to the running task
  sem,                \* semafor_proces, the array every task points to
  global_PID,         \* last PID given
  global_TID,         \* last TID given
  fault               \* "none" until the kernel does something undefined

idVars == << PID, TID, global_PID, global_TID >>
schedVars == << lists, running, state, register_esp, remaining_quantum >>
vars == << schedVars, idVars, sem, fault >>

(* The field value is history: the initial value, which the code forgets.  *)
sem_t == [semid : Int, count : Int, PID : Int, value : Int]

(* A semaphore that nobody has created, or that was destroyed.             *)
NoSem == [semid |-> -1, count |-> 0, PID |-> -1, value |-> 0]

-----------------------------------------------------------------------------
(* init_sched, init_idle and init_task1 have run, and init_task executes   *)
(* its user code.                                                          *)
Init ==
  /\ lists = [h \in ListHead |->
                IF h = freequeue THEN [i \in 1 .. NR_TASKS - 2 |-> i + 1]
                                 ELSE << >>]
  /\ running = init_task
  /\ state = [t \in Task |-> "ST_RUN"]
  /\ PID = [t \in Task |-> IF t \in {idle_task, init_task} THEN t ELSE -1]
  /\ TID = [t \in Task |-> IF t \in {idle_task, init_task} THEN t ELSE 0]
  /\ register_esp = [t \in Task |-> IF t = idle_task THEN "idle" ELSE "zero"]
  /\ remaining_quantum = DEFAULT_QUANTUM
  /\ sem = [i \in SemIndex |-> NoSem]
  /\ global_PID = 1000
  /\ global_TID = 1000
  /\ fault = "none"

-----------------------------------------------------------------------------
(* Scheduling.                                                             *)

(* switch_stack receives the register_esp of the new task by value, before *)
(* it saves the stack position of the running one.  This only matters when *)
(* a task switches to itself: it then continues at the position saved the  *)
(* time before.  A position saved by the same path holds the same frames   *)
(* again, and the one sys_threadCreate made is the frame of the system     *)
(* call; the return address sys_fork made has been overwritten; for        *)
(* positions saved at another depth the result depends on the build.       *)
SwitchResults(new, path) ==
  IF register_esp[new] = "zero" THEN {"stale_esp"}
  ELSE IF new # running \/ register_esp[new] \in {path, "thread"} THEN {"none"}
  ELSE IF register_esp[new] = "fork" THEN {"stale_esp"}
  ELSE {"none", "stale_esp"}

task_switch(new, path) ==
  /\ running' = new
  /\ register_esp' = [register_esp EXCEPT ![running] = path]
  /\ fault' \in SwitchResults(new, path)

(* Mutant: the last ready task is taken instead of the first.              *)
MutLastReady(L, st, path) ==
  LET none == list_empty(L, readyqueue)
      n == Len(L[readyqueue])
      t == IF none THEN idle_task ELSE L[readyqueue][n]
  IN /\ lists' = IF none THEN L
                 ELSE [L EXCEPT ![readyqueue] = SubSeq(@, 1, n - 1)]
     /\ state' = [st EXCEPT ![t] = "ST_RUN"]
     /\ remaining_quantum' = DEFAULT_QUANTUM
     /\ task_switch(t, path)

(* Mutant: the node of the chosen task stays in the ready queue.           *)
MutNoListDel(L, st, path) ==
  LET none == list_empty(L, readyqueue)
      t == IF none THEN idle_task ELSE list_first(L, readyqueue)
  IN /\ lists' = L
     /\ state' = [st EXCEPT ![t] = "ST_RUN"]
     /\ remaining_quantum' = DEFAULT_QUANTUM
     /\ task_switch(t, path)

(* Gives the processor to the first ready task, or to idle_task.  L and st *)
(* are the lists and the states as the caller left them.  Every task has   *)
(* total_quantum equal to DEFAULT_QUANTUM.                                 *)
sched_next_rr(L, st, path) ==
  LET none == list_empty(L, readyqueue)
      t == IF none THEN idle_task ELSE list_first(L, readyqueue)
  IN /\ lists' = IF none THEN L ELSE list_del_first(L, readyqueue)
     /\ state' = [st EXCEPT ![t] = "ST_RUN"]
     /\ remaining_quantum' = DEFAULT_QUANTUM
     /\ task_switch(t, path)

(* update_process_state_rr(current(), &readyqueue), its only use: what it  *)
(* does to the lists and to the states.                                    *)
ReadyLists ==
  list_add_tail(IF state[running] # "ST_RUN" THEN list_del(lists, running)
                                            ELSE lists,
                running, readyqueue)

(* Mutant: the preempted task keeps the state ST_RUN.                      *)
MutReadyStates == state

ReadyStates == [state EXCEPT ![running] = "ST_READY"]

(* Mutant: the quantum is refilled before it can run out.                  *)
MutNeverExpires(quantum) == quantum < 0 /\ ~ list_empty(lists, readyqueue)

needs_sched_rr(quantum) == quantum = 0 /\ ~ list_empty(lists, readyqueue)

(* Mutant: the quantum of a task that nobody waits for is not refilled.    *)
MutNoRefill(quantum) == quantum

(* needs_sched_rr also refills the quantum when it does not switch.        *)
refill(quantum) == IF quantum = 0 THEN DEFAULT_QUANTUM ELSE quantum

(* clock_routine: update_sched_data_rr, needs_sched_rr and, when the       *)
(* quantum is over and somebody waits, the switch.                         *)
Clock ==
  LET quantum == remaining_quantum - 1
  IN /\ fault = "none"
     /\ \/ /\ needs_sched_rr(quantum)
           /\ sched_next_rr(ReadyLists, ReadyStates, "clock")
        \/ /\ ~ needs_sched_rr(quantum)
           /\ remaining_quantum' = refill(quantum)
           /\ UNCHANGED << lists, running, state, register_esp, fault >>
     /\ UNCHANGED << idVars, sem >>

(* Only user code makes system calls, and idle_task has none.              *)
Syscall == fault = "none" /\ running # idle_task

sys_yield ==
  /\ Syscall
  /\ sched_next_rr(ReadyLists, ReadyStates, "yield")
  /\ UNCHANGED << idVars, sem >>

-----------------------------------------------------------------------------
(* Creating and ending processes and threads.                              *)

(* The task structure sys_fork and sys_threadCreate take.                  *)
FreeTask == list_first(lists, freequeue)

(* The lists after sys_fork has taken it and re-initialized the semaphores *)
(* through the pointer the child inherits, that is, everybody's.           *)
ForkLists == INIT_LIST_HEAD(list_del_first(lists, freequeue), SemIndex)

(* Mutant: the child keeps the PID that was copied from its parent.        *)
MutCopiedPID == PID[running]

NewPID == global_PID + 1

(* Mutant: the child keeps the register_esp that was copied.               *)
MutCopiedContext == register_esp[running]

(* The stack with ret_from_fork as return address.                         *)
ForkContext == "fork"

(* The child starts as a copy of the running task.  When there is no frame *)
(* for its data pages the structure goes back, with what was copied in it. *)
(* The loops that copy data and heap go through pages of the parent that   *)
(* need not be mapped; the kernel then stops before the child is queued.   *)
sys_fork(result) ==
  LET child == FreeTask
  IN /\ Syscall
     /\ ~ list_empty(lists, freequeue)
     /\ sem' = [i \in SemIndex |-> NoSem]
     /\ TID' = [TID EXCEPT ![child] = TID[running]]
     /\ \/ /\ result = "ok"
           /\ global_PID < MaxPID
           /\ lists' = list_add_tail(ForkLists, child, readyqueue)
           /\ state' = [state EXCEPT ![child] = "ST_READY"]
           /\ register_esp' = [register_esp EXCEPT ![child] = ForkContext]
           /\ global_PID' = global_PID + 1
           /\ PID' = [PID EXCEPT ![child] = NewPID]
           /\ fault' = "none"
        \/ /\ \/ /\ result = "EAGAIN"
                 /\ lists' = list_add_tail(ForkLists, child, freequeue)
                 /\ fault' = "none"
              \/ /\ result = "page_fault"
                 /\ lists' = ForkLists
                 /\ fault' = "page_fault"
           /\ state' = [state EXCEPT ![child] = state[running]]
           /\ register_esp' = [register_esp EXCEPT ![child] = register_esp[running]]
           /\ global_PID' = global_PID
           /\ PID' = [PID EXCEPT ![child] = PID[running]]
     /\ UNCHANGED << running, remaining_quantum, global_TID >>

(* The thread shares PID and semaphores and takes a new TID, which is used *)
(* up even when no frame is left for its stack.  The heap of the process   *)
(* ends at TOTAL_PAGES pages at the latest; a stack page at that very end  *)
(* passes the check of the code and lies outside the mapped directory, so  *)
(* that writing to it stops the kernel.                                    *)
sys_threadCreate(result) ==
  LET child == FreeTask
      L == list_del_first(lists, freequeue)
  IN /\ Syscall
     /\ ~ list_empty(lists, freequeue)
     /\ global_TID < MaxTID
     /\ global_TID' = global_TID + 1
     /\ TID' = [TID EXCEPT ![child] = global_TID + 1]
     /\ PID' = [PID EXCEPT ![child] = PID[running]]
     /\ state' = [state EXCEPT ![child] = "ST_READY"]
     /\ \/ /\ result = "ok"
           /\ lists' = list_add_tail(L, child, readyqueue)
           /\ register_esp' = [register_esp EXCEPT ![child] = "thread"]
           /\ fault' = "none"
        \/ /\ result = "EAGAIN"
           /\ lists' = list_add_tail(L, child, freequeue)
           /\ register_esp' = [register_esp EXCEPT ![child] = register_esp[running]]
           /\ fault' = "none"
        \/ /\ result = "page_fault"
           /\ lists' = L
           /\ register_esp' = [register_esp EXCEPT ![child] = register_esp[running]]
           /\ fault' = "page_fault"
     /\ UNCHANGED << running, remaining_quantum, global_PID, sem >>

(* Mutant: the task structure is not given back.                           *)
MutNotFreed == lists

(* The task structure becomes free while the task still runs on it.        *)
ExitLists == list_add_tail(lists, running, freequeue)

(* Mutant: the PID stays in the free task structure.                       *)
MutKeepsPID ==
  /\ Syscall
  /\ sched_next_rr(ExitLists, state, "exit")
  /\ UNCHANGED << idVars, sem >>

sys_exit ==
  /\ Syscall
  /\ PID' = [PID EXCEPT ![running] = -1]
  /\ sched_next_rr(ExitLists, state, "exit")
  /\ UNCHANGED << TID, global_PID, global_TID, sem >>

(* Mutant: the processor goes to idle_task instead of to the next thread.  *)
MutExitToIdle ==
  /\ Syscall
  /\ lists' = ExitLists
  /\ state' = [state EXCEPT ![idle_task] = "ST_RUN"]
  /\ remaining_quantum' = DEFAULT_QUANTUM
  /\ task_switch(idle_task, "exit")
  /\ UNCHANGED << idVars, sem >>

(* A thread that ends keeps its PID in the free task structure.            *)
sys_threadExit ==
  /\ Syscall
  /\ sched_next_rr(ExitLists, state, "exit")
  /\ UNCHANGED << idVars, sem >>

-----------------------------------------------------------------------------
(* Semaphores.                                                             *)

(* The first unused semaphore, with any initial value.                     *)
sys_semCreate(value) ==
  /\ Syscall
  /\ \E i \in SemIndex :
       /\ sem[i].semid = -1
       /\ \A j \in 0 .. i - 1 : sem[j].semid # -1
       /\ sem' = [sem EXCEPT ![i] = [semid |-> i, count |-> value, PID |-> PID[running],
                                     value |-> value]]
       /\ lists' = INIT_LIST_HEAD(lists, {blocked(i)})
  /\ UNCHANGED << running, state, register_esp, remaining_quantum, idVars, fault >>

(* The checks that open the other three calls.  The first one lets through *)
(* the number NUM_SEM, which is no element of the array: semafors[NUM_SEM] *)
(* is whatever follows it, and may look like a semaphore of this process.  *)
InRange(semID) == ~ (semID > NUM_SEM \/ semID < 0)

(* Mutant: a semaphore of another process may be used.                     *)
MutAnyOwner(semID) == semID \in SemIndex /\ sem[semID].semid = semID

Usable(semID) ==
  /\ semID \in SemIndex
  /\ sem[semID].PID = PID[running]
  /\ sem[semID].semid = semID

UseBeyondArray(semID) ==
  /\ Syscall
  /\ InRange(semID)
  /\ semID \notin SemIndex
  /\ fault' = "sem_index"
  /\ UNCHANGED << schedVars, idVars, sem >>

(* Mutant: off by one, the last permit blocks.                             *)
MutBlocksAtZero(count) == count <= 0

MustBlock(count) == count < 0

BlockLists(semID) == list_add(lists, running, blocked(semID))

sys_semWait(semID) ==
  /\ Syscall
  /\ InRange(semID)
  /\ Usable(semID)
  /\ sem' = [sem EXCEPT ![semID].count = @ - 1]
  /\ \/ /\ MustBlock(sem[semID].count - 1)
        /\ sched_next_rr(BlockLists(semID), [state EXCEPT ![running] = "ST_BLOCKED"], "sem")
     \/ /\ ~ MustBlock(sem[semID].count - 1)
        /\ UNCHANGED << schedVars, fault >>
  /\ UNCHANGED idVars

(* Mutant: off by one, a free permit is taken for a blocked thread.        *)
MutWakesAtOne(count) == count <= 1

MustWake(count) == count <= 0

(* The woken thread goes to the front of the ready queue.  If nobody is    *)
(* blocked although the counter says so, the list head itself is taken for *)
(* a task and linked in the ready queue.                                   *)
sys_semSignal(semID) ==
  /\ Syscall
  /\ InRange(semID)
  /\ Usable(semID)
  /\ sem[semID].count < MaxCount
  /\ sem' = [sem EXCEPT ![semID].count = @ + 1]
  /\ \/ /\ MustWake(sem[semID].count + 1)
        /\ ~ list_empty(lists, blocked(semID))
        /\ LET l == list_first(lists, blocked(semID))
           IN /\ lists' = list_add(list_del_first(lists, blocked(semID)), l, readyqueue)
              /\ state' = [state EXCEPT ![l] = "ST_READY"]
        /\ fault' = "none"
     \/ /\ MustWake(sem[semID].count + 1)
        /\ list_empty(lists, blocked(semID))
        /\ fault' = "empty_wakeup"
        /\ UNCHANGED << lists, state >>
     \/ /\ ~ MustWake(sem[semID].count + 1)
        /\ UNCHANGED << lists, state, fault >>
  /\ UNCHANGED << running, register_esp, remaining_quantum, idVars >>

(* Mutant: the blocked threads are made ready and left where they are.     *)
MutLeavesBlocked(semID) ==
  /\ Syscall
  /\ InRange(semID)
  /\ Usable(semID)
  /\ sem' = [sem EXCEPT ![semID] = NoSem]
  /\ state' = [t \in Task |-> IF t \in Members(lists, blocked(semID)) THEN "ST_READY"
                                                                     ELSE state[t]]
  /\ UNCHANGED << lists, running, register_esp, remaining_quantum, idVars, fault >>

(* All the blocked threads go to the end of the ready queue.               *)
sys_semDestroy(semID) ==
  /\ Syscall
  /\ InRange(semID)
  /\ Usable(semID)
  /\ sem' = [sem EXCEPT ![semID] = NoSem]
  /\ lists' = list_move_all(lists, blocked(semID), readyqueue)
  /\ state' = [t \in Task |-> IF t \in Members(lists, blocked(semID)) THEN "ST_READY"
                                                                     ELSE state[t]]
  /\ UNCHANGED << running, register_esp, remaining_quantum, idVars, fault >>

-----------------------------------------------------------------------------
Next ==
  \/ Clock
  \/ sys_yield
  \/ \E result \in ForkResults : sys_fork(result)
  \/ \E result \in {"ok", "EAGAIN", "page_fault"} : sys_threadCreate(result)
  \/ sys_exit
  \/ sys_threadExit
  \/ \E value \in SemValues : sys_semCreate(value)
  \/ \E semID \in SemIds : UseBeyondArray(semID)
  \/ \E semID \in SemIds : sys_semWait(semID)
  \/ \E semID \in SemIds : sys_semSignal(semID)
  \/ \E semID \in SemIds : sys_semDestroy(semID)

Spec == Init /\ [][Next]_vars

(* The timer interrupts for ever: IF is set in user code and in cpu_idle,  *)
(* and the kernel always returns to one of them.  No call is ever forced   *)
(* on a program.                                                           *)
FairSpec == Spec /\ WF_vars(Clock)

-----------------------------------------------------------------------------
(* Type invariant.  A counter of ticks never leaves 1 .. DEFAULT_QUANTUM   *)
(* between two handlers, although needs_sched_rr tests it against zero.    *)
TypeOK ==
  /\ lists \in [ListHead -> Seq(Task)]
  /\ running \in Task
  /\ state \in [Task -> state_t]
  /\ PID \in [Task -> Int]
  /\ TID \in [Task -> Int]
  /\ register_esp \in [Task -> Context]
  /\ remaining_quantum \in 1 .. DEFAULT_QUANTUM
  /\ sem \in [SemIndex -> sem_t]
  /\ global_PID \in Int
  /\ global_TID \in Int
  /\ fault \in Fault

Ready == Members(lists, readyqueue)
Free == Members(lists, freequeue)
Blocked == UNION {Members(lists, blocked(i)) : i \in SemIndex}
Linked == Ready \cup Free \cup Blocked

(* The single node of a task_struct is linked in one list and one place at *)
(* most, and the running task is in none: update_process_state_rr, the     *)
(* semaphore calls and the exit calls link it without looking whether it   *)
(* already is somewhere, which would tie two queues together.              *)
ListDiscipline ==
  /\ \A h \in ListHead : IsInjective(lists[h])
  /\ \A g, h \in ListHead : g # h => Members(lists, g) \cap Members(lists, h) = {}
  /\ running \notin Linked

(* The field state agrees with the queue the task is in: the scheduler     *)
(* decides by the field whether to unlink a node.  (A free task structure  *)
(* keeps the state of its last owner, or of a parent whose fork failed.)   *)
StateMatchesQueue ==
  /\ state[running] = "ST_RUN"
  /\ \A t \in Free : state[t] # "ST_BLOCKED"
  /\ \A t \in Ready : state[t] = "ST_READY"
  /\ \A t \in Blocked : state[t] = "ST_BLOCKED"

(* idle_task is in no queue, and runs only when no other task is ready.    *)
IdleOnlyWhenNothingReady ==
  /\ idle_task \notin Linked
  /\ running = idle_task => Ready = {}

(* No two tasks in use have both the same PID and the same TID, although   *)
(* a child process inherits the TID, a thread the PID, and both numbers    *)
(* stay behind in task structures that are given back.  (Only a crash in   *)
(* the middle of sys_fork leaves a copy of the parent behind.)             *)
UniqueIds ==
  fault # "page_fault" =>
    \A t, u \in Task \ Free : t # u => << PID[t], TID[t] >> # << PID[u], TID[u] >>

(* A task that waits for the processor has a stack to return to, and one   *)
(* that waits for a semaphore will return from sys_semWait.  The only task *)
(* ever switched to at a position that is no longer a context is one that  *)
(* calls sys_yield while nobody else is ready, and so is switched to       *)
(* itself.                                                                 *)
ContextMatchesState ==
  /\ \A t \in Ready : register_esp[t] \in {"fork", "thread", "clock", "yield", "sem"}
  /\ \A t \in Blocked : register_esp[t] = "sem"
  /\ running # idle_task => register_esp[idle_task] = "idle"
  /\ fault = "stale_esp" =>
       running # idle_task /\ Ready = {} /\ register_esp[running] = "yield"

(* A task structure is never lost: it runs, or is idle_task, or hangs from *)
(* a list.  The exceptions are threads that were blocked when a fork       *)
(* re-initialized the semaphores, and a crash while a task is created.     *)
SlotsAccountedFor ==
  \A t \in Task \ {idle_task, running} :
     t \in Linked \/ state[t] = "ST_BLOCKED" \/ fault = "page_fault"

(* A semaphore created with a negative value starts below zero with nobody *)
(* blocked.                                                                *)
Debt(i) == IF sem[i].value < 0 THEN sem[i].value ELSE 0

(* A counter below zero, or below the negative value it started with, is   *)
(* below it by the number of blocked threads, and otherwise there are      *)
(* none; an unused semaphore has no queue; and only threads of the process *)
(* that created the semaphore wait on it.  sys_semSignal relies on the     *)
(* first part when it takes the first blocked thread without asking        *)
(* whether there is one.                                                   *)
SemCountMatchesBlocked ==
  \A i \in SemIndex :
     /\ sem[i] = NoSem \/ sem[i].semid = i
     /\ sem[i].count < Debt(i) => Len(lists[blocked(i)]) = Debt(i) - sem[i].count
     /\ sem[i].count >= Debt(i) => lists[blocked(i)] = << >>
     /\ \A t \in Members(lists, blocked(i)) : PID[t] = sem[i].PID

(* A step loses no task: who ran or hung from a list runs or hangs from a  *)
(* list afterwards.  The exceptions are the threads blocked when sys_fork  *)
(* re-initializes the semaphores, and a crash while a task is created.     *)
NoTaskLost ==
  [][\A t \in (Linked \cup {running}) \ {idle_task} :
       \/ t \in Linked' \cup {running'}
       \/ t \in Blocked /\ \A i \in SemIndex : sem'[i] = NoSem
       \/ fault' = "page_fault"]_vars

(* Once idle_task runs it runs for ever: no interrupt handler makes a task *)
(* ready.                                                                  *)
IdleIsFinal == [][running = idle_task => running' = idle_task]_vars

(* A ready task never overtakes another: when u is behind t in the ready   *)
(* queue, u stays behind t as long as t is in the queue.                   *)
NoOvertaking ==
  [][\A i, j \in DOMAIN lists[readyqueue] :
       LET t == lists[readyqueue][i]
           u == lists[readyqueue][j]
       IN i < j /\ t \in Range(lists[readyqueue]')
            => \E k, m \in DOMAIN lists[readyqueue]' :
                  k < m /\ lists[readyqueue]'[k] = t /\ lists[readyqueue]'[m] = u]_vars

(* A blocked thread is only ever made ready by a thread of its own process.*)
WokenByOwnProcess ==
  [][\A t \in Task : state[t] = "ST_BLOCKED" /\ state'[t] = "ST_READY"
        => PID[t] = PID[running]]_vars

(* A semaphore in use changes only in steps of the process that created    *)
(* it: "solo el proceso que lo ha creado puede usarlo" (sys.c:506).        *)
OwnerOnly ==
  [][\A i \in SemIndex : sem[i] # NoSem /\ sem'[i] # sem[i]
        => sem[i].PID = PID[running]]_vars

(* When the counter is not positive after sys_semSignal has raised it,     *)
(* "hay almenos un thread bloqueado" (sys.c:523).  The exception is the    *)
(* first signal without a wait of its own on a semaphore that was created  *)
(* with a negative value, which sys_semCreate does not refuse.             *)
SignalFindsThread ==
  fault = "empty_wakeup" =>
    \E i \in SemIndex : sem[i].value < 0 /\ sem[i].count = sem[i].value + 1

(* A ready task runs, or the kernel stops: round robin starves nobody.     *)
ReadyEventuallyRuns ==
  \A t \in Task : (t \in Ready) ~> (running = t \/ fault # "none")
=============================================================================
