---------------------------- MODULE EarlyKernel ----------------------------
(***************************************************************************)
(* The earlier kernel, zeOSpparri: its round robin, fork, exit, and the    *)
(* calls block and unblock.  Handlers run with interrupts disabled, so     *)
(* that each one is a single action.                                       *)
(*                                                                         *)
(* Its lists are modelled with their pointers.  A task_struct has a single *)
(* node, and sys_fork links it first in the list kids of the parent and    *)
(* then, without unlinking it, in the ready queue.  From then on the list  *)
(* kids leads into whatever queue the child is in.                         *)
(***************************************************************************)
EXTENDS Integers, FiniteSets

CONSTANTS
  NR_TASKS,    \* number of task structures
  QUANTUM,     \* quantum of every task, 1000 in the code
  Pids,        \* arguments of sys_unblock
  MaxPID,      \* bound: sys_fork creates no PID above it
  MaxPending   \* bound: sys_unblock raises no pending_unblocks above it

ASSUME EarlyAssumption ==
  /\ NR_TASKS \in Nat /\ NR_TASKS >= 2
  /\ QUANTUM \in Nat \ {0}
  /\ Pids \subseteq Nat \ {0}
  /\ MaxPID \in Int /\ MaxPending \in Int

Task == 0 .. NR_TASKS - 1

(* init_sched puts each task in front of the free queue, so the last ones  *)
(* are taken first.                                                        *)
idle_task == NR_TASKS - 1
task_1 == NR_TASKS - 2

(* The heads.  The node of task t is the cell t.                           *)
freequeue == -1
readyqueue == -2
blocked == -3
kids(t) == NR_TASKS + t

Cells == {freequeue, readyqueue, blocked} \cup Task \cup {kids(t) : t \in Task}

INSTANCE ListPointers WITH Cell <- Cells

(* The variable fault is "none" until the kernel stops, and then says why: *)
(* "null", a NULL pointer is followed; "head", a list head is taken for a  *)
(* task; "endless", a walk never ends; "itself", a task is switched to     *)
(* from itself; "no_frame", there is no frame although nobody looks.       *)
(* Interrupts are disabled, and the handler of page faults does not return.*)

VARIABLES
  lists,             \* the pointers of all cells
  running,           \* current()
  status,            \* the field status of each task_struct
  PID,               \* the field PID
  dad,               \* the field dad
  pending_unblocks,  \* the field pending_unblocks
  qticks,            \* ticks left; every negative value is -1 here
  sumPID,            \* the next PID
  fault,             \* why the kernel has stopped, if it has
  tangled            \* history: a fork has written in a queue it does not own

taskVars == << status, PID, dad, pending_unblocks >>
vars == << lists, running, taskVars, qticks, sumPID, fault, tangled >>

-----------------------------------------------------------------------------
(* Initialization.                                                         *)

(* The task array is filled with zeros before.                             *)
init_sched ==
  LET zero == [next |-> [c \in Cells |-> NULL], prev |-> [c \in Cells |-> NULL]]
      heads == INIT_LIST_HEAD(INIT_LIST_HEAD(INIT_LIST_HEAD(zero, freequeue),
                                             readyqueue), blocked)
      add[i \in 0 .. NR_TASKS] ==
        IF i = 0 THEN heads ELSE list_add(add[i - 1], i - 1, freequeue)
  IN add[NR_TASKS]

init_idle(p) == INIT_LIST_HEAD(list_del(p, list_first(p, freequeue)), kids(idle_task))

init_task1(p) == INIT_LIST_HEAD(list_del(p, list_first(p, freequeue)), kids(task_1))

(* The other fields of the task structures the two have filled in.         *)
Init ==
  /\ lists = init_task1(init_idle(init_sched))
  /\ running = task_1
  /\ status = [t \in Task |-> IF t = idle_task THEN "ST_READY" ELSE "ST_RUN"]
  /\ PID = [t \in Task |-> IF t = task_1 THEN 1 ELSE 0]
  /\ dad = [t \in Task |-> NULL]
  /\ pending_unblocks = [t \in Task |-> 0]
  /\ qticks = QUANTUM
  /\ sumPID = 2
  /\ fault = "none"
  /\ tangled = FALSE

-----------------------------------------------------------------------------
(* Scheduling.  p and st are the pointers and the states the caller left.  *)

Stop(why) ==
  /\ fault' = why
  /\ UNCHANGED << lists, running, taskVars, qticks, sumPID, tangled >>

(* Mutant: the chosen task stays in the ready queue.                       *)
MutKeepsNode(p, c) == p

(* update_process_state_rr of a task that is ready.                        *)
Unqueue(p, c) == list_del(p, c)

(* inner_task_switch hands over the kernel_esp saved the time before, so   *)
(* that a task that is switched to from itself returns to an old place.    *)
task_switch(c) == IF c = running THEN "itself" ELSE "none"

(* How the switch to the cell c ends.  sched_next_rr calls                 *)
(* update_process_state_rr(c, NULL): a task that is ST_RUN would be linked *)
(* in a list at NULL, one that is ST_BLOCKED stays as it is.               *)
SwitchResult(p, st, c) ==
  IF c \notin Task THEN "head"
  ELSE IF c = idle_task THEN task_switch(c)
  ELSE IF st[c] = "ST_RUN" \/ (st[c] = "ST_READY" /\ ~ CanDel(p, c)) THEN "null"
  ELSE task_switch(c)

sched_next_rr(p, st) ==
  LET c == IF list_empty(p, readyqueue) THEN idle_task ELSE list_first(p, readyqueue)
      takes == c \in Task \ {idle_task} /\ st[c] = "ST_READY" /\ CanDel(p, c)
  IN /\ fault' = SwitchResult(p, st, c)
     /\ lists' = IF takes THEN Unqueue(p, c) ELSE p
     /\ status' = IF takes THEN [st EXCEPT ![c] = "ST_RUN"] ELSE st
     /\ running' = IF fault' = "none" THEN c ELSE running
     /\ qticks' = QUANTUM

(* Mutant: the tick is not counted.                                        *)
MutNotCounted == qticks

(* update_sched_data_rr.  (The code counts down from zero for ever, and    *)
(* would reach a positive number after 2^31 ticks; that is left out.)      *)
Decremented == IF qticks < 0 THEN qticks ELSE qticks - 1

needs_sched_rr(q) ==
  \/ q = 0 /\ ~ list_empty(lists, readyqueue)
  \/ status[running] = "ST_BLOCKED"

(* update_process_state_rr(current(), &readyqueue).                        *)
ReadyLists ==
  CASE status[running] = "ST_RUN" -> list_add_tail(lists, running, readyqueue)
    [] status[running] = "ST_READY" -> list_del(lists, running)
    [] OTHER -> lists

ReadyStates ==
  CASE status[running] = "ST_RUN" -> [status EXCEPT ![running] = "ST_READY"]
    [] status[running] = "ST_READY" -> [status EXCEPT ![running] = "ST_RUN"]
    [] OTHER -> status

(* clock_routine: zeos_ticks and scheduler.                                *)
Clock ==
  /\ fault = "none"
  /\ \/ /\ ~ needs_sched_rr(Decremented)
        /\ qticks' = Decremented
        /\ UNCHANGED << lists, running, status, fault >>
     \/ /\ needs_sched_rr(Decremented)
        /\ sched_next_rr(ReadyLists, ReadyStates)
  /\ UNCHANGED << PID, dad, pending_unblocks, sumPID, tangled >>

Syscall == fault = "none" /\ running # idle_task

-----------------------------------------------------------------------------
(* Processes.                                                              *)

FreeTask == list_first(lists, freequeue)

(* The pointers after the child was linked in kids and in the ready queue. *)
LinkedChild(child) ==
  LET p == INIT_LIST_HEAD(list_del(lists, child), kids(child))
  IN list_add_tail(list_add_tail(p, child, kids(running)), child, readyqueue)

(* Linking the child in kids makes the node of the child before point to   *)
(* it.  That is undone at once if that node is the last of the ready queue.*)
Harmless ==
  \/ list_empty(lists, kids(running))
  \/ lists.prev[kids(running)] = lists.prev[readyqueue]

(* How the memory half of the call, in module EarlyMemory, ends is an      *)
(* input.  A free task structure that is none, or not linked, stops the    *)
(* kernel.                                                                 *)
sys_fork(result) ==
  LET child == FreeTask
  IN /\ Syscall
     /\ ~ list_empty(lists, freequeue)
     /\ sumPID < MaxPID
     /\ \/ /\ child \in Task /\ CanDel(lists, child)
           /\ lists' = LinkedChild(child)
           /\ status' = [status EXCEPT ![child] = "ST_READY"]
           /\ PID' = [PID EXCEPT ![child] = sumPID]
           /\ dad' = [dad EXCEPT ![child] = running]
           /\ pending_unblocks' = [pending_unblocks EXCEPT ![child] = 0]
           /\ sumPID' = sumPID + 1
           /\ tangled' = (tangled \/ ~ Harmless)
           /\ fault' = result
           /\ UNCHANGED << running, qticks >>
        \/ /\ child \notin Task \/ ~ CanDel(lists, child)
           /\ Stop(IF child \in Task THEN "null" ELSE "head")

(* With children: the loop that hands them over to idle_task deletes the   *)
(* node it stands on, and goes on at NULL, where it faults or, if page     *)
(* zero is mapped, turns for ever.  The structure keeps its PID and state. *)
sys_exit ==
  /\ Syscall
  /\ \/ /\ ~ list_empty(lists, kids(running))
        /\ LET e == list_first(lists, kids(running))
               p == list_add_tail(lists, e, kids(idle_task))
           IN /\ lists' = list_del(p, e)
              /\ dad' = [dad EXCEPT ![e] = idle_task]
        /\ fault' = "null"
        /\ UNCHANGED << running, status, qticks >>
     \/ /\ list_empty(lists, kids(running))
        /\ sched_next_rr(list_add_tail(lists, running, freequeue), status)
        /\ UNCHANGED dad
  /\ UNCHANGED << PID, pending_unblocks, sumPID, tangled >>

Pending(pu) == pu # 0

sys_block ==
  /\ Syscall
  /\ \/ /\ ~ Pending(pending_unblocks[running])
        /\ sched_next_rr(list_add_tail(lists, running, blocked),
                         [status EXCEPT ![running] = "ST_BLOCKED"])
        /\ UNCHANGED pending_unblocks
     \/ /\ Pending(pending_unblocks[running])
        /\ pending_unblocks' = [pending_unblocks EXCEPT ![running] = @ - 1]
        /\ UNCHANGED << lists, running, status, qticks, fault >>
  /\ UNCHANGED << PID, dad, sumPID, tangled >>

(* Where the walk over kids stops: at the first task with that PID, at the *)
(* end, or nowhere.  On its way it may pass the head of a queue.  What     *)
(* precedes that head in memory, read as a PID, is an address, or zero in  *)
(* front of blocked: it is no argument.  (In front of the kids of a task   *)
(* it would be the field status, but the walk passes no other kids.)       *)
Search(pid) ==
  LET pos == list_for_each(lists, kids(running))
      stops == {n \in DOMAIN pos : \/ pos[n] \in {kids(running), NULL}
                                   \/ pos[n] \in Task /\ PID[pos[n]] = pid}
  IN {pos[n] : n \in {m \in stops : \A k \in stops : m <= k}}

(* A child that is not blocked is not credited with anything: the counter  *)
(* that goes up is the one of the caller.                                  *)
sys_unblock(pid) ==
  /\ Syscall
  /\ \/ /\ Search(pid) \in {{}, {NULL}}
        /\ Stop(IF Search(pid) = {} THEN "endless" ELSE "null")
     \/ \E t \in Search(pid) \cap Task :
          /\ status[t] = "ST_BLOCKED"
          /\ CanDel(lists, t)
          /\ lists' = list_add_tail(list_del(lists, t), t, readyqueue)
          /\ status' = [status EXCEPT ![t] = "ST_READY"]
          /\ UNCHANGED << running, PID, dad, pending_unblocks, qticks, sumPID, fault, tangled >>
     \/ \E t \in Search(pid) \cap Task :
          /\ status[t] # "ST_BLOCKED"
          /\ pending_unblocks[running] < MaxPending
          /\ pending_unblocks' = [pending_unblocks EXCEPT ![running] = @ + 1]
          /\ UNCHANGED << lists, running, status, PID, dad, qticks, sumPID, fault, tangled >>

-----------------------------------------------------------------------------
Next ==
  \/ Clock
  \/ sys_fork("none")
  \/ sys_exit
  \/ sys_block
  \/ \E pid \in Pids : sys_unblock(pid)

Spec == Init /\ [][Next]_vars

-----------------------------------------------------------------------------
Others == Task \ {idle_task, running}

(* Although every child hangs from two lists, the three queues stay proper *)
(* lists, agree with the field status and hold every task structure but    *)
(* the running one and idle_task, as long as nobody forks again while its  *)
(* last child is elsewhere than at the end of the ready queue.             *)
QueuesIntact ==
  fault = "none" /\ ~ tangled =>
    /\ \A h \in {freequeue, readyqueue, blocked} : ProperList(lists, h)
    /\ Visited(lists, readyqueue) = {t \in Others : status[t] = "ST_READY"}
    /\ Visited(lists, blocked) = {t \in Others : status[t] = "ST_BLOCKED"}
    /\ Visited(lists, freequeue) = {t \in Others : status[t] = "ST_RUN"}

(* Only a process that has forked can stop the kernel: by its exit, or by  *)
(* a call of unblock whose walk does not come back to its list of kids.    *)
OnlyParentsStop ==
  fault \notin {"none", "no_frame"} /\ ~ tangled =>
    fault \in {"null", "endless"} /\ ~ list_empty(lists, kids(running))

(* A task in the ready queue runs, unless the quantum of the running task  *)
(* has passed zero with an empty ready queue: from then on needs_sched_rr  *)
(* never finds it at zero, and only that task itself gives way.            *)
StarvesOnlyBelowZero ==
  \A t \in Task : (t \in Visited(lists, readyqueue))
                     ~> (running = t \/ qticks < 0 \/ tangled \/ fault # "none")

(* sys_unblock makes ready only children of the caller: "comprobar que     *)
(* hijos bloqueados" (sys.c:213).                                          *)
UnblocksOwnChild ==
  [][\A t \in Task : status[t] = "ST_BLOCKED" /\ status'[t] = "ST_READY"
        => dad[t] = running]_vars
=============================================================================
