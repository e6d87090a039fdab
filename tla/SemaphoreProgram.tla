-------------------------- MODULE SemaphoreProgram --------------------------
(***************************************************************************)
(* The program of ZeOSSysenter/zeos, user.c, as a client of the kernel of  *)
(* module Processes: main creates a semaphore with one permit and threads  *)
(* that count in a shared variable, one inside the semaphore at a time,    *)
(* and destroys the semaphore after a while, whoever may be inside.        *)
(*                                                                         *)
(* A delay is the time until a task takes its next step, and writes to the *)
(* screen change nothing here.  The frames suffice for all the threads.    *)
(***************************************************************************)
EXTENDS Processes, FiniteSets

CONSTANT NUM_THREADS  \* threads main creates, 5 in the code

(* The first semaphore, which is what main gets.                           *)
semid == 0

ASSUME ProgramAssumption ==
  /\ NUM_THREADS \in Nat /\ NUM_THREADS <= NR_TASKS - 2
  /\ NUM_SEM >= 1 /\ NUM_THREADS <= MaxTID - 1000 /\ MaxCount >= 1
  /\ 1 \in SemValues /\ SemValues \subseteq Nat /\ semid \in SemIds

VARIABLES
  pc,            \* what a task does next; "none" for one that never began
  contador,      \* the shared counter
  valor_actual,  \* the local variable of each thread
  created        \* threads that main has created so far

progVars == << pc, contador, valor_actual, created >>
progAllVars == << vars, progVars >>

ProgInit ==
  /\ pc = [t \in Task |-> IF t = init_task THEN "create" ELSE "none"]
  /\ contador = 0
  /\ valor_actual = [t \in Task |-> 0]
  /\ created = 0

Goes(t, from, to) == running = t /\ pc[t] = from /\ pc' = [pc EXCEPT ![t] = to]

-----------------------------------------------------------------------------
(* main.                                                                   *)

MainCreate(t) ==
  /\ Goes(t, "create", "threads")
  /\ sys_semCreate(1)
  /\ UNCHANGED << contador, valor_actual, created >>

(* A thread enters through wrappersito_func.                               *)
MainThread(t) ==
  /\ running = t /\ pc[t] = "threads"
  /\ created < NUM_THREADS
  /\ sys_threadCreate("ok")
  /\ created' = created + 1
  /\ pc' = [pc EXCEPT ![FreeTask] = "wait"]
  /\ UNCHANGED << contador, valor_actual >>

(* main then turns round for ever.                                         *)
MainDestroy(t) ==
  /\ created = NUM_THREADS
  /\ Goes(t, "threads", "turns")
  /\ sys_semDestroy(semid)
  /\ UNCHANGED << contador, valor_actual, created >>

-----------------------------------------------------------------------------
(* thread_function.                                                        *)

(* Mutant: the thread does not wait.                                       *)
MutNoWait(t) ==
  /\ Goes(t, "wait", "read")
  /\ UNCHANGED << vars, contador, valor_actual, created >>

(* Nobody looks at what semWait and semSignal return.  Without semaphore   *)
(* they fail and the thread goes on.                                       *)
ThreadWait(t) ==
  /\ Goes(t, "wait", "read")
  /\ sys_semWait(semid) \/ (Syscall /\ ~ Usable(semid) /\ UNCHANGED vars)
  /\ UNCHANGED << contador, valor_actual, created >>

ThreadRead(t) ==
  /\ Goes(t, "read", "write")
  /\ valor_actual' = [valor_actual EXCEPT ![t] = contador]
  /\ UNCHANGED << vars, contador, created >>

ThreadWrite(t) ==
  /\ Goes(t, "write", "signal")
  /\ contador' = valor_actual[t] + 1
  /\ UNCHANGED << vars, valor_actual, created >>

ThreadSignal(t) ==
  /\ Goes(t, "signal", "exit")
  /\ sys_semSignal(semid) \/ (Syscall /\ ~ Usable(semid) /\ UNCHANGED vars)
  /\ UNCHANGED << contador, valor_actual, created >>

ThreadExit(t) ==
  /\ Goes(t, "exit", "ended")
  /\ sys_threadExit
  /\ UNCHANGED << contador, valor_actual, created >>

-----------------------------------------------------------------------------
Step(t) ==
  \/ MainCreate(t) \/ MainThread(t) \/ MainDestroy(t)
  \/ ThreadWait(t) \/ ThreadRead(t) \/ ThreadWrite(t) \/ ThreadSignal(t) \/ ThreadExit(t)

Tick == Clock /\ UNCHANGED progVars

ProgNext == Tick \/ \E t \in Task : Step(t)

(* The timer interrupts for ever, and a task that gets the processor again *)
(* and again goes on: a quantum is ten ticks, time for many instructions.  *)
ProgSpec ==
  /\ Init /\ ProgInit /\ [][ProgNext]_progAllVars
  /\ WF_progAllVars(Tick)
  /\ \A t \in Task : SF_progAllVars(Step(t))

-----------------------------------------------------------------------------
(* As long as the semaphore is there no increment is lost: preempted       *)
(* between the read and the write of contador, a thread finds it unchanged.*)
CountsWhileSemaphore ==
  sem[semid] # NoSem =>
    contador = Cardinality({t \in Task : pc[t] \in {"signal", "exit", "ended"}})

(* The program never stops the kernel: no wake-up finds an empty queue, no *)
(* task is switched to with a stack of an older call.                      *)
KernelGoesOn == fault = "none"

(* All the threads end, whether semDestroy finds them before semWait,      *)
(* blocked in it, inside the semaphore or gone.                            *)
AllThreadsEnd == <>(Cardinality({t \in Task : pc[t] = "ended"}) = NUM_THREADS)
=============================================================================
