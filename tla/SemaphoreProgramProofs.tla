----------------------- MODULE SemaphoreProgramProofs -----------------------
(***************************************************************************)
(* Proofs about module SemaphoreProgram, for every number of threads: the  *)
(* semaphore protects the counter as long as it exists, and the program    *)
(* never stops the kernel.                                                 *)
(***************************************************************************)
EXTENDS SemaphoreProgram, ProcessesProofs, FiniteSetTheorems

ThreadPC == {"wait", "read", "write", "signal", "exit", "ended"}
Counted == {t \in Task : pc[t] \in {"signal", "exit", "ended"}}
Waiting == Members(lists, blocked(semid))

ProgTypeOK ==
  /\ pc \in [Task -> ThreadPC \cup {"create", "threads", "turns", "none"}]
  /\ contador \in Int
  /\ valor_actual \in [Task -> Int]
  /\ created \in 0 .. NUM_THREADS

(* Threads get the task structures in order, and those never used come     *)
(* first in the free queue: a structure is not used twice.                 *)
FreshFirst ==
  /\ Len(lists[freequeue]) >= NR_TASKS - 2 - created
  /\ \A i \in 1 .. NR_TASKS - 2 - created : lists[freequeue][i] = created + 1 + i

(* Who executes what.                                                      *)
Roles ==
  /\ pc[idle_task] = "none"
  /\ pc[init_task] \in {"create", "threads", "turns"}
  /\ \A t \in Task \ {idle_task, init_task} :
        pc[t] \in (IF t <= created + 1 THEN ThreadPC ELSE {"none"})
  /\ \A t \in Task : pc[t] # "none" => PID[t] = 1
  /\ pc[init_task] = "create" => created = 0 /\ contador = 0 /\ sem[semid] = NoSem

(* The threads inside the semaphore.                                       *)
Inside == {t \in Task : pc[t] \in {"read", "write", "signal"} /\ t \notin Waiting}

(* One thread at a time is inside, a permit is left only when there is     *)
(* none, and who has read the counter finds it unchanged.                  *)
OneInside ==
  sem[semid] # NoSem =>
    /\ sem[semid].PID = 1
    /\ sem[semid].count <= 1
    /\ \A t, u \in Inside : t = u
    /\ Inside = {} <=> sem[semid].count = 1
    /\ \A t \in Waiting : pc[t] = "read"
    /\ \A t \in Task : pc[t] = "write" => valor_actual[t] = contador
    /\ contador = Cardinality(Counted)

(* The program creates no semaphore with a negative value.                 *)
NoDebt == \A i \in SemIndex : sem[i].value >= 0

ProgInv ==
  /\ Inv
  /\ SemCountMatchesBlocked
  /\ NoDebt
  /\ KernelGoesOn
  /\ ProgTypeOK
  /\ FreshFirst
  /\ Roles
  /\ OneInside

(* The semaphore of the program is one of the array.                       *)
LEMMA TheSemaphore ==
  /\ semid \in SemIndex /\ semid \in SemIds /\ 1 \in SemValues /\ SemValues \subseteq Nat
  /\ NUM_THREADS \in Nat /\ NUM_THREADS <= NR_TASKS - 2
  BY ProgramAssumption, NUM_SEM_Assumption DEF SemIndex, semid

(* The threads that have counted are finitely many.                        *)
LEMMA CountedFinite == IsFiniteSet(Counted)
<1>1. IsFiniteSet(Task)
  BY FS_Interval, NR_TASKS_Assumption DEF Task
<1>2. QED
  BY <1>1, FS_Subset DEF Counted

-----------------------------------------------------------------------------
(* A switch to a task other than the running one finds a saved context.    *)
LEMMA SwitchSound ==
  ASSUME Inv, running # idle_task, NEW L, NEW st, NEW path,
         sched_next_rr(L, st, path),
         \/ L[readyqueue] = lists[readyqueue]
         \/ ~ list_empty(lists, readyqueue) /\ L[readyqueue] = Append(lists[readyqueue], running)
  PROVE  fault' = "none"
<1> USE Heads
<1>1. /\ lists \in [ListHead -> Seq(Task)]
      /\ lists[readyqueue] \in Seq(Task)
      /\ Disciplined(lists, ListHead, Task)
      /\ running \notin Ready
      /\ register_esp[idle_task] = "idle"
      /\ \A t \in Ready : register_esp[t] # "zero"
  BY DisciplineOfInv DEF Inv, TypeOK, ContextMatchesState, Ready
<1> DEFINE none == list_empty(L, readyqueue)
           new == IF none THEN idle_task ELSE list_first(L, readyqueue)
<1>2. none <=> list_empty(lists, readyqueue)
  BY <1>1, AppendProperties DEF list_empty
<1>3. ASSUME ~ none PROVE list_first(L, readyqueue) \in Ready
  <2>1. list_first(lists, readyqueue) \in Ready
    BY <1>1, <1>2, <1>3, ListDelFirst DEF Ready
  <2>2. list_first(L, readyqueue) = list_first(lists, readyqueue)
    <3>1. Len(lists[readyqueue]) >= 1
      BY <1>1, <1>2, <1>3, EmptySeq, LenProperties DEF list_empty
    <3>2. Append(lists[readyqueue], running)[1] = lists[readyqueue][1]
      BY <1>1, <3>1, AppendProperties DEF Inv, TypeOK
    <3>3. QED
      BY <3>2 DEF list_first
  <2>3. QED
    BY <2>1, <2>2
<1>4. new # running /\ register_esp[new] # "zero"
  BY <1>1, <1>3
<1>5. fault' \in SwitchResults(new, path)
  BY DEF sched_next_rr, task_switch
<1>6. QED
  BY <1>4, <1>5 DEF SwitchResults

(* The steps of the program that leave free queue and semaphores alone.    *)
Alone == SemFrame /\ lists'[freequeue] = lists[freequeue] /\ fault' = "none" /\ PID' = PID

(* The clock changes nothing that the program looks at but who runs.       *)
LEMMA ClockAlone ==
  ASSUME Inv, Clock
  PROVE  Alone
<1> USE Heads
<1>1. SemFrame
  BY ClockFrame
<1>2. fault = "none" /\ PID' = PID
  BY DEF Clock, idVars
<1>3. CASE UNCHANGED << lists, fault >>
  BY <1>1, <1>2, <1>3 DEF Alone
<1>4. CASE sched_next_rr(ReadyLists, ReadyStates, "clock") /\ ~ list_empty(lists, readyqueue)
  <2>1. running # idle_task
    BY <1>4, DisciplineOfInv, EmptyMembers DEF Inv, IdleOnlyWhenNothingReady, Ready
  <2>2. ReadyLists = [lists EXCEPT ![readyqueue] = Append(@, running)]
    BY DEF ReadyLists, Inv, StateMatchesQueue, list_add_tail
  <2>3. lists \in [ListHead -> Seq(Task)]
    BY DEF Inv, TypeOK
  <2>4. /\ ReadyLists[readyqueue] = Append(lists[readyqueue], running)
        /\ ReadyLists[freequeue] = lists[freequeue]
    BY <2>2, <2>3
  <2>5. fault' = "none"
    BY <1>4, <2>1, <2>4, SwitchSound
  <2>6. lists'[freequeue] = ReadyLists[freequeue]
    <3>1. lists' = ReadyLists \/ lists' = [ReadyLists EXCEPT ![readyqueue] = Tail(@)]
      BY <1>4 DEF sched_next_rr, list_del_first
    <3>2. DOMAIN ReadyLists = ListHead
      BY <2>2, <2>3
    <3>3. QED
      BY <3>1, <3>2
  <2>7. QED
    BY <1>1, <1>2, <2>4, <2>5, <2>6 DEF Alone
<1>5. QED
  BY <1>3, <1>4 DEF Clock, needs_sched_rr

(* A step in which memory, roles and semaphore stay as they are.           *)
LEMMA AloneKeeps ==
  ASSUME ProgInv, Alone, UNCHANGED progVars
  PROVE  KernelGoesOn' /\ ProgTypeOK' /\ FreshFirst' /\ Roles' /\ OneInside'
<1>1. UNCHANGED << pc, contador, valor_actual, created, sem, PID >>
  BY DEF progVars, Alone, SemFrame
<1>2. Waiting' = Waiting
  BY TheSemaphore DEF Alone, SemFrame, Waiting, Members
<1>3. Inside' = Inside /\ Counted' = Counted
  BY <1>1, <1>2 DEF Inside, Counted
<1>4. KernelGoesOn' /\ ProgTypeOK' /\ FreshFirst'
  BY <1>1 DEF ProgInv, Alone, KernelGoesOn, ProgTypeOK, FreshFirst
<1>5. Roles'
  BY <1>1 DEF ProgInv, Roles
<1>6. OneInside'
  BY <1>1, <1>2, <1>3 DEF ProgInv, OneInside
<1>7. QED
  BY <1>4, <1>5, <1>6

-----------------------------------------------------------------------------
(* What the program does is allowed to programs.                           *)
LEMMA StepIsCall ==
  ASSUME [ProgNext]_progAllVars
  PROVE  [Next]_vars
<1>1. CASE Tick
  BY <1>1 DEF Tick, Next
<1>2. ASSUME NEW t \in Task, Step(t) PROVE [Next]_vars
  <2>1. CASE MainCreate(t)
    BY <2>1, TheSemaphore DEF MainCreate, Next
  <2>2. CASE MainThread(t)
    BY <2>2 DEF MainThread, Next
  <2>3. CASE MainDestroy(t)
    BY <2>3, TheSemaphore DEF MainDestroy, Next
  <2>4. CASE ThreadWait(t)
    BY <2>4, TheSemaphore DEF ThreadWait, Next
  <2>5. CASE ThreadRead(t) \/ ThreadWrite(t)
    BY <2>5 DEF ThreadRead, ThreadWrite
  <2>6. CASE ThreadSignal(t)
    BY <2>6, TheSemaphore DEF ThreadSignal, Next
  <2>7. CASE ThreadExit(t)
    BY <2>7 DEF ThreadExit, Next
  <2>8. QED
    BY <1>2, <2>1, <2>2, <2>3, <2>4, <2>5, <2>6, <2>7 DEF Step
<1>3. CASE UNCHANGED progAllVars
  BY <1>3 DEF progAllVars
<1>4. QED
  BY <1>1, <1>2, <1>3 DEF ProgNext

(* The queues of the waiting and the free tasks after each kind of step.   *)
Kept == KernelGoesOn' /\ ProgTypeOK' /\ FreshFirst' /\ Roles' /\ OneInside'

(* A thread goes on from one place to the next and touches no free task.   *)
LEMMA ThreadRoles ==
  ASSUME ProgInv, NEW t \in Task, NEW from \in ThreadPC, NEW to \in ThreadPC,
         Goes(t, from, to),
         created' = created, PID' = PID,
         lists'[freequeue] = lists[freequeue],
         contador' \in Int, valor_actual' \in [Task -> Int]
  PROVE  ProgTypeOK' /\ FreshFirst' /\ Roles'
<1>1. /\ pc[t] = from
      /\ pc' = [pc EXCEPT ![t] = to]
      /\ t \notin {idle_task, init_task}
      /\ ProgTypeOK /\ FreshFirst /\ Roles
  BY DEF Goes, ProgInv, Roles, ThreadPC
<1>2. ProgTypeOK'
  BY <1>1 DEF ProgTypeOK
<1>3. FreshFirst'
  BY <1>1 DEF FreshFirst
<1>4. /\ pc'[idle_task] = pc[idle_task] /\ pc'[init_task] = pc[init_task]
      /\ \A u \in Task \ {t} : pc'[u] = pc[u]
      /\ pc'[t] = to
  BY <1>1, Heads DEF ProgTypeOK
<1>5. pc[init_task] # "create"
  <2>1. t <= created + 1
    BY <1>1 DEF Roles, ThreadPC
  <2>2. t >= 2
    BY <1>1 DEF Task, idle_task, init_task
  <2>3. created # 0
    BY <1>1, <2>1, <2>2 DEF ProgTypeOK, Task
  <2>4. QED
    BY <1>1, <2>3 DEF Roles
<1>6. \A u \in Task \ {idle_task, init_task} :
         pc'[u] \in (IF u <= created + 1 THEN ThreadPC ELSE {"none"})
  <2>1. t <= created + 1
    BY <1>1 DEF Roles, ThreadPC
  <2>2. QED
    BY <1>1, <1>4, <2>1 DEF Roles
<1>7. \A u \in Task : pc'[u] # "none" => PID[u] = 1
  BY <1>1, <1>4 DEF Roles, ThreadPC
<1>8. Roles'
  BY <1>1, <1>4, <1>5, <1>6, <1>7 DEF Roles
<1>9. QED
  BY <1>2, <1>3, <1>8

(* Who never owed keeps every debt.                                        *)
LEMMA NoDebtKept ==
  ASSUME Inv, NoDebt
  PROVE  DebtKept
<1>1. \A i \in SemIndex : sem[i].value \in Int
  BY DEF Inv, TypeOK, sem_t
<1>2. QED
  BY <1>1 DEF NoDebt, DebtKept

(* Without debts a signal never stops the kernel.                          *)
LEMMA NoDebtSignal ==
  ASSUME Inv, SemCountMatchesBlocked, NoDebt, NEW semID \in SemIds, sys_semSignal(semID)
  PROVE  fault' = "none"
<1>1. \A i \in SemIndex : sem[i].value \in Int /\ ~ (sem[i].value < 0)
  BY DEF Inv, TypeOK, sem_t, NoDebt
<1>2. QED
  BY <1>1, NoDebtKept, SemSignalCount

(* No call of the program makes a debt.                                    *)
LEMMA NextNoDebt ==
  ASSUME Inv, NoDebt, [Next]_vars
  PROVE  NoDebt'
<1> SUFFICES ASSUME NEW i \in SemIndex PROVE sem'[i].value >= 0
  BY DEF NoDebt
<1>1. sem \in [SemIndex -> sem_t] /\ sem[i].value >= 0
  BY DEF Inv, TypeOK, NoDebt
<1>2. CASE UNCHANGED sem
  BY <1>1, <1>2
<1>3. CASE \E result \in ForkResults : sys_fork(result)
  BY <1>3 DEF sys_fork, NoSem
<1>4. CASE \E value \in SemValues : sys_semCreate(value)
  <2>1. PICK value \in SemValues, k \in SemIndex :
          sem' = [sem EXCEPT ![k] = [semid |-> k, count |-> value, PID |-> PID[running],
                                     value |-> value]]
    BY <1>4 DEF sys_semCreate
  <2>2. value >= 0
    BY TheSemaphore
  <2>3. QED
    BY <1>1, <2>1, <2>2
<1>5. CASE \E semID \in SemIds : sys_semWait(semID) \/ sys_semSignal(semID)
  <2>1. PICK k \in SemIndex : \/ sem' = [sem EXCEPT ![k].count = @ - 1]
                              \/ sem' = [sem EXCEPT ![k].count = @ + 1]
    BY <1>5 DEF sys_semWait, sys_semSignal, Usable
  <2>2. sem'[i].value = sem[i].value
    BY <1>1, <2>1 DEF sem_t
  <2>3. QED
    BY <1>1, <2>2
<1>6. CASE \E semID \in SemIds : sys_semDestroy(semID)
  <2>1. PICK k \in SemIndex : sem' = [sem EXCEPT ![k] = NoSem]
    BY <1>6 DEF sys_semDestroy, Usable
  <2>2. QED
    BY <1>1, <2>1 DEF NoSem
<1>7. QED
  BY <1>2, <1>3, <1>4, <1>5, <1>6
  DEF Next, Clock, sys_yield, sys_threadCreate, sys_exit, sys_threadExit, UseBeyondArray, vars

(* Whoever runs is not waiting, and may use the semaphore while it exists. *)
LEMMA RunningThread ==
  ASSUME ProgInv, running \in Task, pc[running] # "none"
  PROVE  /\ running \notin Waiting
         /\ sem[semid] # NoSem => Usable(semid)
         /\ sem \in [SemIndex -> sem_t]
         /\ sem[semid].count \in Int
<1>1. running \notin Waiting
  BY TheSemaphore, DisciplineOfInv, Heads DEF ProgInv, Waiting
<1>2. sem \in [SemIndex -> sem_t] /\ sem[semid].count \in Int
  BY TheSemaphore DEF ProgInv, Inv, TypeOK, sem_t
<1>3. sem[semid] # NoSem => Usable(semid)
  BY TheSemaphore DEF ProgInv, Usable, SemCountMatchesBlocked, OneInside, Roles
<1>4. QED
  BY <1>1, <1>2, <1>3

(* A thread reads the counter inside the semaphore.                        *)
LEMMA ReadKeeps ==
  ASSUME ProgInv, NEW t \in Task, ThreadRead(t)
  PROVE  Kept
<1>1. /\ UNCHANGED vars /\ UNCHANGED << contador, created >>
      /\ Goes(t, "read", "write")
      /\ running = t /\ pc[t] = "read" /\ pc' = [pc EXCEPT ![t] = "write"]
      /\ valor_actual' = [valor_actual EXCEPT ![t] = contador]
  BY DEF ThreadRead, Goes
<1>2. UNCHANGED << lists, sem, PID, fault >>
  BY <1>1 DEF vars, schedVars, idVars
<1>3. ProgTypeOK
  BY DEF ProgInv
<1>4. ProgTypeOK' /\ FreshFirst' /\ Roles'
  BY <1>1, <1>2, <1>3, ThreadRoles DEF ThreadPC, ProgTypeOK
<1>5. t \notin Waiting
  BY <1>1, RunningThread
<1>6. Waiting' = Waiting /\ Inside' = Inside /\ Counted' = Counted
  BY <1>1, <1>2, <1>3 DEF Waiting, Inside, Counted, ProgTypeOK
<1>7. ASSUME sem[semid] # NoSem
      PROVE  /\ \A u \in Waiting : pc'[u] = "read"
             /\ \A u \in Task : pc'[u] = "write" => valor_actual'[u] = contador
  BY <1>1, <1>3, <1>5, <1>7 DEF ProgInv, OneInside, ProgTypeOK
<1>8. OneInside'
  BY <1>1, <1>2, <1>6, <1>7 DEF ProgInv, OneInside
<1>9. QED
  BY <1>2, <1>4, <1>8 DEF Kept, ProgInv, KernelGoesOn

(* It writes the counter back, one more, and nobody else has read it.      *)
LEMMA WriteKeeps ==
  ASSUME ProgInv, NEW t \in Task, ThreadWrite(t)
  PROVE  Kept
<1>1. /\ UNCHANGED vars /\ UNCHANGED << valor_actual, created >>
      /\ Goes(t, "write", "signal")
      /\ running = t /\ pc[t] = "write" /\ pc' = [pc EXCEPT ![t] = "signal"]
      /\ contador' = valor_actual[t] + 1
  BY DEF ThreadWrite, Goes
<1>2. UNCHANGED << lists, sem, PID, fault >>
  BY <1>1 DEF vars, schedVars, idVars
<1>3. ProgTypeOK
  BY DEF ProgInv
<1>4. ProgTypeOK' /\ FreshFirst' /\ Roles'
  BY <1>1, <1>2, <1>3, ThreadRoles DEF ThreadPC, ProgTypeOK
<1>5. t \notin Waiting
  BY <1>1, RunningThread
<1>6. /\ Waiting' = Waiting /\ Inside' = Inside
      /\ Counted' = Counted \cup {t}
      /\ t \notin Counted
  BY <1>1, <1>2, <1>3 DEF Waiting, Inside, Counted, ProgTypeOK
<1>7. Cardinality(Counted') = Cardinality(Counted) + 1
  BY <1>6, CountedFinite, FS_AddElement
<1>8. ASSUME sem[semid] # NoSem
      PROVE  /\ \A u \in Waiting : pc'[u] = "read"
             /\ \A u \in Task : pc'[u] # "write"
             /\ contador' = Cardinality(Counted')
  <2>1. contador = Cardinality(Counted) /\ valor_actual[t] = contador
    BY <1>1, <1>8 DEF ProgInv, OneInside
  <2>2. \A u \in Waiting : pc'[u] = "read"
    BY <1>1, <1>3, <1>5, <1>8 DEF ProgInv, OneInside, ProgTypeOK
  <2>3. ASSUME NEW u \in Task, pc'[u] = "write" PROVE FALSE
    <3>1. u # t /\ pc[u] = "write"
      BY <1>1, <1>3, <2>3 DEF ProgTypeOK
    <3>2. u \notin Waiting
      BY <1>8, <3>1 DEF ProgInv, OneInside
    <3>3. u \in Inside /\ t \in Inside
      BY <1>1, <1>5, <3>1, <3>2 DEF Inside
    <3>4. QED
      BY <1>8, <3>1, <3>3 DEF ProgInv, OneInside
  <2>4. QED
    BY <1>1, <1>7, <2>1, <2>2, <2>3
<1>9. OneInside'
  BY <1>1, <1>2, <1>6, <1>8 DEF ProgInv, OneInside
<1>10. QED
  BY <1>2, <1>4, <1>9 DEF Kept, ProgInv, KernelGoesOn

(* Without semaphore nothing is promised of the counter.                   *)
LEMMA NoSemaphore ==
  ASSUME sem'[semid] = NoSem
  PROVE  OneInside'
  BY DEF OneInside

(* A thread enters, or blocks because one is inside.                       *)
LEMMA WaitKeeps ==
  ASSUME ProgInv, NEW t \in Task, ThreadWait(t)
  PROVE  Kept
<1> USE Heads, TheSemaphore
<1>1. /\ UNCHANGED << contador, valor_actual, created >>
      /\ Goes(t, "wait", "read")
      /\ running = t /\ pc[t] = "wait" /\ pc' = [pc EXCEPT ![t] = "read"]
      /\ Inv /\ ProgTypeOK /\ fault = "none"
  BY DEF ThreadWait, Goes, ProgInv, KernelGoesOn
<1>2. /\ t \notin Waiting /\ (sem[semid] # NoSem => Usable(semid))
      /\ sem \in [SemIndex -> sem_t] /\ sem[semid].count \in Int
      /\ lists \in [ListHead -> Seq(Task)]
  BY <1>1, RunningThread DEF Inv, TypeOK
<1>3. ASSUME lists'[freequeue] = lists[freequeue], PID' = PID
      PROVE  ProgTypeOK' /\ FreshFirst' /\ Roles'
  BY <1>1, <1>3, ThreadRoles DEF ThreadPC, ProgTypeOK
<1>4. CASE UNCHANGED vars /\ ~ Usable(semid)
  <2>1. UNCHANGED << lists, sem, PID, fault >>
    BY <1>4 DEF vars, schedVars, idVars
  <2>2. OneInside'
    BY <1>2, <1>4, <2>1, NoSemaphore
  <2>3. QED
    BY <1>1, <1>3, <2>1, <2>2 DEF Kept, KernelGoesOn
<1>5. CASE sys_semWait(semid)
  <2>1. /\ running # idle_task /\ PID' = PID
        /\ sem' = [sem EXCEPT ![semid].count = @ - 1]
        /\ sem[semid].semid = semid
    BY <1>5 DEF sys_semWait, Syscall, idVars, Usable
  <2>2. /\ sem[semid] # NoSem
        /\ sem'[semid].count = sem[semid].count - 1
        /\ sem'[semid].PID = sem[semid].PID
    <3>1. NoSem.semid # semid
      BY DEF NoSem, semid
    <3>2. sem[semid] # NoSem
      BY <2>1, <3>1
    <3>3. QED
      BY <1>2, <2>1, <3>2 DEF sem_t
  <2>3. /\ sem[semid].count <= 1 /\ sem[semid].PID = 1
        /\ \A u, v \in Inside : u = v
        /\ Inside = {} <=> sem[semid].count = 1
        /\ \A u \in Waiting : pc[u] = "read"
        /\ \A u \in Task : pc[u] = "write" => valor_actual[u] = contador
        /\ contador = Cardinality(Counted)
    BY <2>2 DEF ProgInv, OneInside
  <2>4. /\ Counted' = Counted
        /\ \A u \in Task : pc'[u] = "write" => valor_actual'[u] = contador'
    BY <1>1, <2>3 DEF Counted, ProgTypeOK
  <2>5. CASE MustBlock(sem[semid].count - 1)
    <3>1. sched_next_rr(BlockLists(semid), [state EXCEPT ![running] = "ST_BLOCKED"], "sem")
      BY <1>5, <2>5 DEF sys_semWait
    <3> DEFINE L == list_add(lists, running, blocked(semid))
               st == [state EXCEPT ![running] = "ST_BLOCKED"]
    <3>2. /\ Disciplined(L, ListHead, Task)
          /\ \A h \in ListHead : Members(L, h) =
                IF h = blocked(semid) THEN Members(lists, h) \cup {running} ELSE Members(lists, h)
          /\ \A h \in ListHead : h # blocked(semid) => L[h] = lists[h]
      <4>1. /\ running \in Task /\ blocked(semid) \in ListHead
            /\ Disciplined(lists, ListHead, Task)
            /\ \A h \in ListHead : running \notin Members(lists, h)
        BY <1>1, DisciplineOfInv
      <4>2. QED
        BY <4>1, ListAdd
    <3>3. st \in [Task -> state_t] /\ "sem" \in Context /\ TypeOK
      BY <1>1 DEF Inv, TypeOK, state_t, Context
    <3>4. \A h \in ListHead : idle_task \notin Members(L, h)
      BY <1>1, <2>1, <3>2, DisciplineOfInv
    <3> HIDE DEF L, st
    <3>5. sched_next_rr(L, st, "sem")
      BY <3>1 DEF L, st, BlockLists
    <3>6. \A h \in ListHead : h # readyqueue => lists'[h] = L[h]
      BY <3>2, <3>3, <3>4, <3>5, SchedNext
    <3>7. fault' = "none"
      BY <1>1, <2>1, <3>2, <3>5, SwitchSound
    <3>8. Waiting' = Waiting \cup {t}
      <4>1. Members(lists', blocked(semid)) = Members(L, blocked(semid))
        BY <3>6 DEF Members
      <4>2. QED
        BY <1>1, <3>2, <4>1 DEF Waiting
    <3>9. lists'[freequeue] = lists[freequeue]
      BY <3>2, <3>6
    <3>10. Inside' = Inside
      BY <1>1, <3>8 DEF Inside, ProgTypeOK
    <3>11. Inside # {} /\ sem'[semid].count <= 1 /\ sem'[semid].count # 1
      BY <1>2, <2>2, <2>3, <2>5 DEF MustBlock
    <3>12. \A u \in Waiting' : pc'[u] = "read"
      <4>1. Waiting \subseteq Task
        BY <1>1, DisciplineOfInv, MembersAreTasks DEF Waiting
      <4>2. QED
        BY <1>1, <2>3, <3>8, <4>1 DEF ProgTypeOK
    <3>13. OneInside'
      BY <1>1, <2>2, <2>3, <2>4, <3>10, <3>11, <3>12 DEF OneInside
    <3>14. QED
      BY <1>3, <2>1, <3>7, <3>9, <3>13 DEF Kept, KernelGoesOn
  <2>6. CASE ~ MustBlock(sem[semid].count - 1)
    <3>1. UNCHANGED << lists, fault >>
      BY <1>5, <2>6 DEF sys_semWait, schedVars
    <3>2. sem[semid].count = 1 /\ sem'[semid].count = 0 /\ Inside = {}
      BY <1>2, <2>2, <2>3, <2>6 DEF MustBlock
    <3>3. Waiting' = Waiting
      BY <3>1 DEF Waiting
    <3>4. Inside' = {t}
      BY <1>1, <1>2, <3>2, <3>3 DEF Inside, ProgTypeOK
    <3>5. \A u \in Waiting' : pc'[u] = "read"
      <4>1. Waiting \subseteq Task
        BY <1>1, DisciplineOfInv, MembersAreTasks DEF Waiting
      <4>2. QED
        BY <1>1, <1>2, <2>3, <3>3, <4>1 DEF ProgTypeOK
    <3>6. OneInside'
      BY <1>1, <2>2, <2>3, <2>4, <3>2, <3>4, <3>5 DEF OneInside
    <3>7. QED
      BY <1>1, <1>3, <2>1, <3>1, <3>6 DEF Kept, KernelGoesOn
  <2>7. QED
    BY <2>5, <2>6
<1>6. QED
  BY <1>4, <1>5 DEF ThreadWait

(* The thread inside leaves, and one that waits takes its place.           *)
LEMMA SignalKeeps ==
  ASSUME ProgInv, NEW t \in Task, ThreadSignal(t)
  PROVE  Kept
<1> USE Heads, TheSemaphore
<1>1. /\ UNCHANGED << contador, valor_actual, created >>
      /\ Goes(t, "signal", "exit")
      /\ running = t /\ pc[t] = "signal" /\ pc' = [pc EXCEPT ![t] = "exit"]
      /\ Inv /\ ProgTypeOK /\ fault = "none" /\ SemCountMatchesBlocked /\ NoDebt
  BY DEF ThreadSignal, Goes, ProgInv, KernelGoesOn
<1>2. /\ t \notin Waiting /\ (sem[semid] # NoSem => Usable(semid))
      /\ sem \in [SemIndex -> sem_t] /\ sem[semid].count \in Int
      /\ lists \in [ListHead -> Seq(Task)]
      /\ Disciplined(lists, ListHead, Task)
  BY <1>1, RunningThread, DisciplineOfInv DEF Inv, TypeOK
<1>3. ASSUME lists'[freequeue] = lists[freequeue], PID' = PID
      PROVE  ProgTypeOK' /\ FreshFirst' /\ Roles'
  BY <1>1, <1>3, ThreadRoles DEF ThreadPC, ProgTypeOK
<1>4. CASE UNCHANGED vars /\ ~ Usable(semid)
  <2>1. UNCHANGED << lists, sem, PID, fault >>
    BY <1>4 DEF vars, schedVars, idVars
  <2>2. OneInside'
    BY <1>2, <1>4, <2>1, NoSemaphore
  <2>3. QED
    BY <1>1, <1>3, <2>1, <2>2 DEF Kept, KernelGoesOn
<1>5. CASE sys_semSignal(semid)
  <2>1. /\ PID' = PID /\ fault' = "none"
        /\ sem' = [sem EXCEPT ![semid].count = @ + 1]
        /\ sem[semid].semid = semid
    BY <1>1, <1>5, NoDebtSignal, TheSemaphore DEF sys_semSignal, idVars, Usable
  <2>2. /\ sem[semid] # NoSem
        /\ sem'[semid].count = sem[semid].count + 1
        /\ sem'[semid].PID = sem[semid].PID
    <3>1. NoSem.semid # semid
      BY DEF NoSem, semid
    <3>2. sem[semid] # NoSem
      BY <2>1, <3>1
    <3>3. QED
      BY <1>2, <2>1, <3>2 DEF sem_t
  <2>3. /\ sem[semid].count <= 1 /\ sem[semid].PID = 1
        /\ \A u, v \in Inside : u = v
        /\ Inside = {} <=> sem[semid].count = 1
        /\ \A u \in Waiting : pc[u] = "read"
        /\ \A u \in Task : pc[u] = "write" => valor_actual[u] = contador
        /\ contador = Cardinality(Counted)
    BY <2>2 DEF ProgInv, OneInside
  <2>4. /\ Counted' = Counted
        /\ \A u \in Task : pc'[u] = "write" => valor_actual'[u] = contador'
    BY <1>1, <2>3 DEF Counted, ProgTypeOK
  <2>5. Inside = {t} /\ sem[semid].count <= 0
    <3>1. t \in Inside
      BY <1>1, <1>2 DEF Inside
    <3>2. QED
      BY <1>2, <2>3, <3>1
  <2>6. Waiting \subseteq Task
    BY <1>2, MembersAreTasks DEF Waiting
  <2>7. CASE MustWake(sem[semid].count + 1)
    <3> DEFINE l == list_first(lists, blocked(semid))
               L == list_del_first(lists, blocked(semid))
    <3>1. /\ ~ list_empty(lists, blocked(semid))
          /\ lists' = list_add(L, l, readyqueue)
      BY <1>5, <2>1, <2>7 DEF sys_semSignal
    <3>2. /\ Disciplined(L, ListHead, Task)
          /\ l \in Waiting /\ l \in Task
          /\ \A h \in ListHead : l \notin Members(L, h)
          /\ \A h \in ListHead : Members(L, h) = Members(lists, h) \ {l}
          /\ \A h \in ListHead : h # blocked(semid) => L[h] = lists[h]
      BY <1>2, <3>1, ListDelFirst DEF Waiting
    <3> HIDE DEF l, L
    <3>3. /\ \A h \in ListHead : h # readyqueue => lists'[h] = L[h]
          /\ Members(lists', blocked(semid)) = Members(L, blocked(semid))
      BY <3>1, <3>2, ListAdd
    <3>4. Waiting' = Waiting \ {l} /\ lists'[freequeue] = lists[freequeue]
      BY <3>2, <3>3 DEF Waiting
    <3>5. pc[l] = "read" /\ l # t
      BY <1>1, <2>3, <3>2
    <3>6. Inside' = {l}
      <4>1. ASSUME NEW u \in Inside' PROVE u = l
        <5>1. u \in Task /\ u # t /\ pc[u] \in {"read", "write", "signal"}
              /\ u \notin Waiting \ {l}
          BY <1>1, <3>4, <4>1 DEF Inside, ProgTypeOK
        <5>2. u \in Waiting
          BY <2>5, <5>1 DEF Inside
        <5>3. QED
          BY <5>1, <5>2
      <4>2. l \in Inside'
        BY <1>1, <3>2, <3>4, <3>5 DEF Inside, ProgTypeOK
      <4>3. QED
        BY <4>1, <4>2
    <3>7. sem'[semid].count <= 1 /\ sem'[semid].count # 1
      BY <1>2, <2>2, <2>7 DEF MustWake
    <3>8. \A u \in Waiting' : pc'[u] = "read"
      BY <1>1, <1>2, <2>3, <2>6, <3>4 DEF ProgTypeOK
    <3>9. OneInside'
      BY <1>1, <2>2, <2>3, <2>4, <3>6, <3>7, <3>8 DEF OneInside
    <3>10. QED
      BY <1>3, <2>1, <3>4, <3>9 DEF Kept, KernelGoesOn
  <2>8. CASE ~ MustWake(sem[semid].count + 1)
    <3>1. UNCHANGED lists
      BY <1>5, <2>8 DEF sys_semSignal
    <3>2. sem[semid].count = 0 /\ sem'[semid].count = 1
      BY <1>2, <2>2, <2>5, <2>8 DEF MustWake
    <3>3. Waiting' = Waiting
      BY <3>1 DEF Waiting
    <3>4. Inside' = {}
      BY <1>1, <2>5, <3>3 DEF Inside, ProgTypeOK
    <3>5. \A u \in Waiting' : pc'[u] = "read"
      BY <1>1, <1>2, <2>3, <2>6, <3>3 DEF ProgTypeOK
    <3>6. OneInside'
      BY <1>1, <2>2, <2>3, <2>4, <3>2, <3>4, <3>5 DEF OneInside
    <3>7. QED
      BY <1>3, <2>1, <3>1, <3>6 DEF Kept, KernelGoesOn
  <2>9. QED
    BY <2>7, <2>8
<1>6. QED
  BY <1>4, <1>5 DEF ThreadSignal

(* A thread that has counted ends.                                         *)
LEMMA ExitKeeps ==
  ASSUME ProgInv, NEW t \in Task, ThreadExit(t)
  PROVE  Kept
<1> USE Heads, TheSemaphore
<1>1. /\ UNCHANGED << contador, valor_actual, created >>
      /\ running = t /\ pc[t] = "exit" /\ pc' = [pc EXCEPT ![t] = "ended"]
      /\ sys_threadExit
      /\ running # idle_task
      /\ sched_next_rr(ExitLists, state, "exit")
      /\ PID' = PID
      /\ Inv /\ ProgTypeOK
  BY DEF ThreadExit, Goes, ProgInv, sys_threadExit, Syscall, idVars
<1>2. lists \in [ListHead -> Seq(Task)] /\ lists[freequeue] \in Seq(Task)
  BY <1>1 DEF Inv, TypeOK
<1>3. ExitLists = [lists EXCEPT ![freequeue] = Append(@, t)]
  BY <1>1 DEF ExitLists, list_add_tail
<1>4. fault' = "none"
  <2>1. ExitLists[readyqueue] = lists[readyqueue]
    BY <1>2, <1>3
  <2>2. QED
    BY <1>1, <2>1, SwitchSound
<1>5. lists'[freequeue] = Append(lists[freequeue], t)
  <2>1. lists' = ExitLists \/ lists' = [ExitLists EXCEPT ![readyqueue] = Tail(@)]
    BY <1>1 DEF sched_next_rr, list_del_first
  <2>2. DOMAIN ExitLists = ListHead /\ ExitLists[freequeue] = Append(lists[freequeue], t)
    BY <1>2, <1>3
  <2>3. QED
    BY <2>1, <2>2
<1>6. FreshFirst'
  <2>1. /\ Len(lists'[freequeue]) = Len(lists[freequeue]) + 1
        /\ \A i \in 1 .. Len(lists[freequeue]) : lists'[freequeue][i] = lists[freequeue][i]
        /\ Len(lists[freequeue]) \in Nat
    BY <1>2, <1>5, AppendProperties, LenProperties
  <2>2. created \in Nat /\ NR_TASKS \in Nat
    BY <1>1, NR_TASKS_Assumption DEF ProgTypeOK
  <2>3. QED
    BY <1>1, <2>1, <2>2 DEF ProgInv, FreshFirst
<1>7. SemFrame
  BY <1>1, ExitFrame
<1>8. ProgTypeOK'
  BY <1>1 DEF ProgTypeOK, ThreadPC
<1>9. Roles'
  <2>1. t \notin {idle_task, init_task} /\ t <= created + 1 /\ Roles
    BY <1>1 DEF ProgInv, Roles, ThreadPC
  <2>2. UNCHANGED << created, contador, sem, PID >>
    BY <1>1, <1>7 DEF SemFrame
  <2>3. /\ \A u \in Task \ {t} : pc'[u] = pc[u]
        /\ pc'[t] = "ended" /\ "ended" \in ThreadPC
    BY <1>1 DEF ProgTypeOK, ThreadPC
  <2>4. \A u \in Task : pc'[u] # "none" => PID[u] = 1
    BY <1>1, <2>1, <2>3 DEF Roles
  <2>5. QED
    BY <2>1, <2>2, <2>3, <2>4 DEF Roles
<1>10. OneInside'
  <2>1. sem' = sem /\ Waiting' = Waiting
    BY <1>7 DEF SemFrame, Waiting, Members
  <2>2. t \notin Waiting
    BY <1>1, RunningThread
  <2>3. Inside' = Inside /\ Counted' = Counted
    BY <1>1, <2>1 DEF Inside, Counted, ProgTypeOK
  <2>4. Waiting \subseteq Task
    BY <1>1, DisciplineOfInv, MembersAreTasks DEF Waiting
  <2>5. ASSUME sem[semid] # NoSem
        PROVE  /\ \A u \in Waiting : pc'[u] = "read"
               /\ \A u \in Task : pc'[u] = "write" => valor_actual[u] = contador
    BY <1>1, <2>2, <2>4, <2>5 DEF ProgInv, OneInside, ProgTypeOK
  <2>6. QED
    BY <1>1, <2>1, <2>3, <2>5 DEF ProgInv, OneInside
<1>11. QED
  BY <1>4, <1>6, <1>8, <1>9, <1>10 DEF Kept, KernelGoesOn

-----------------------------------------------------------------------------
(* main gets the first semaphore, with one permit.                         *)
LEMMA CreateKeeps ==
  ASSUME ProgInv, NEW t \in Task, MainCreate(t)
  PROVE  Kept
<1> USE Heads, TheSemaphore
<1>1. /\ UNCHANGED << contador, valor_actual, created >>
      /\ running = t /\ pc[t] = "create" /\ pc' = [pc EXCEPT ![t] = "threads"]
      /\ sys_semCreate(1)
      /\ UNCHANGED << PID, fault >>
      /\ Inv /\ ProgTypeOK /\ fault = "none"
  BY DEF MainCreate, Goes, ProgInv, sys_semCreate, idVars, KernelGoesOn
<1>2. t = init_task
  BY <1>1 DEF ProgInv, Roles, ThreadPC
<1>3. created = 0 /\ contador = 0 /\ sem[semid] = NoSem
  BY <1>1, <1>2 DEF ProgInv, Roles
<1>4. /\ sem' = [sem EXCEPT ![semid] = [semid |-> semid, count |-> 1, PID |-> PID[running],
                                     value |-> 1]]
      /\ lists' = INIT_LIST_HEAD(lists, {blocked(semid)})
  <2>1. PICK i \in SemIndex :
          /\ sem[i].semid = -1
          /\ \A j \in 0 .. i - 1 : sem[j].semid # -1
          /\ sem' = [sem EXCEPT ![i] = [semid |-> i, count |-> 1, PID |-> PID[running],
                                     value |-> 1]]
          /\ lists' = INIT_LIST_HEAD(lists, {blocked(i)})
    BY <1>1 DEF sys_semCreate
  <2>2. sem[semid].semid = -1
    BY <1>3 DEF NoSem
  <2>3. i = semid
    BY <2>1, <2>2 DEF SemIndex, semid
  <2>4. QED
    BY <2>1, <2>3
<1>5. /\ lists'[freequeue] = lists[freequeue] /\ Waiting' = {}
  <2>1. /\ lists'[freequeue] = lists[freequeue]
        /\ Members(lists', blocked(semid)) = {}
    BY <1>1, <1>4, DisciplineOfInv, InitListHead
  <2>2. QED
    BY <2>1 DEF Waiting
<1>6. /\ \A u \in Task \ {init_task} : pc[u] = "none" /\ pc'[u] = "none"
      /\ pc'[init_task] = "threads"
  <2>1. \A u \in Task \ {idle_task, init_task} : ~ (u <= created + 1)
    BY <1>3 DEF Task, idle_task, init_task
  <2>2. \A u \in Task \ {init_task} : pc[u] = "none"
    BY <2>1 DEF ProgInv, Roles
  <2>3. QED
    BY <1>1, <1>2, <2>2 DEF ProgTypeOK
<1>7. ProgTypeOK' /\ FreshFirst'
  BY <1>1, <1>5 DEF ProgInv, ProgTypeOK, FreshFirst
<1>8. Roles'
  <2>1. \A u \in Task \ {idle_task, init_task} : ~ (u <= created + 1)
    BY <1>3 DEF Task, idle_task, init_task
  <2>2. PID[init_task] = 1
    BY <1>1, <1>2 DEF ProgInv, Roles
  <2>3. QED
    BY <1>1, <1>6, <2>1, <2>2 DEF Roles
<1>9. sem'[semid].count = 1 /\ sem'[semid].PID = 1
  <2>1. PID[running] = 1
    BY <1>1 DEF ProgInv, Roles
  <2>2. DOMAIN sem = SemIndex
    BY <1>1 DEF Inv, TypeOK
  <2>3. QED
    BY <1>4, <2>1, <2>2
<1>10. Inside' = {} /\ Counted' = {}
  <2>1. \A u \in Task : pc'[u] \in {"none", "threads"}
    BY <1>6
  <2>2. QED
    BY <2>1 DEF Inside, Counted
<1>11. Cardinality({}) = 0
  BY FS_EmptySet
<1>12. OneInside'
  BY <1>1, <1>3, <1>5, <1>6, <1>9, <1>10, <1>11 DEF OneInside
<1>13. QED
  BY <1>1, <1>7, <1>8, <1>12 DEF Kept, KernelGoesOn

(* A new thread gets a task structure that was never used.                 *)
LEMMA ThreadKeeps ==
  ASSUME ProgInv, NEW t \in Task, MainThread(t)
  PROVE  Kept
<1> USE Heads, TheSemaphore
<1> DEFINE child == FreeTask
<1>1. /\ UNCHANGED << contador, valor_actual >>
      /\ running = t /\ pc[t] = "threads"
      /\ created < NUM_THREADS /\ created' = created + 1
      /\ pc' = [pc EXCEPT ![child] = "wait"]
      /\ sys_threadCreate("ok")
      /\ Inv /\ ProgTypeOK /\ FreshFirst /\ Roles
  BY DEF MainThread, ProgInv
<1>2. /\ lists' = list_add_tail(list_del_first(lists, freequeue), child, readyqueue)
      /\ ~ list_empty(lists, freequeue)
      /\ PID' = [PID EXCEPT ![child] = PID[running]]
      /\ fault' = "none" /\ sem' = sem
      /\ lists \in [ListHead -> Seq(Task)] /\ lists[freequeue] \in Seq(Task)
      /\ PID \in [Task -> Int]
  BY <1>1 DEF sys_threadCreate, Inv, TypeOK
<1>3. lists'[freequeue] = Tail(lists[freequeue])
  BY <1>2 DEF list_add_tail, list_del_first
<1>4. created \in Nat /\ NR_TASKS \in Nat /\ NUM_THREADS \in Nat /\ created + 1 <= NR_TASKS - 2
  BY <1>1, NR_TASKS_Assumption DEF ProgTypeOK
<1>5. child = created + 2
  <2>1. 1 \in 1 .. NR_TASKS - 2 - created
    BY <1>4
  <2>2. QED
    BY <1>1, <1>4, <2>1 DEF FreshFirst, FreeTask, list_first
<1>6. child \in Task /\ child \notin {idle_task, init_task} /\ pc[child] = "none"
      /\ child # running
  <2>1. child \in Task /\ child \notin {idle_task, init_task} /\ ~ (child <= created + 1)
    BY <1>4, <1>5 DEF Task, idle_task, init_task
  <2>2. pc[child] = "none"
    BY <1>1, <2>1 DEF Roles
  <2>3. QED
    BY <1>1, <2>1, <2>2
<1> HIDE DEF child
<1>7. FreshFirst'
  <2>1. /\ Len(lists[freequeue]) \in Nat
        /\ Len(lists[freequeue]) >= 1
        /\ lists[freequeue] # << >>
    BY <1>2, EmptySeq, LenProperties DEF list_empty
  <2>2. /\ Len(Tail(lists[freequeue])) = Len(lists[freequeue]) - 1
        /\ \A i \in 1 .. Len(Tail(lists[freequeue])) :
              Tail(lists[freequeue])[i] = lists[freequeue][i + 1]
    BY <1>2, <2>1, HeadTailProperties
  <2>3. Len(lists'[freequeue]) >= NR_TASKS - 2 - created'
    BY <1>1, <1>3, <1>4, <2>1, <2>2 DEF FreshFirst
  <2>4. ASSUME NEW i \in 1 .. NR_TASKS - 2 - created'
        PROVE  lists'[freequeue][i] = created' + 1 + i
    <3>1. /\ i \in 1 .. Len(Tail(lists[freequeue]))
          /\ i + 1 \in 1 .. NR_TASKS - 2 - created
      BY <1>1, <1>3, <1>4, <2>1, <2>2, <2>3
    <3>2. lists'[freequeue][i] = lists[freequeue][i + 1]
      BY <1>3, <2>2, <3>1
    <3>3. lists[freequeue][i + 1] = created + 1 + (i + 1)
      BY <1>1, <3>1 DEF FreshFirst
    <3>4. QED
      BY <1>1, <1>4, <3>2, <3>3
  <2>5. QED
    BY <2>3, <2>4 DEF FreshFirst
<1>8. ProgTypeOK'
  <2>1. created' \in 0 .. NUM_THREADS
    BY <1>1, <1>4
  <2>2. QED
    BY <1>1, <2>1 DEF ProgTypeOK, ThreadPC
<1>9. /\ \A u \in Task \ {child} : pc'[u] = pc[u] /\ PID'[u] = PID[u]
      /\ pc'[child] = "wait" /\ PID'[child] = 1
  <2>1. PID[running] = 1
    BY <1>1 DEF Roles
  <2>2. QED
    BY <1>1, <1>2, <1>6, <2>1 DEF ProgTypeOK
<1>10. Roles'
  <2>1. \A u \in Task \ {idle_task, init_task} :
           pc'[u] \in (IF u <= created' + 1 THEN ThreadPC ELSE {"none"})
    <3>1. \A u \in Task \ {child} : u <= created' + 1 <=> u <= created + 1
      BY <1>1, <1>4, <1>5 DEF Task
    <3>2. child <= created' + 1 /\ pc'[child] \in ThreadPC
      BY <1>1, <1>4, <1>5, <1>9 DEF ThreadPC
    <3>3. QED
      BY <1>1, <1>6, <1>9, <3>1, <3>2 DEF Roles
  <2>2. pc[init_task] # "create"
    BY <1>1 DEF Roles, ThreadPC
  <2>3. \A u \in Task : pc'[u] # "none" => PID'[u] = 1
    BY <1>1, <1>9 DEF Roles
  <2>4. QED
    BY <1>1, <1>6, <1>9, <2>1, <2>2, <2>3 DEF Roles
<1>11. OneInside'
  <2>1. Waiting' = Waiting
    BY <1>1, ThreadCreateFrame DEF SemFrame, Waiting, Members
  <2>2. Inside' = Inside /\ Counted' = Counted
    BY <1>6, <1>9, <2>1 DEF Inside, Counted
  <2>3. Waiting \subseteq Task
    BY <1>1, DisciplineOfInv, MembersAreTasks DEF Waiting
  <2>4. ASSUME sem[semid] # NoSem
        PROVE  /\ \A u \in Waiting : pc'[u] = "read"
               /\ \A u \in Task : pc'[u] = "write" => valor_actual[u] = contador
    <3>1. \A u \in Waiting : pc[u] = "read" /\ u # child
      BY <1>6, <2>4 DEF ProgInv, OneInside
    <3>2. QED
      BY <1>9, <2>3, <2>4, <3>1 DEF ProgInv, OneInside
  <2>5. QED
    BY <1>1, <1>2, <2>1, <2>2, <2>4 DEF ProgInv, OneInside
<1>12. QED
  BY <1>2, <1>7, <1>8, <1>10, <1>11 DEF Kept, KernelGoesOn

(* main destroys the semaphore.                                            *)
LEMMA DestroyKeeps ==
  ASSUME ProgInv, NEW t \in Task, MainDestroy(t)
  PROVE  Kept
<1> USE Heads, TheSemaphore
<1>1. /\ UNCHANGED << contador, valor_actual, created >>
      /\ running = t /\ pc[t] = "threads" /\ pc' = [pc EXCEPT ![t] = "turns"]
      /\ sem' = [sem EXCEPT ![semid] = NoSem]
      /\ lists' = list_move_all(lists, blocked(semid), readyqueue)
      /\ UNCHANGED << PID, fault >>
      /\ Inv /\ ProgTypeOK /\ fault = "none"
  BY DEF MainDestroy, Goes, ProgInv, sys_semDestroy, idVars, KernelGoesOn
<1>2. t = init_task
  BY <1>1 DEF ProgInv, Roles, ThreadPC
<1>3. lists'[freequeue] = lists[freequeue]
  BY <1>1 DEF list_move_all, Inv, TypeOK
<1>4. sem'[semid] = NoSem
  BY <1>1 DEF Inv, TypeOK
<1>5. ProgTypeOK' /\ FreshFirst'
  BY <1>1, <1>3 DEF ProgInv, ProgTypeOK, FreshFirst
<1>6. Roles'
  <2>1. \A u \in Task \ {init_task} : pc'[u] = pc[u]
    BY <1>1, <1>2 DEF ProgTypeOK
  <2>2. pc'[init_task] = "turns" /\ PID[init_task] = 1
    BY <1>1, <1>2 DEF ProgInv, ProgTypeOK, Roles
  <2>3. QED
    BY <1>1, <2>1, <2>2 DEF ProgInv, Roles
<1>7. QED
  BY <1>1, <1>4, <1>5, <1>6, NoSemaphore DEF Kept, KernelGoesOn

-----------------------------------------------------------------------------
(* The program starts with its invariant.                                  *)
LEMMA InitProgInv ==
  ASSUME Init, ProgInit
  PROVE  ProgInv
<1> USE Heads, TheSemaphore
<1>1. Inv
  BY InitInv
<1>2. SemCountMatchesBlocked
  <2>1. /\ \A i \in SemIndex : lists[blocked(i)] = << >>
        /\ \A i \in SemIndex : sem[i] = NoSem /\ sem[i].count = 0 /\ Debt(i) = 0
    BY DEF Init, NoSem, Debt
  <2>2. \A i \in SemIndex : Members(lists, blocked(i)) = {}
    BY <2>1, NoMembers
  <2>3. QED
    BY <2>1, <2>2 DEF SemCountMatchesBlocked
<1>3. KernelGoesOn /\ ProgTypeOK /\ NoDebt
  BY DEF Init, ProgInit, KernelGoesOn, ProgTypeOK, NoDebt, NoSem
<1>4. FreshFirst
  <2> DEFINE s == [i \in 1 .. NR_TASKS - 2 |-> i + 1]
  <2>1. lists[freequeue] = s /\ created = 0
    BY DEF Init, ProgInit
  <2>2. s \in Seq(Int) /\ Len(s) = NR_TASKS - 2
    <3>1. NR_TASKS - 2 \in Nat /\ \A i \in 1 .. NR_TASKS - 2 : i + 1 \in Int
      BY NR_TASKS_Assumption
    <3>2. QED
      BY <3>1
  <2>3. QED
    BY <2>1, <2>2, NR_TASKS_Assumption DEF FreshFirst
<1>5. Roles
  <2>1. \A t \in Task \ {idle_task, init_task} : ~ (t <= 1)
    BY DEF Task, idle_task, init_task
  <2>2. PID[init_task] = 1
    BY DEF Init, init_task
  <2>3. QED
    BY <2>1, <2>2 DEF Init, ProgInit, Roles
<1>6. OneInside
  BY DEF Init, OneInside
<1>7. QED
  BY <1>1, <1>2, <1>3, <1>4, <1>5, <1>6 DEF ProgInv

(* Every step of the program, and of the clock between its steps, keeps    *)
(* the invariant.                                                          *)
LEMMA NextProgInv ==
  ASSUME ProgInv, [ProgNext]_progAllVars
  PROVE  ProgInv'
<1>1. Inv' /\ SemCountMatchesBlocked' /\ NoDebt'
  BY StepIsCall, NextInv, NextCount, NextNoDebt, NoDebtKept DEF ProgInv
<1>2. Kept
  <2>1. CASE Tick
    <3>1. Alone /\ UNCHANGED progVars
      BY <2>1, ClockAlone DEF Tick, ProgInv
    <3>2. QED
      BY <3>1, AloneKeeps DEF Kept
  <2>2. ASSUME NEW t \in Task, Step(t) PROVE Kept
    BY <2>2, CreateKeeps, ThreadKeeps, DestroyKeeps, WaitKeeps, ReadKeeps, WriteKeeps,
       SignalKeeps, ExitKeeps DEF Step
  <2>3. CASE UNCHANGED progAllVars
    <3>1. UNCHANGED vars /\ UNCHANGED progVars
      BY <2>3 DEF progAllVars
    <3>2. UNCHANGED << lists, sem, PID, fault >>
      BY <3>1 DEF vars, schedVars, idVars
    <3>3. Alone
      BY <3>2 DEF Alone, SemFrame, ProgInv, KernelGoesOn
    <3>4. QED
      BY <3>1, <3>3, AloneKeeps DEF Kept
  <2>4. QED
    BY <2>1, <2>2, <2>3 DEF ProgNext
<1>3. QED
  BY <1>1, <1>2 DEF Kept, ProgInv

(* The inductive invariant holds in every reachable state.                 *)
THEOREM ProgInvHolds == ProgSpec => []ProgInv
  BY InitProgInv, NextProgInv, PTL DEF ProgSpec

(* No increment of contador is lost while the semaphore exists, however    *)
(* many threads there are and wherever the clock interrupts them.          *)
THEOREM NoUpdateLost == ProgSpec => []CountsWhileSemaphore
<1>1. ProgInv => CountsWhileSemaphore
  BY DEF ProgInv, OneInside, CountsWhileSemaphore, Counted
<1>2. QED
  BY <1>1, ProgInvHolds, PTL

(* The program never makes the kernel wake a thread that is not there, nor *)
(* switch to a stack that is not a saved context.                          *)
THEOREM ProgramSafe == ProgSpec => []KernelGoesOn
<1>1. ProgInv => KernelGoesOn
  BY DEF ProgInv
<1>2. QED
  BY <1>1, ProgInvHolds, PTL
=============================================================================
