-------------------------- MODULE StatisticsProofs --------------------------
(***************************************************************************)
(* Proofs about module Statistics: the accounting leaves the kernel as it  *)
(* is, its counters keep their width, no tick is lost or booked twice, and *)
(* sys_get_stats reports on a task in use unless a PID was left behind in  *)
(* a free task structure.                                                  *)
(***************************************************************************)
EXTENDS Statistics, ProcessesProofs, BasicFacts

(* Which PIDs sys_get_stats can find in free structures: -1, which is not  *)
(* asked for, and those the history variable left has collected.           *)
FreeIdsLeft == \A t \in Free : PID[t] = -1 \/ PID[t] \in left

(* Outside the step of sys_get_stats itself there is no report.            *)
StatInv == Inv /\ StatTypeOK /\ FreeIdsLeft /\ ReportsTaskInUse

Record == [user_ticks : Ticks, system_ticks : Ticks, ready_ticks : Ticks,
           elapsed_total_ticks : Ticks]

(* The calls on semaphores that leave the statistics alone.                *)
SemCall ==
  \/ \E value \in SemValues : sys_semCreate(value)
  \/ \E semID \in SemIds : UseBeyondArray(semID) \/ sys_semSignal(semID) \/ sys_semDestroy(semID)

-----------------------------------------------------------------------------
(* A task that gives the processor away joins the free queue only when it  *)
(* ends.                                                                   *)
LEMMA SwitchFree ==
  ASSUME Inv, running # idle_task,
         NEW home \in ListHead,
         NEW L, Disciplined(L, ListHead, Task),
         \A h \in ListHead : Members(L, h) =
            IF h = home THEN Members(lists, h) \cup {running} ELSE Members(lists, h),
         NEW st \in [Task -> state_t], NEW path \in Context,
         sched_next_rr(L, st, path)
  PROVE  /\ running' \in Task
         /\ Free' = IF home = freequeue THEN Free \cup {running} ELSE Free
<1> USE Heads
<1>1. /\ TypeOK
      /\ \A h \in ListHead : idle_task \notin Members(L, h)
  BY DisciplineOfInv DEF Inv
<1>2. running' \in Task /\ lists'[freequeue] = L[freequeue]
  BY <1>1, SchedNext
<1>3. Free' = Members(L, freequeue)
  BY <1>2 DEF Free, Members
<1>4. QED
  BY <1>2, <1>3 DEF Free

(* A tick or yield frees no structure and takes none.                      *)
LEMMA GiveWayFree ==
  ASSUME Inv, Clock \/ sys_yield
  PROVE  Free' = Free /\ running' \in Task /\ UNCHANGED PID
<1> USE Heads
<1>1. UNCHANGED PID
  BY DEF Clock, sys_yield, idVars
<1>2. ASSUME NEW path \in Context, sched_next_rr(ReadyLists, ReadyStates, path),
             running # idle_task
      PROVE  Free' = Free /\ running' \in Task
  <2>1. /\ Disciplined(ReadyLists, ListHead, Task)
        /\ \A h \in ListHead : Members(ReadyLists, h) =
              IF h = readyqueue THEN Members(lists, h) \cup {running} ELSE Members(lists, h)
        /\ ReadyStates \in [Task -> state_t]
    BY ReadyListsMembers
  <2>2. QED
    BY <1>2, <2>1, SwitchFree
<1>3. CASE sys_yield
  <2>1. "yield" \in Context
    BY DEF Context
  <2>2. QED
    BY <1>1, <1>2, <1>3, <2>1 DEF sys_yield, Syscall
<1>4. CASE Clock
  <2>1. "clock" \in Context
    BY DEF Context
  <2>2. ~ list_empty(lists, readyqueue) => running # idle_task
    BY DisciplineOfInv, EmptyMembers DEF Inv, IdleOnlyWhenNothingReady, Ready
  <2>3. CASE UNCHANGED << lists, running >>
    BY <1>1, <2>3 DEF Free, Inv, TypeOK
  <2>4. CASE sched_next_rr(ReadyLists, ReadyStates, "clock") /\ ~ list_empty(lists, readyqueue)
    BY <1>1, <1>2, <2>1, <2>2, <2>4
  <2>5. QED
    BY <1>4, <2>3, <2>4 DEF Clock, needs_sched_rr
<1>5. QED
  BY <1>3, <1>4

(* The end of a task frees its structure.                                  *)
LEMMA ExitFree ==
  ASSUME Inv, sys_exit \/ sys_threadExit
  PROVE  Free' = Free \cup {running} /\ running' \in Task /\ running \in Task
<1> USE Heads
<1>1. /\ running # idle_task
      /\ sched_next_rr(ExitLists, state, "exit")
      /\ "exit" \in Context
  BY DEF sys_exit, sys_threadExit, Syscall, Context
<1>2. state \in [Task -> state_t] /\ running \in Task
  BY DEF Inv, TypeOK
<1>3. QED
  BY <1>1, <1>2, ExitListsMembers, SwitchFree

(* semWait frees no structure and takes none.                              *)
LEMMA WaitFree ==
  ASSUME Inv, NEW semID \in SemIds, sys_semWait(semID)
  PROVE  /\ Free' = Free /\ UNCHANGED PID
         /\ MustBlock(sem[semID].count - 1) => running' \in Task
<1> USE Heads
<1>1. /\ running # idle_task
      /\ semID \in SemIndex
      /\ UNCHANGED PID
      /\ "sem" \in Context
  BY DEF sys_semWait, Syscall, Usable, Context, idVars
<1>2. CASE ~ MustBlock(sem[semID].count - 1)
  BY <1>1, <1>2 DEF sys_semWait, schedVars, Free
<1>3. CASE MustBlock(sem[semID].count - 1)
  <2> DEFINE st == [state EXCEPT ![running] = "ST_BLOCKED"]
  <2>1. sched_next_rr(BlockLists(semID), st, "sem")
    BY <1>3 DEF sys_semWait
  <2>2. st \in [Task -> state_t] /\ running \in Task
    BY DEF Inv, TypeOK, state_t
  <2>3. blocked(semID) \in ListHead /\ blocked(semID) # freequeue
    BY <1>1
  <2>4. /\ Disciplined(BlockLists(semID), ListHead, Task)
        /\ \A h \in ListHead : Members(BlockLists(semID), h) =
              IF h = blocked(semID) THEN Members(lists, h) \cup {running} ELSE Members(lists, h)
    BY <2>2, <2>3, DisciplineOfInv, ListAdd DEF BlockLists
  <2>5. QED
    BY <1>1, <2>1, <2>2, <2>3, <2>4, SwitchFree
<1>4. QED
  BY <1>2, <1>3

(* The other calls on semaphores free no structure and take none.          *)
LEMMA SemCallFree ==
  ASSUME Inv, SemCall
  PROVE  Free' = Free /\ UNCHANGED PID
<1> USE Heads
<1>1. UNCHANGED PID
  BY DEF SemCall, sys_semCreate, UseBeyondArray, sys_semSignal, sys_semDestroy, idVars
<1>2. lists \in [ListHead -> Seq(Task)]
  BY DEF Inv, TypeOK
<1>3. lists'[freequeue] = lists[freequeue]
  <2>1. CASE \E value \in SemValues : sys_semCreate(value)
    BY <1>2, <2>1 DEF sys_semCreate, INIT_LIST_HEAD
  <2>2. CASE \E semID \in SemIds : UseBeyondArray(semID)
    BY <2>2 DEF UseBeyondArray, schedVars
  <2>3. CASE \E semID \in SemIds : sys_semSignal(semID)
    BY <1>2, <2>3 DEF sys_semSignal, Usable, list_add, list_del_first
  <2>4. CASE \E semID \in SemIds : sys_semDestroy(semID)
    BY <1>2, <2>4 DEF sys_semDestroy, Usable, list_move_all
  <2>5. QED
    BY <2>1, <2>2, <2>3, <2>4 DEF SemCall
<1>4. QED
  BY <1>1, <1>3 DEF Free, Members

(* A creation takes at most the first free structure, and puts it back     *)
(* when it fails.                                                          *)
LEMMA CreateFree ==
  ASSUME Inv, NEW result, sys_fork(result) \/ sys_threadCreate(result)
  PROVE  /\ Free' \subseteq Free
         /\ Free \ {FreeTask} \subseteq Free'
         /\ FreeTask \in Task /\ FreeTask \in Free
         /\ result \in {"ok", "EAGAIN", "page_fault"}
         /\ result = "EAGAIN" => FreeTask \in Free'
         /\ result = "page_fault" => fault' # "none"
         /\ result = "ok" => FreeTask \notin Free'
         /\ \A t \in Task \ {FreeTask} : PID'[t] = PID[t]
         /\ result # "ok" => PID'[FreeTask] = PID[running]
<1> USE Heads
<1> DEFINE child == FreeTask
           L == list_del_first(lists, freequeue)
<1>1. /\ ~ list_empty(lists, freequeue)
      /\ PID \in [Task -> Int]
  BY DEF sys_fork, sys_threadCreate, Inv, TypeOK
<1>2. /\ Disciplined(L, ListHead, Task)
      /\ child \in Task /\ child \in Free
      /\ \A h \in ListHead : Members(L, h) = Members(lists, h) \ {child}
  BY <1>1, DisciplineOfInv, ListDelFirst DEF FreeTask, Free
<1>3. /\ \A t \in Task \ {child} : PID'[t] = PID[t]
      /\ result # "ok" => PID'[child] = PID[running]
      /\ result \in {"ok", "EAGAIN", "page_fault"}
      /\ result = "page_fault" => fault' # "none"
  BY <1>1, <1>2 DEF sys_fork, sys_threadCreate
<1>4. ASSUME NEW M, Disciplined(M, ListHead, Task),
             \A h \in ListHead : child \notin Members(M, h),
             Members(M, freequeue) = Free \ {child},
             \/ lists' = M /\ result = "page_fault"
             \/ lists' = list_add_tail(M, child, readyqueue) /\ result = "ok"
             \/ lists' = list_add_tail(M, child, freequeue) /\ result = "EAGAIN"
      PROVE  /\ Free' \subseteq Free
             /\ Free \ {child} \subseteq Free'
             /\ result = "ok" => child \notin Free'
             /\ result = "EAGAIN" => child \in Free'
  <2>1. \A h \in ListHead : \A g \in ListHead :
           Members(list_add_tail(M, child, h), g) =
             IF g = h THEN Members(M, g) \cup {child} ELSE Members(M, g)
    BY <1>2, <1>4, ListAddTail
  <2>2. \/ Free' = Members(M, freequeue) /\ result # "EAGAIN"
        \/ Free' = Members(M, freequeue) \cup {child} /\ result = "EAGAIN"
    BY <1>4, <2>1 DEF Free
  <2>3. QED
    BY <1>2, <1>4, <2>2
<1>5. CASE sys_fork(result)
  <2>1. /\ Disciplined(ForkLists, ListHead, Task)
        /\ \A h \in ListHead : Members(ForkLists, h) = IF h \in SemIndex THEN {} ELSE Members(L, h)
    BY <1>2, InitListHead DEF ForkLists
  <2>2. /\ Members(ForkLists, freequeue) = Free \ {child}
        /\ \A h \in ListHead : child \notin Members(ForkLists, h)
    BY <1>2, <2>1 DEF Free
  <2>3. \/ lists' = ForkLists /\ result = "page_fault"
        \/ lists' = list_add_tail(ForkLists, child, readyqueue) /\ result = "ok"
        \/ lists' = list_add_tail(ForkLists, child, freequeue) /\ result = "EAGAIN"
    BY <1>5 DEF sys_fork
  <2>4. QED
    BY <1>2, <1>3, <1>4, <2>1, <2>2, <2>3
<1>6. CASE sys_threadCreate(result)
  <2>1. /\ Members(L, freequeue) = Free \ {child}
        /\ \A h \in ListHead : child \notin Members(L, h)
    BY <1>2 DEF Free
  <2>2. \/ lists' = L /\ result = "page_fault"
        \/ lists' = list_add_tail(L, child, readyqueue) /\ result = "ok"
        \/ lists' = list_add_tail(L, child, freequeue) /\ result = "EAGAIN"
    BY <1>6 DEF sys_threadCreate
  <2>3. QED
    BY <1>2, <1>3, <1>4, <2>1, <2>2
<1>7. QED
  BY <1>5, <1>6

-----------------------------------------------------------------------------
(* What is added to a counter modulo its range stays in the range.         *)
LEMMA Wraps ==
  ASSUME NEW n \in Int
  PROVE  n % TICK_RANGE \in Ticks
  BY StatAssumption DEF Ticks

(* The values of a counter are numbers.                                    *)
LEMMA TicksAreIntegers == Ticks \subseteq Int /\ 0 \in Ticks
  BY StatAssumption DEF Ticks

(* An update leaves counters in range.                                     *)
LEMMA UpdateType ==
  ASSUME now \in Ticks,
         NEW s \in [Task -> Record], NEW t \in Task,
         NEW field \in {"user_ticks", "system_ticks", "ready_ticks"}
  PROVE  update_stats(s, t, field) \in [Task -> Record]
<1> DEFINE n == (s[t][field] + now - s[t].elapsed_total_ticks) % TICK_RANGE
<1>1. s[t] \in Record
  OBVIOUS
<1>2. n \in Ticks
  <2>1. s[t][field] \in Int /\ s[t].elapsed_total_ticks \in Int /\ now \in Int
    BY <1>1, TicksAreIntegers DEF Record
  <2>2. QED
    BY <2>1, Wraps
<1>3. update_stats(s, t, field) = [s EXCEPT ![t][field] = n, ![t].elapsed_total_ticks = now]
  BY DEF update_stats
<1> HIDE DEF n
<1>4. CASE field = "user_ticks"
  BY <1>1, <1>2, <1>3, <1>4, ZenonT(40) DEF Record
<1>5. CASE field = "system_ticks"
  BY <1>1, <1>2, <1>3, <1>5, ZenonT(40) DEF Record
<1>6. CASE field = "ready_ticks"
  BY <1>1, <1>2, <1>3, <1>6, ZenonT(40) DEF Record
<1>7. QED
  BY <1>4, <1>5, <1>6

(* So do the two updates of a switch.                                      *)
LEMMA SwitchType ==
  ASSUME now \in Ticks, running \in Task, running' \in Task,
         NEW s \in [Task -> Record]
  PROVE  SwitchStats(s) \in [Task -> Record] /\ GiveWayStats(s) \in [Task -> Record]
<1>1. ASSUME NEW u \in [Task -> Record] PROVE SwitchStats(u) \in [Task -> Record]
  <2>1. update_stats(u, running, "system_ticks") \in [Task -> Record]
    BY UpdateType
  <2>2. QED
    BY <2>1, UpdateType DEF SwitchStats
<1>2. update_stats(s, running, "system_ticks") \in [Task -> Record]
  BY UpdateType
<1>3. QED
  BY <1>1, <1>2 DEF GiveWayStats

(* What the invariants say about types, in the form the proofs use.        *)
LEMMA StatTypes ==
  ASSUME Inv, StatTypeOK
  PROVE  /\ now \in Ticks /\ p_stats \in [Task -> Record]
         /\ running \in Task /\ PID[running] \in Int
         /\ idle_task \in Task
  BY Heads DEF Inv, TypeOK, StatTypeOK, Record

(* The step has made no report, and has changed nothing but the accounts.  *)
LEMMA QuietInv ==
  ASSUME StatInv, Inv', Quiet, p_stats' \in [Task -> Record],
         Free' = Free, UNCHANGED PID
  PROVE  StatInv'
<1>1. StatTypeOK'
  BY DEF StatInv, StatTypeOK, Quiet, Record, NoTask
<1>2. FreeIdsLeft'
  BY DEF StatInv, FreeIdsLeft, Quiet
<1>3. ReportsTaskInUse'
  BY DEF ReportsTaskInUse, Quiet
<1>4. QED
  BY <1>1, <1>2, <1>3 DEF StatInv

(* Creating a task keeps the invariant.                                    *)
LEMMA CreatedInv ==
  ASSUME StatInv, Inv', NEW result, sys_fork(result) \/ sys_threadCreate(result),
         Created(result)
  PROVE  StatInv'
<1>1. /\ FreeTask \in Task
      /\ now \in Ticks /\ p_stats \in [Task -> Record]
      /\ running \in Task /\ PID[running] \in Int
  BY CreateFree, StatTypes DEF StatInv
<1>2. StatTypeOK'
  <2>1. init_stats \in Record
    BY <1>1, TicksAreIntegers DEF init_stats, Record
  <2>2. p_stats' \in [Task -> Record]
    BY <1>1, <2>1 DEF Created
  <2>3. spent' \in [Task -> [ran : Ticks, waited : Ticks]]
    BY <1>1, TicksAreIntegers DEF Created, StatInv, StatTypeOK, NothingSpent
  <2>4. left' \subseteq Int /\ now' \in Ticks /\ report' = NoTask
    BY <1>1 DEF Created, StatInv, StatTypeOK
  <2>5. QED
    BY <2>2, <2>3, <2>4 DEF StatTypeOK, Record
<1>3. FreeIdsLeft'
  <2>1. /\ Free' \subseteq Free
        /\ result = "ok" => FreeTask \notin Free'
        /\ \A t \in Task \ {FreeTask} : PID'[t] = PID[t]
        /\ result # "ok" => PID'[FreeTask] = PID[running]
    BY CreateFree DEF StatInv
  <2>2. left \subseteq left' /\ (result # "ok" => PID[running] \in left')
    BY DEF Created
  <2>3. Free \subseteq Task
    BY DisciplineOfInv, MembersAreTasks, Heads DEF StatInv, Free
  <2>4. QED
    BY <2>1, <2>2, <2>3 DEF StatInv, FreeIdsLeft
<1>4. ReportsTaskInUse'
  BY DEF ReportsTaskInUse, Created
<1>5. QED
  BY <1>2, <1>3, <1>4 DEF StatInv

(* Ending a task keeps the invariant.                                      *)
LEMMA EndedInv ==
  ASSUME StatInv, Inv', StatExit \/ StatThreadExit
  PROVE  StatInv'
<1>1. sys_exit \/ sys_threadExit
  BY DEF StatExit, StatThreadExit
<1>2. /\ Free' = Free \cup {running}
      /\ running \in Task /\ running' \in Task
  BY <1>1, ExitFree DEF StatInv
<1>3. /\ now \in Ticks /\ p_stats \in [Task -> Record]
      /\ PID \in [Task -> Int] /\ PID[running] \in Int
  BY StatTypes DEF StatInv, Inv, TypeOK
<1>4. p_stats' \in [Task -> Record]
  BY <1>2, <1>3, SwitchType DEF StatExit, StatThreadExit
<1>5. StatTypeOK'
  BY <1>3, <1>4 DEF StatExit, StatThreadExit, Quiet, StatInv, StatTypeOK, Record
<1>6. FreeIdsLeft'
  <2>1. Free \subseteq Task
    BY DisciplineOfInv, MembersAreTasks, Heads DEF StatInv, Free
  <2>2. CASE StatExit
    <3>1. PID' = [PID EXCEPT ![running] = -1] /\ left' = left
      BY <2>2 DEF StatExit, sys_exit, Quiet
    <3>2. QED
      BY <1>2, <1>3, <2>1, <3>1 DEF StatInv, FreeIdsLeft
  <2>3. CASE StatThreadExit
    <3>1. PID' = PID /\ left' = left \cup {PID[running]}
      BY <2>3 DEF StatThreadExit, sys_threadExit, idVars
    <3>2. QED
      BY <1>2, <3>1 DEF StatInv, FreeIdsLeft
  <2>4. QED
    BY <2>2, <2>3
<1>7. ReportsTaskInUse'
  BY DEF ReportsTaskInUse, StatExit, StatThreadExit, Quiet
<1>8. QED
  BY <1>5, <1>6, <1>7 DEF StatInv

-----------------------------------------------------------------------------
(* A step of the accounting is a step of the kernel or leaves it alone.    *)
LEMMA StatStepImplements ==
  ASSUME [StatNext]_statAllVars
  PROVE  [Next]_vars
<1>1. CASE StatNext
  BY <1>1
  DEF StatNext, get_ticks, StatClock, KeyboardStats, StatYield, StatFork, StatThreadCreate,
      StatExit, StatThreadExit, StatSemWait, StatSemCall, sys_get_stats, Next
<1>2. CASE UNCHANGED statAllVars
  BY <1>2 DEF statAllVars
<1>3. QED
  BY <1>1, <1>2

(* The counters at boot satisfy the invariant.                             *)
LEMMA StatInitInv ==
  ASSUME Init, StatInit
  PROVE  StatInv
<1> USE Heads
<1>1. Inv
  BY InitInv
<1>2. StatTypeOK
  BY TicksAreIntegers DEF StatInit, StatTypeOK, init_stats, NothingSpent, NoTask
<1>3. FreeIdsLeft
  <2>1. lists[freequeue] = [i \in 1 .. NR_TASKS - 2 |-> i + 1]
    BY DEF Init
  <2>2. \A t \in Free : t \in Task /\ t \notin {idle_task, init_task}
    BY <2>1, NR_TASKS_Assumption DEF Free, Members, Range, Task, idle_task, init_task
  <2>3. QED
    BY <2>2 DEF Init, FreeIdsLeft
<1>4. ReportsTaskInUse
  BY DEF StatInit, ReportsTaskInUse
<1>5. QED
  BY <1>1, <1>2, <1>3, <1>4 DEF StatInv

(* Every step of the kernel with its accounting keeps the invariant.       *)
LEMMA StatNextInv ==
  ASSUME StatInv, [StatNext]_statAllVars
  PROVE  StatInv'
<1>1. Inv' /\ Inv
  BY StatStepImplements, NextInv DEF StatInv
<1>2. /\ now \in Ticks /\ p_stats \in [Task -> Record]
      /\ running \in Task
      /\ spent \in [Task -> [ran : Ticks, waited : Ticks]]
  BY <1>1, StatTypes DEF StatInv, StatTypeOK
<1>3. CASE StatClock
  <2>1. Free' = Free /\ running' \in Task /\ UNCHANGED PID
    BY <1>1, <1>3, GiveWayFree DEF StatClock
  <2>2. user_to_system(p_stats) \in [Task -> Record]
    BY <1>2, UpdateType DEF user_to_system
  <2>3. GiveWayStats(user_to_system(p_stats)) \in [Task -> Record]
    BY <1>2, <2>1, <2>2, SwitchType
  <2>4. ASSUME NEW s \in [Task -> Record], NEW t \in Task
        PROVE  system_to_user(s, t) \in [Task -> Record]
    BY <1>2, UpdateType DEF system_to_user
  <2>5. p_stats' \in [Task -> Record]
    BY <1>2, <1>3, <2>1, <2>2, <2>3, <2>4 DEF StatClock, ClockStats
  <2>6. QED
    BY <1>1, <1>3, <2>1, <2>5, QuietInv DEF StatClock
<1>4. CASE KeyboardStats
  <2>1. user_to_system(p_stats) \in [Task -> Record]
    BY <1>2, UpdateType DEF user_to_system
  <2>2. p_stats' \in [Task -> Record]
    BY <1>2, <1>4, <2>1, UpdateType DEF KeyboardStats, system_to_user
  <2>3. Free' = Free /\ UNCHANGED PID
    BY <1>4 DEF KeyboardStats, vars, schedVars, idVars, Free
  <2>4. QED
    BY <1>1, <1>4, <2>2, <2>3, QuietInv DEF KeyboardStats
<1>5. CASE StatYield
  <2>1. Free' = Free /\ running' \in Task /\ UNCHANGED PID
    BY <1>1, <1>5, GiveWayFree DEF StatYield
  <2>2. p_stats' \in [Task -> Record]
    BY <1>2, <1>5, <2>1, SwitchType DEF StatYield
  <2>3. QED
    BY <1>1, <1>5, <2>1, <2>2, QuietInv DEF StatYield
<1>6. CASE \/ \E result \in ForkResults : StatFork(result)
           \/ \E result \in {"ok", "EAGAIN", "page_fault"} : StatThreadCreate(result)
  <2>1. PICK result : (sys_fork(result) \/ sys_threadCreate(result)) /\ Created(result)
    BY <1>6 DEF StatFork, StatThreadCreate
  <2>2. QED
    BY <1>1, <2>1, CreatedInv
<1>7. CASE StatExit \/ StatThreadExit
  BY <1>1, <1>7, EndedInv
<1>8. CASE \E semID \in SemIds : StatSemWait(semID)
  <2>1. PICK semID \in SemIds : StatSemWait(semID)
    BY <1>8
  <2>2. /\ Free' = Free /\ UNCHANGED PID
        /\ MustBlock(sem[semID].count - 1) => running' \in Task
    BY <1>1, <2>1, WaitFree DEF StatSemWait
  <2>3. p_stats' \in [Task -> Record]
    BY <1>2, <2>1, <2>2, SwitchType DEF StatSemWait
  <2>4. QED
    BY <1>1, <2>1, <2>2, <2>3, QuietInv DEF StatSemWait
<1>9. CASE StatSemCall
  <2>1. SemCall
    BY <1>9 DEF StatSemCall, SemCall
  <2>2. QED
    BY <1>1, <1>2, <1>9, <2>1, SemCallFree, QuietInv DEF StatSemCall
<1>10. CASE \E pid \in StatPids : sys_get_stats(pid)
  <2>1. PICK pid \in StatPids : sys_get_stats(pid)
    BY <1>10
  <2>2. /\ pid >= 0 /\ pid \in Int
        /\ report' \in Task /\ PID[report'] = pid
        /\ UNCHANGED << vars, now, p_stats, spent, left >>
    BY <2>1, StatAssumption DEF sys_get_stats
  <2>3. UNCHANGED << lists, PID >>
    BY <2>2 DEF vars, schedVars, idVars
  <2>4. Free' = Free
    BY <2>3 DEF Free
  <2>5. StatTypeOK'
    BY <2>2 DEF StatInv, StatTypeOK
  <2>6. FreeIdsLeft'
    BY <2>2, <2>3, <2>4 DEF StatInv, FreeIdsLeft
  <2>7. ReportsTaskInUse'
    <3>1. SUFFICES ASSUME PID[report'] \notin left
                   PROVE  report' \notin Free
      BY <2>2, <2>3, <2>4 DEF ReportsTaskInUse, InUse
    <3>2. PID[report'] # -1
      BY <2>2
    <3>3. QED
      BY <3>1, <3>2 DEF StatInv, FreeIdsLeft
  <2>8. QED
    BY <1>1, <2>5, <2>6, <2>7 DEF StatInv
<1>11. CASE get_ticks
  <2>1. UNCHANGED << lists, PID >> /\ UNCHANGED << p_stats, left >> /\ report' = NoTask
    BY <1>11 DEF get_ticks, vars, schedVars, idVars
  <2>2. now' \in Ticks
    BY <1>2, <1>11, TicksAreIntegers, Wraps DEF get_ticks
  <2>3. spent' \in [Task -> [ran : Ticks, waited : Ticks]]
    <3>1. \A t \in Task : /\ spent[t] \in [ran : Ticks, waited : Ticks]
                          /\ (spent[t].ran + 1) % TICK_RANGE \in Ticks
                          /\ (spent[t].waited + 1) % TICK_RANGE \in Ticks
      <4>1. SUFFICES ASSUME NEW t \in Task
                     PROVE  /\ spent[t] \in [ran : Ticks, waited : Ticks]
                            /\ (spent[t].ran + 1) % TICK_RANGE \in Ticks
                            /\ (spent[t].waited + 1) % TICK_RANGE \in Ticks
        OBVIOUS
      <4>2. spent[t].ran + 1 \in Int /\ spent[t].waited + 1 \in Int
        <5>1. spent[t] \in [ran : Ticks, waited : Ticks]
          BY <1>2
        <5>2. spent[t].ran \in Int /\ spent[t].waited \in Int
          BY <5>1, TicksAreIntegers
        <5>3. QED
          BY <5>2
      <4>3. QED
        BY <1>2, <4>2, Wraps
    <3>2. QED
      BY <1>11, <3>1 DEF get_ticks
  <2>4. StatTypeOK'
    BY <2>1, <2>2, <2>3 DEF StatInv, StatTypeOK
  <2>5. FreeIdsLeft' /\ ReportsTaskInUse'
    BY <2>1 DEF StatInv, FreeIdsLeft, ReportsTaskInUse, Free
  <2>6. QED
    BY <1>1, <2>4, <2>5 DEF StatInv
<1>12. CASE UNCHANGED statAllVars
  <2>1. UNCHANGED << lists, PID, now, p_stats, spent, left, report >>
    BY <1>12 DEF statAllVars, statVars, vars, schedVars, idVars
  <2>2. QED
    BY <1>1, <2>1
    DEF StatInv, StatTypeOK, FreeIdsLeft, ReportsTaskInUse, InUse, Free
<1>13. QED
  BY <1>3, <1>4, <1>5, <1>6, <1>7, <1>8, <1>9, <1>10, <1>11, <1>12 DEF StatNext

-----------------------------------------------------------------------------
(* The accounts.  What the record r of a task shows if the task is on the  *)
(* processor, or not, before the wrap.                                     *)
Ran(r, on) == r.user_ticks + r.system_ticks + (IF on THEN now - r.elapsed_total_ticks ELSE 0)
Waited(r, on) == r.ready_ticks + (IF on THEN 0 ELSE now - r.elapsed_total_ticks)

Wrap(n) == n % TICK_RANGE

Books(s, t, on) == Wrap(Ran(s[t], on)) = spent[t].ran /\ Wrap(Waited(s[t], on)) = spent[t].waited

(* The accounts of all tasks, when w is on the processor.                  *)
Users == InUse \ {idle_task}
Balanced(s, w) == \A t \in Users : Books(s, t, t = w)

(* A sum may be wrapped before or after something is added.                *)
LEMMA WrapSum ==
  ASSUME NEW a \in Int, NEW b \in Int
  PROVE  /\ Wrap(a) \in Int
         /\ Wrap(Wrap(a) + b) = Wrap(a + b)
         /\ Wrap(b + Wrap(a)) = Wrap(a + b)
<1>1. TICK_RANGE \in Nat \ {0}
  BY StatAssumption
<1>2. Wrap(a) \in Int
  BY Wraps, TicksAreIntegers DEF Wrap
<1>3. Wrap(Wrap(a) + b) = Wrap(a + b)
  <2>1. ((a % TICK_RANGE) + b) % TICK_RANGE = (a + b) % TICK_RANGE
    BY <1>1, ModSumBoth, Zenon
  <2>2. QED
    BY <2>1, Zenon DEF Wrap
<1>4. b + Wrap(a) = Wrap(a) + b
  BY <1>2
<1>5. QED
  BY <1>2, <1>3, <1>4, Zenon

(* A tick passes.                                                          *)
LEMMA PassTime ==
  ASSUME NEW v \in Int, NEW n \in Int, NEW e \in Int
  PROVE  Wrap(v + (Wrap(n + 1) - e)) = Wrap(Wrap(v + (n - e)) + 1)
<1>1. v + (Wrap(n + 1) - e) = Wrap(n + 1) + (v - e)
  <2>1. PICK w \in Int : w = Wrap(n + 1)
    BY WrapSum
  <2>2. v + (w - e) = w + (v - e)
    OBVIOUS
  <2>3. QED
    BY <2>1, <2>2
<1>2. Wrap(Wrap(n + 1) + (v - e)) = Wrap((n + 1) + (v - e))
  BY WrapSum
<1>3. Wrap(Wrap(v + (n - e)) + 1) = Wrap((v + (n - e)) + 1)
  BY WrapSum
<1>4. (n + 1) + (v - e) = (v + (n - e)) + 1
  OBVIOUS
<1>5. QED
  BY <1>1, <1>2, <1>3, <1>4

(* What update_stats leaves in the record of its task.                     *)
LEMMA UpdatedRecord ==
  ASSUME NEW s \in [Task -> Record], NEW t \in Task,
         NEW field \in {"user_ticks", "system_ticks", "ready_ticks"}
  PROVE  LET n == Wrap(s[t][field] + now - s[t].elapsed_total_ticks)
             r == update_stats(s, t, field)[t]
         IN /\ r.elapsed_total_ticks = now
            /\ r.user_ticks = IF field = "user_ticks" THEN n ELSE s[t].user_ticks
            /\ r.system_ticks = IF field = "system_ticks" THEN n ELSE s[t].system_ticks
            /\ r.ready_ticks = IF field = "ready_ticks" THEN n ELSE s[t].ready_ticks
            /\ \A u \in Task \ {t} : update_stats(s, t, field)[u] = s[u]
<1> DEFINE n == Wrap(s[t][field] + now - s[t].elapsed_total_ticks)
           f == [s EXCEPT ![t][field] = n, ![t].elapsed_total_ticks = now]
<1>1. s[t] \in Record
  OBVIOUS
<1>2. update_stats(s, t, field) = f
  BY DEF update_stats, Wrap
<1>3. /\ f[t].elapsed_total_ticks = now
      /\ f[t].user_ticks = IF field = "user_ticks" THEN n ELSE s[t].user_ticks
      /\ f[t].system_ticks = IF field = "system_ticks" THEN n ELSE s[t].system_ticks
      /\ f[t].ready_ticks = IF field = "ready_ticks" THEN n ELSE s[t].ready_ticks
  <2> HIDE DEF n
  <2>1. CASE field = "user_ticks"
    BY <1>1, <2>1 DEF Record
  <2>2. CASE field = "system_ticks"
    BY <1>1, <2>2 DEF Record
  <2>3. CASE field = "ready_ticks"
    BY <1>1, <2>3 DEF Record
  <2>4. QED
    BY <2>1, <2>2, <2>3
<1>4. \A u \in Task \ {t} : f[u] = s[u]
  OBVIOUS
<1> HIDE DEF f, n
<1>5. QED
  BY <1>2, <1>3, <1>4 DEF n

(* The fields of a record are integers.                                    *)
LEMMA RecordIntegers ==
  ASSUME now \in Ticks, NEW r \in Record
  PROVE  /\ r.user_ticks \in Int /\ r.system_ticks \in Int /\ r.ready_ticks \in Int
         /\ r.elapsed_total_ticks \in Int /\ now \in Int
  BY TicksAreIntegers DEF Record

(* The same facts about a record x and what it becomes, r.                 *)
LEMMA RanBooked ==
  ASSUME now \in Ticks, NEW x \in Record, NEW r \in Record,
         r.elapsed_total_ticks = now,
         r.ready_ticks = x.ready_ticks,
         \/ /\ r.user_ticks = Wrap(x.user_ticks + now - x.elapsed_total_ticks)
            /\ r.system_ticks = x.system_ticks
         \/ /\ r.system_ticks = Wrap(x.system_ticks + now - x.elapsed_total_ticks)
            /\ r.user_ticks = x.user_ticks,
         NEW on
  PROVE  /\ Wrap(Ran(r, on)) = Wrap(Ran(x, TRUE))
         /\ Waited(r, on) = Waited(x, TRUE)
<1>1. /\ x.user_ticks \in Int /\ x.system_ticks \in Int /\ x.ready_ticks \in Int
      /\ x.elapsed_total_ticks \in Int /\ now \in Int
      /\ r.user_ticks \in Int /\ r.system_ticks \in Int /\ r.ready_ticks \in Int
  BY RecordIntegers
<1>2. /\ Ran(r, on) = r.user_ticks + r.system_ticks
      /\ Waited(r, on) = Waited(x, TRUE)
  BY <1>1 DEF Ran, Waited
<1>3. ASSUME NEW u \in Int, NEW y \in Int
      PROVE  /\ Wrap(Wrap(u + now - x.elapsed_total_ticks) + y)
                  = Wrap(u + y + (now - x.elapsed_total_ticks))
             /\ Wrap(y + Wrap(u + now - x.elapsed_total_ticks))
                  = Wrap(u + y + (now - x.elapsed_total_ticks))
  <2> DEFINE a == u + now - x.elapsed_total_ticks
  <2>1. a \in Int /\ a + y = u + y + (now - x.elapsed_total_ticks)
    BY <1>1
  <2> HIDE DEF a
  <2>2. Wrap(Wrap(a) + y) = Wrap(a + y) /\ Wrap(y + Wrap(a)) = Wrap(a + y)
    BY <2>1, WrapSum
  <2>3. QED
    BY <2>1, <2>2 DEF a
<1>4. /\ Ran(x, TRUE) = x.user_ticks + x.system_ticks + (now - x.elapsed_total_ticks)
      /\ Ran(x, TRUE) = x.system_ticks + x.user_ticks + (now - x.elapsed_total_ticks)
  BY <1>1 DEF Ran
<1>5. Wrap(r.user_ticks + r.system_ticks) = Wrap(Ran(x, TRUE))
  <2>1. CASE /\ r.user_ticks = Wrap(x.user_ticks + now - x.elapsed_total_ticks)
             /\ r.system_ticks = x.system_ticks
    <3>1. Wrap(Wrap(x.user_ticks + now - x.elapsed_total_ticks) + x.system_ticks)
            = Wrap(x.user_ticks + x.system_ticks + (now - x.elapsed_total_ticks))
      BY <1>1, <1>3
    <3>2. QED
      BY <1>4, <2>1, <3>1, Zenon
  <2>2. CASE /\ r.system_ticks = Wrap(x.system_ticks + now - x.elapsed_total_ticks)
             /\ r.user_ticks = x.user_ticks
    <3>1. Wrap(x.user_ticks + Wrap(x.system_ticks + now - x.elapsed_total_ticks))
            = Wrap(x.system_ticks + x.user_ticks + (now - x.elapsed_total_ticks))
      BY <1>1, <1>3
    <3>2. QED
      BY <1>4, <2>2, <3>1, Zenon
  <2>3. QED
    BY <2>1, <2>2
<1>6. QED
  BY <1>2, <1>5, Zenon

(* A task that gets the processor books the time since its last update as  *)
(* waited, and nothing remains pending.                                    *)
LEMMA WaitedBooked ==
  ASSUME now \in Ticks, NEW x \in Record, NEW r \in Record,
         r.elapsed_total_ticks = now,
         r.user_ticks = x.user_ticks,
         r.system_ticks = x.system_ticks,
         r.ready_ticks = Wrap(x.ready_ticks + now - x.elapsed_total_ticks)
  PROVE  /\ Ran(r, TRUE) = Ran(x, FALSE)
         /\ Wrap(Waited(r, TRUE)) = Wrap(Waited(x, FALSE))
<1>1. /\ x.user_ticks \in Int /\ x.system_ticks \in Int /\ x.ready_ticks \in Int
      /\ x.elapsed_total_ticks \in Int /\ now \in Int
      /\ r.ready_ticks \in Int
  BY RecordIntegers
<1>2. /\ Waited(r, TRUE) = Wrap(Waited(x, FALSE)) + 0
      /\ Waited(x, FALSE) \in Int
      /\ Waited(x, FALSE) + 0 = Waited(x, FALSE)
      /\ Ran(r, TRUE) = Ran(x, FALSE)
  BY <1>1 DEF Ran, Waited
<1>3. Wrap(Wrap(Waited(x, FALSE)) + 0) = Wrap(Waited(x, FALSE) + 0)
  <2>1. PICK w \in Int : w = Waited(x, FALSE)
    BY <1>2
  <2>2. Wrap(Wrap(w) + 0) = Wrap(w + 0)
    BY WrapSum
  <2>3. QED
    BY <2>1, <2>2, Zenon
<1>4. QED
  BY <1>2, <1>3, Zenon

(* A task on the processor books its time as user or system time; it may   *)
(* then go on or leave.                                                    *)
LEMMA BookRunning ==
  ASSUME now \in Ticks,
         NEW s \in [Task -> Record], NEW t \in Task,
         NEW field \in {"user_ticks", "system_ticks"},
         Books(s, t, TRUE)
  PROVE  Books(update_stats(s, t, field), t, TRUE) /\ Books(update_stats(s, t, field), t, FALSE)
<1>1. PICK u \in [Task -> Record] : u = update_stats(s, t, field)
  BY UpdateType
<1>2. /\ u[t].elapsed_total_ticks = now
      /\ u[t].ready_ticks = s[t].ready_ticks
      /\ \/ /\ u[t].user_ticks = Wrap(s[t].user_ticks + now - s[t].elapsed_total_ticks)
            /\ u[t].system_ticks = s[t].system_ticks
         \/ /\ u[t].system_ticks = Wrap(s[t].system_ticks + now - s[t].elapsed_total_ticks)
            /\ u[t].user_ticks = s[t].user_ticks
  BY <1>1, UpdatedRecord
<1>3. s[t] \in Record /\ u[t] \in Record
  OBVIOUS
<1>4. \A on : /\ Wrap(Ran(u[t], on)) = Wrap(Ran(s[t], TRUE))
              /\ Waited(u[t], on) = Waited(s[t], TRUE)
  BY <1>2, <1>3, RanBooked
<1>5. QED
  BY <1>1, <1>4, Zenon DEF Books

(* A task that gets the processor books its time as ready time.            *)
LEMMA BookReady ==
  ASSUME now \in Ticks,
         NEW s \in [Task -> Record], NEW t \in Task,
         Books(s, t, FALSE)
  PROVE  Books(update_stats(s, t, "ready_ticks"), t, TRUE)
<1>1. PICK u \in [Task -> Record] : u = update_stats(s, t, "ready_ticks")
  BY UpdateType
<1>2. /\ u[t].elapsed_total_ticks = now
      /\ u[t].user_ticks = s[t].user_ticks
      /\ u[t].system_ticks = s[t].system_ticks
      /\ u[t].ready_ticks = Wrap(s[t].ready_ticks + now - s[t].elapsed_total_ticks)
  BY <1>1, UpdatedRecord
<1>3. s[t] \in Record /\ u[t] \in Record
  OBVIOUS
<1>4. /\ Ran(u[t], TRUE) = Ran(s[t], FALSE)
      /\ Wrap(Waited(u[t], TRUE)) = Wrap(Waited(s[t], FALSE))
  BY <1>2, <1>3, WaitedBooked
<1>5. QED
  BY <1>1, <1>4, Zenon DEF Books

(* The accounts of the other tasks are not touched.                        *)
LEMMA BookOthers ==
  ASSUME NEW s \in [Task -> Record], NEW t \in Task, NEW u \in Task \ {t},
         NEW field \in {"user_ticks", "system_ticks", "ready_ticks"}, NEW on,
         Books(s, u, on)
  PROVE  Books(update_stats(s, t, field), u, on)
<1>1. update_stats(s, t, field)[u] = s[u]
  BY UpdatedRecord
<1>2. QED
  BY <1>1 DEF Books

(* Booking the time of the task w on the processor keeps the balance, and  *)
(* leaves w ready to be taken off.                                         *)
LEMMA BalancedRunning ==
  ASSUME now \in Ticks, NEW s \in [Task -> Record], NEW w \in Task,
         NEW field \in {"user_ticks", "system_ticks"}, Balanced(s, w)
  PROVE  /\ update_stats(s, w, field) \in [Task -> Record]
         /\ Balanced(update_stats(s, w, field), w)
         /\ \A t \in Users : Books(update_stats(s, w, field), t, FALSE)
<1>1. update_stats(s, w, field) \in [Task -> Record]
  BY UpdateType
<1>2. SUFFICES ASSUME NEW t \in Users
               PROVE  /\ Books(update_stats(s, w, field), t, t = w)
                      /\ Books(update_stats(s, w, field), t, FALSE)
  BY <1>1 DEF Balanced
<1>3. t \in Task /\ Books(s, t, t = w)
  BY DEF Users, InUse, Balanced
<1>4. CASE t = w
  <2>1. Books(s, w, TRUE)
    BY <1>3, <1>4
  <2>2. Books(update_stats(s, w, field), w, TRUE) /\ Books(update_stats(s, w, field), w, FALSE)
    BY <2>1, BookRunning
  <2>3. QED
    BY <1>4, <2>2
<1>5. CASE t # w
  <2>1. Books(s, t, FALSE)
    BY <1>3, <1>5
  <2>2. Books(update_stats(s, w, field), t, FALSE)
    BY <1>3, <1>5, <2>1, BookOthers
  <2>3. QED
    BY <1>5, <2>2
<1>6. QED
  BY <1>4, <1>5

(* A switch: the accounts balance for the new task on the processor.       *)
LEMMA BalancedSwitch ==
  ASSUME now \in Ticks, NEW s \in [Task -> Record], running \in Task, running' \in Task,
         Balanced(s, running)
  PROVE  Balanced(SwitchStats(s), running') /\ Balanced(GiveWayStats(s), running')
<1>1. ASSUME NEW u \in [Task -> Record], Balanced(u, running)
      PROVE  Balanced(SwitchStats(u), running')
  <2> DEFINE v == update_stats(u, running, "system_ticks")
  <2>1. v \in [Task -> Record] /\ \A t \in Users : Books(v, t, FALSE)
    BY <1>1, BalancedRunning
  <2>2. SwitchStats(u) = update_stats(v, running', "ready_ticks")
    BY DEF SwitchStats
  <2> HIDE DEF v
  <2>3. SUFFICES ASSUME NEW t \in Users
                 PROVE  Books(update_stats(v, running', "ready_ticks"), t, t = running')
    BY <2>2 DEF Balanced
  <2>4. t \in Task /\ Books(v, t, FALSE)
    BY <2>1 DEF Users, InUse
  <2>5. CASE t = running'
    <3>1. Books(update_stats(v, t, "ready_ticks"), t, TRUE)
      BY <2>1, <2>4, BookReady
    <3>2. QED
      BY <2>5, <3>1
  <2>6. CASE t # running'
    <3>1. Books(update_stats(v, running', "ready_ticks"), t, FALSE)
      BY <2>1, <2>4, <2>6, BookOthers
    <3>2. QED
      BY <2>6, <3>1
  <2>7. QED
    BY <2>5, <2>6
<1>2. /\ update_stats(s, running, "system_ticks") \in [Task -> Record]
      /\ Balanced(update_stats(s, running, "system_ticks"), running)
  BY BalancedRunning
<1>3. QED
  BY <1>1, <1>2 DEF GiveWayStats

(* The property, in these terms.                                           *)
LEMMA AccountsBalanced ==
  ASSUME now \in Ticks, p_stats \in [Task -> Record]
  PROVE  AccountsComplete <=> (fault = "none" => Balanced(p_stats, running))
<1>1. ASSUME NEW t \in Users
      PROVE  LET r == p_stats[t]
                 ran == r.user_ticks + r.system_ticks + (IF t = running THEN Pending(t) ELSE 0)
                 waited == r.ready_ticks + (IF t = running THEN 0 ELSE Pending(t))
             IN /\ ran % TICK_RANGE = Wrap(Ran(r, t = running))
                /\ waited % TICK_RANGE = Wrap(Waited(r, t = running))
  <2>1. PICK r \in Record : r = p_stats[t]
    BY DEF Users, InUse
  <2>2. /\ r.user_ticks \in Int /\ r.system_ticks \in Int /\ r.ready_ticks \in Int
        /\ r.elapsed_total_ticks \in Int /\ now \in Int
    BY RecordIntegers
  <2>3. Pending(t) = Wrap(now - r.elapsed_total_ticks)
    BY <2>1 DEF Pending, Wrap
  <2>4. ASSUME NEW v \in Int
        PROVE  Wrap(v + Pending(t)) = Wrap(v + (now - r.elapsed_total_ticks))
    <3>1. PICK d \in Int : d = now - r.elapsed_total_ticks
      BY <2>2
    <3>2. Wrap(v + Wrap(d)) = Wrap(d + v) /\ d + v = v + d
      BY WrapSum
    <3>3. QED
      BY <2>3, <3>1, <3>2, Zenon
  <2>5. r.user_ticks + r.system_ticks \in Int
    BY <2>2
  <2>6. CASE t = running
    BY <2>1, <2>2, <2>4, <2>5, <2>6, Zenon DEF Ran, Waited, Wrap
  <2>7. CASE t # running
    BY <2>1, <2>2, <2>4, <2>5, <2>7, Zenon DEF Ran, Waited, Wrap
  <2>8. QED
    BY <2>6, <2>7
<1>2. QED
  BY <1>1 DEF AccountsComplete, Balanced, Books, Users

(* The step leaves time alone: it is enough to look at the new records.    *)
LEMMA BalancedNext ==
  ASSUME UNCHANGED << now, spent >>, Free \subseteq Free',
         NEW S, p_stats' = S, Balanced(S, running')
  PROVE  Balanced(p_stats, running)'
<1>1. SUFFICES ASSUME NEW t \in Users'
               PROVE  Books(p_stats, t, t = running)'
  BY DEF Balanced
<1>2. t \in Users
  BY DEF Users, InUse
<1>3. Books(S, t, t = running')
  BY <1>2 DEF Balanced
<1>4. QED
  BY <1>3 DEF Books, Ran, Waited, Wrap

(* The clock, the keyboard and the calls that do not create tasks.         *)
LEMMA BalancedQuiet ==
  ASSUME StatInv, Balanced(p_stats, running),
         \/ StatClock \/ KeyboardStats \/ StatYield \/ StatExit \/ StatThreadExit
         \/ \E semID \in SemIds : StatSemWait(semID)
         \/ StatSemCall
  PROVE  Balanced(p_stats, running)'
<1>1. /\ Inv /\ now \in Ticks /\ p_stats \in [Task -> Record] /\ running \in Task
      /\ UNCHANGED << now, spent >>
  BY StatTypes
  DEF StatInv, StatClock, KeyboardStats, StatYield, StatExit, StatThreadExit, StatSemWait,
      StatSemCall, Quiet
<1> DEFINE s == user_to_system(p_stats)
<1>2. s \in [Task -> Record] /\ Balanced(s, running)
  BY <1>1, BalancedRunning DEF user_to_system
<1>3. CASE StatClock
  <2>1. Free' = Free /\ running' \in Task
    BY <1>1, <1>3, GiveWayFree DEF StatClock
  <2> HIDE DEF s
  <2>2. GiveWayStats(s) \in [Task -> Record] /\ Balanced(GiveWayStats(s), running')
    BY <1>1, <1>2, <2>1, SwitchType, BalancedSwitch
  <2>3. ASSUME NEW u \in [Task -> Record], NEW w \in Task, Balanced(u, w)
        PROVE  Balanced(system_to_user(u, w), w)
    BY <1>1, <2>3, BalancedRunning DEF system_to_user
  <2>4. ~ needs_sched_rr(remaining_quantum - 1) => running' = running
    BY <1>3 DEF StatClock, Clock
  <2>5. Balanced(ClockStats, running')
    BY <1>1, <1>2, <2>1, <2>2, <2>3, <2>4 DEF ClockStats, s
  <2>6. QED
    BY <1>1, <1>3, <2>1, <2>5, BalancedNext DEF StatClock
<1>4. CASE KeyboardStats
  <2>1. Free' = Free /\ running' = running
    BY <1>4 DEF KeyboardStats, vars, schedVars, Free
  <2>2. p_stats' = system_to_user(s, running)
    BY <1>4 DEF KeyboardStats
  <2> HIDE DEF s
  <2>3. Balanced(system_to_user(s, running), running')
    BY <1>1, <1>2, <2>1, BalancedRunning DEF system_to_user
  <2>4. QED
    BY <1>1, <2>1, <2>2, <2>3, BalancedNext
<1>5. CASE StatYield
  <2>1. Free' = Free /\ running' \in Task
    BY <1>1, <1>5, GiveWayFree DEF StatYield
  <2>2. Balanced(GiveWayStats(p_stats), running')
    BY <1>1, <2>1, BalancedSwitch
  <2>3. QED
    BY <1>1, <1>5, <2>1, <2>2, BalancedNext DEF StatYield
<1>6. CASE StatExit \/ StatThreadExit
  <2>1. Free \subseteq Free' /\ running' \in Task
    BY <1>1, <1>6, ExitFree DEF StatExit, StatThreadExit
  <2>2. Balanced(SwitchStats(p_stats), running')
    BY <1>1, <2>1, BalancedSwitch
  <2>3. QED
    BY <1>1, <1>6, <2>1, <2>2, BalancedNext DEF StatExit, StatThreadExit
<1>7. CASE \E semID \in SemIds : StatSemWait(semID)
  <2>1. PICK semID \in SemIds : StatSemWait(semID)
    BY <1>7
  <2>2. /\ Free' = Free
        /\ MustBlock(sem[semID].count - 1) => running' \in Task
    BY <1>1, <2>1, WaitFree DEF StatSemWait
  <2>3. CASE MustBlock(sem[semID].count - 1)
    <3>1. Balanced(SwitchStats(p_stats), running')
      BY <1>1, <2>2, <2>3, BalancedSwitch
    <3>2. QED
      BY <1>1, <2>1, <2>2, <2>3, <3>1, BalancedNext DEF StatSemWait
  <2>4. CASE ~ MustBlock(sem[semID].count - 1)
    <3>1. running' = running /\ p_stats' = p_stats
      BY <2>1, <2>4 DEF StatSemWait, sys_semWait, schedVars
    <3>2. QED
      BY <1>1, <2>2, <3>1, BalancedNext
  <2>5. QED
    BY <2>3, <2>4
<1>8. CASE StatSemCall
  <2>1. SemCall /\ p_stats' = p_stats
    BY <1>8 DEF StatSemCall, SemCall
  <2>2. Free' = Free
    BY <1>1, <2>1, SemCallFree
  <2>3. running' = running
    BY <2>1 DEF SemCall, sys_semCreate, UseBeyondArray, sys_semSignal, sys_semDestroy, schedVars
  <2>4. QED
    BY <1>1, <2>1, <2>2, <2>3, BalancedNext
<1>9. QED
  BY <1>3, <1>4, <1>5, <1>6, <1>7, <1>8

(* A new task has neither run nor waited.                                  *)
LEMMA BalancedCreate ==
  ASSUME StatInv, Balanced(p_stats, running), NEW result,
         sys_fork(result) \/ sys_threadCreate(result), Created(result),
         fault' = "none"
  PROVE  Balanced(p_stats, running)'
<1>1. /\ Inv /\ now \in Ticks /\ p_stats \in [Task -> Record]
      /\ spent \in [Task -> [ran : Ticks, waited : Ticks]]
  BY StatTypes DEF StatInv, StatTypeOK
<1>2. /\ FreeTask \in Task /\ FreeTask \in Free
      /\ Free \ {FreeTask} \subseteq Free'
      /\ result = "ok" \/ FreeTask \in Free'
  BY <1>1, CreateFree
<1>3. running' = running /\ now' = now
  BY DEF sys_fork, sys_threadCreate, Created
<1>4. FreeTask # running
  BY <1>1, <1>2 DEF Inv, ListDiscipline, Linked
<1>5. SUFFICES ASSUME NEW t \in Users'
               PROVE  Books(p_stats, t, t = running)'
  BY DEF Balanced
<1>6. t \in Task /\ t # idle_task /\ t \notin Free'
  BY DEF Users, InUse
<1>7. CASE t # FreeTask
  <2>1. t \in Users
    BY <1>2, <1>6, <1>7 DEF Users, InUse
  <2>2. p_stats'[t] = p_stats[t] /\ spent'[t] = spent[t]
    BY <1>1, <1>6, <1>7 DEF Created
  <2>3. Books(p_stats, t, t = running)
    BY <2>1 DEF Balanced
  <2>4. QED
    BY <1>3, <2>2, <2>3 DEF Books, Ran, Waited, Wrap
<1>8. CASE t = FreeTask
  <2>1. result = "ok"
    BY <1>2, <1>6, <1>8
  <2>2. p_stats'[t] = init_stats /\ spent'[t] = NothingSpent
    BY <1>1, <1>2, <1>8, <2>1 DEF Created
  <2>3. now \in Int
    BY <1>1, TicksAreIntegers
  <2>4. /\ init_stats.user_ticks = 0 /\ init_stats.system_ticks = 0
        /\ init_stats.ready_ticks = 0 /\ init_stats.elapsed_total_ticks = now
    BY DEF init_stats
  <2>5. Ran(p_stats[t], t = running)' = 0 /\ Waited(p_stats[t], t = running)' = 0
    BY <1>3, <1>4, <1>8, <2>2, <2>3, <2>4 DEF Ran, Waited
  <2>6. 0 % TICK_RANGE = 0
    BY StatAssumption
  <2>7. QED
    BY <2>2, <2>5, <2>6 DEF Books, Wrap, NothingSpent
<1>9. QED
  BY <1>7, <1>8

(* A tick is spent by the running task running and by the others waiting.  *)
LEMMA BalancedTick ==
  ASSUME StatInv, Balanced(p_stats, running), get_ticks
  PROVE  Balanced(p_stats, running)'
<1>1. /\ now \in Ticks /\ p_stats \in [Task -> Record]
      /\ spent \in [Task -> [ran : Ticks, waited : Ticks]]
  BY StatTypes DEF StatInv, StatTypeOK
<1>2. /\ Free' = Free /\ running' = running /\ p_stats' = p_stats
      /\ now' = Wrap(now + 1)
  BY DEF get_ticks, vars, schedVars, Free, Wrap
<1>3. SUFFICES ASSUME NEW t \in Users'
               PROVE  Books(p_stats, t, t = running)'
  BY DEF Balanced
<1>4. t \in Users /\ t \in Task /\ t # idle_task /\ t \notin Free
  BY <1>2 DEF Users, InUse
<1>5. PICK r \in Record : r = p_stats[t] /\ r = p_stats'[t]
  BY <1>1, <1>2, <1>4
<1>6. /\ r.user_ticks \in Int /\ r.system_ticks \in Int /\ r.ready_ticks \in Int
      /\ r.elapsed_total_ticks \in Int /\ now \in Int
  BY <1>1, RecordIntegers
<1>7. Wrap(Ran(r, t = running)) = spent[t].ran /\ Wrap(Waited(r, t = running)) = spent[t].waited
  BY <1>4, <1>5 DEF Balanced, Books
<1>8. ASSUME NEW v \in Int
      PROVE  Wrap(v + (now' - r.elapsed_total_ticks))
               = Wrap(Wrap(v + (now - r.elapsed_total_ticks)) + 1)
  <2>1. PICK e \in Int, n \in Int : e = r.elapsed_total_ticks /\ n = now
    BY <1>6
  <2>2. Wrap(v + (Wrap(n + 1) - e)) = Wrap(Wrap(v + (n - e)) + 1)
    BY PassTime
  <2>3. QED
    BY <1>2, <2>1, <2>2, Zenon
<1>9. CASE t = running
  <2>1. /\ spent'[t].ran = Wrap(spent[t].ran + 1)
        /\ spent'[t].waited = spent[t].waited
    BY <1>1, <1>4, <1>9 DEF get_ticks, Wrap
  <2>2. PICK v \in Int : v = r.user_ticks + r.system_ticks
    BY <1>6
  <2>3. /\ Ran(r, TRUE) = v + (now - r.elapsed_total_ticks)
        /\ Ran(r, TRUE)' = v + (now' - r.elapsed_total_ticks)
        /\ Waited(r, TRUE)' = Waited(r, TRUE)
    BY <2>2 DEF Ran, Waited
  <2>4. /\ Wrap(v + (now - r.elapsed_total_ticks)) = spent[t].ran
        /\ Wrap(Waited(r, TRUE)) = spent[t].waited
    BY <1>7, <1>9, <2>3
  <2>5. Wrap(v + (now' - r.elapsed_total_ticks)) = spent'[t].ran
    BY <1>8, <2>1, <2>4
  <2>6. (t = running)' = TRUE
    BY <1>2, <1>9
  <2>7. QED
    BY <1>5, <2>1, <2>3, <2>4, <2>5, <2>6, Zenon DEF Books
<1>10. CASE t # running
  <2>1. /\ spent'[t].waited = Wrap(spent[t].waited + 1)
        /\ spent'[t].ran = spent[t].ran
    BY <1>1, <1>4, <1>10 DEF get_ticks, Wrap
  <2>2. /\ Waited(r, FALSE) = r.ready_ticks + (now - r.elapsed_total_ticks)
        /\ Waited(r, FALSE)' = r.ready_ticks + (now' - r.elapsed_total_ticks)
        /\ Ran(r, FALSE)' = Ran(r, FALSE)
    BY DEF Ran, Waited
  <2>3. QED
    BY <1>2, <1>5, <1>6, <1>7, <1>8, <1>10, <2>1, <2>2 DEF Books
<1>11. QED
  BY <1>9, <1>10

(* Every step that does not stop the kernel keeps the accounts balanced.   *)
LEMMA BalancedStep ==
  ASSUME StatInv, fault = "none" => Balanced(p_stats, running),
         [StatNext]_statAllVars, fault' = "none"
  PROVE  Balanced(p_stats, running)'
<1>1. CASE get_ticks
  BY <1>1, BalancedTick DEF get_ticks
<1>2. CASE \/ StatClock \/ KeyboardStats \/ StatYield \/ StatExit \/ StatThreadExit
           \/ \E semID \in SemIds : StatSemWait(semID)
           \/ StatSemCall
  <2>1. fault = "none"
    BY <1>2
    DEF StatClock, Clock, KeyboardStats, StatYield, sys_yield, StatExit, sys_exit, StatThreadExit,
        sys_threadExit, StatSemWait, sys_semWait, StatSemCall, sys_semCreate, UseBeyondArray,
        sys_semSignal, sys_semDestroy, Syscall
  <2>2. QED
    BY <1>2, <2>1, BalancedQuiet
<1>3. CASE \/ \E result \in ForkResults : StatFork(result)
           \/ \E result \in {"ok", "EAGAIN", "page_fault"} : StatThreadCreate(result)
  <2>1. PICK result : (sys_fork(result) \/ sys_threadCreate(result)) /\ Created(result)
    BY <1>3 DEF StatFork, StatThreadCreate
  <2>2. fault = "none"
    BY <2>1 DEF sys_fork, sys_threadCreate, Syscall
  <2>3. QED
    BY <2>1, <2>2, BalancedCreate
<1>4. CASE UNCHANGED << vars, now, p_stats, spent >>
  <2>1. UNCHANGED << lists, running, fault, now, p_stats, spent >>
    BY <1>4 DEF vars, schedVars
  <2>2. Balanced(p_stats, running') /\ Free' = Free
    BY <2>1 DEF Free
  <2>3. QED
    BY <2>1, <2>2, BalancedNext
<1>5. QED
  BY <1>1, <1>2, <1>3, <1>4 DEF StatNext, sys_get_stats, statAllVars, statVars

-----------------------------------------------------------------------------
(* The kernel with its time accounting behaves as the kernel without it:   *)
(* update_stats and sys_get_stats touch neither queues nor task states, so *)
(* all that is proved of Processes holds of it.                            *)
THEOREM StatisticsImplementsProcesses == StatSpec => Spec
<1>1. Init /\ StatInit => Init
  OBVIOUS
<1>2. [StatNext]_statAllVars => [Next]_vars
  BY StatStepImplements
<1>3. QED
  BY <1>1, <1>2, PTL DEF StatSpec, Spec

(* The inductive invariant holds in every reachable state.                 *)
THEOREM StatInvHolds == StatSpec => []StatInv
  BY StatInitInv, StatNextInv, PTL DEF StatSpec

(* All counters of the accounting stay within the range of an unsigned     *)
(* long, whatever the range, differences that update_stats takes across    *)
(* the wrap of the clock included.                                         *)
THEOREM StatTypeCorrect == StatSpec => []StatTypeOK
<1>1. StatInv => StatTypeOK
  BY DEF StatInv
<1>2. QED
  BY <1>1, StatInvHolds, PTL

(* sys_get_stats, which looks through all task structures, free or not,    *)
(* reports on a task in use, unless threadExit or a creation that failed   *)
(* has left the PID asked for in a free structure.                         *)
THEOREM ReportsInUse == StatSpec => []ReportsTaskInUse
<1>1. StatInv => ReportsTaskInUse
  BY DEF StatInv
<1>2. QED
  BY <1>1, StatInvHolds, PTL

(* The accounts are complete: the ticks booked for a task, and those that  *)
(* its next update_stats will book, are the ticks it has run and the ticks *)
(* it has not, through every switch and every wrap of the counters.        *)
THEOREM AccountsAreComplete == StatSpec => []AccountsComplete
<1> DEFINE J == StatInv /\ (fault = "none" => Balanced(p_stats, running))
<1>1. J => AccountsComplete
  BY StatTypes, AccountsBalanced DEF StatInv
<1>2. ASSUME Init, StatInit
      PROVE  J
  <2>1. StatInv
    BY <1>2, StatInitInv
  <2>2. Balanced(p_stats, running)
    <3>1. SUFFICES ASSUME NEW t \in Users
                   PROVE  Books(p_stats, t, t = running)
      BY DEF Balanced
    <3>2. t \in Task
      BY DEF Users, InUse
    <3>3. /\ p_stats[t].user_ticks = 0 /\ p_stats[t].system_ticks = 0
          /\ p_stats[t].ready_ticks = 0 /\ p_stats[t].elapsed_total_ticks = 0
          /\ now = 0 /\ spent[t].ran = 0 /\ spent[t].waited = 0
      BY <1>2, <3>2 DEF StatInit, init_stats, NothingSpent
    <3>4. Ran(p_stats[t], t = running) = 0 /\ Waited(p_stats[t], t = running) = 0
      BY <3>3 DEF Ran, Waited
    <3>5. 0 % TICK_RANGE = 0
      BY StatAssumption
    <3>6. QED
      BY <3>3, <3>4, <3>5 DEF Books, Wrap
  <2>3. QED
    BY <2>1, <2>2
<1>3. ASSUME J, [StatNext]_statAllVars
      PROVE  J'
  <2>1. StatInv'
    BY <1>3, StatNextInv
  <2>2. (fault = "none" => Balanced(p_stats, running))'
    BY <1>3, BalancedStep
  <2>3. QED
    BY <2>1, <2>2
<1>4. QED
  BY <1>1, <1>2, <1>3, PTL DEF StatSpec
=============================================================================
