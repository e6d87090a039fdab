----------------------------- MODULE Statistics -----------------------------
(***************************************************************************)
(* The time accounting of the kernel in ZeOSSysenter/zeos, p_stats.c, and  *)
(* sys_get_stats, composed with module Processes: every call and interrupt *)
(* is that of Processes together with what it does to the field p_stats.   *)
(*                                                                         *)
(* Time passes between handlers.  All counters have the width of an        *)
(* unsigned long and wrap.  Left out are blocked_ticks, which stays zero,  *)
(* and total_trans and remaining_ticks, which are only ever reported.      *)
(***************************************************************************)
EXTENDS Processes

CONSTANTS
  TICK_RANGE,  \* number of values of an unsigned long, 2^32
  StatPids     \* arguments of sys_get_stats

ASSUME StatAssumption == TICK_RANGE \in Nat \ {0} /\ StatPids \subseteq Int

NoTask == -1

VARIABLES
  now,       \* get_ticks(), the time stamp counter divided
  p_stats,   \* the field p_stats of each task_struct
  spent,     \* history: ticks a task, not idle_task, has really run and not run
  left,      \* history: PIDs that threadExit or a failed call left in a free structure
  report     \* history: the task sys_get_stats has just copied the field of

statVars == << now, p_stats, spent, left, report >>
statAllVars == << vars, statVars >>

Ticks == 0 .. TICK_RANGE - 1

init_stats == [user_ticks |-> 0, system_ticks |-> 0, ready_ticks |-> 0,
               elapsed_total_ticks |-> now]
NothingSpent == [ran |-> 0, waited |-> 0]

(* Structures of the array that was filled with zeros look the same.       *)
StatInit ==
  /\ now = 0
  /\ p_stats = [t \in Task |-> init_stats]
  /\ spent = [t \in Task |-> NothingSpent]
  /\ left = {}
  /\ report = NoTask

(* Mutant: the time of the update is not remembered.                       *)
MutNotRemembered(s, t, field) ==
  [s EXCEPT ![t][field] = (@ + now - s[t].elapsed_total_ticks) % TICK_RANGE]

(* Mutant: a difference below zero is kept.                                *)
MutNoWrap(s, t, field) ==
  [s EXCEPT ![t][field] = @ + now - s[t].elapsed_total_ticks,
            ![t].elapsed_total_ticks = now]

(* s after update_stats of one field of task t: the time since the last    *)
(* update is added to it.                                                  *)
update_stats(s, t, field) ==
  [s EXCEPT ![t][field] = (@ + now - s[t].elapsed_total_ticks) % TICK_RANGE,
            ![t].elapsed_total_ticks = now]

user_to_system(s) == update_stats(s, running, "user_ticks")
system_to_user(s, t) == update_stats(s, t, "system_ticks")

(* sched_next_rr, whoever the next task is.                                *)
SwitchStats(s) ==
  update_stats(update_stats(s, running, "system_ticks"), running', "ready_ticks")

(* update_process_state_rr(current(), &readyqueue) comes before it when    *)
(* the task gives way.                                                     *)
GiveWayStats(s) == SwitchStats(update_stats(s, running, "system_ticks"))

(* clock_handler.  The end of the handler runs in the task switched to,    *)
(* if that task was itself interrupted by the clock.                       *)
ClockStats ==
  LET s == user_to_system(p_stats)
  IN IF ~ needs_sched_rr(remaining_quantum - 1) THEN system_to_user(s, running)
     ELSE IF register_esp[running'] = "clock" THEN system_to_user(GiveWayStats(s), running')
     ELSE GiveWayStats(s)

Quiet == UNCHANGED << now, spent, left >> /\ report' = NoTask

StatClock == Clock /\ p_stats' = ClockStats /\ Quiet

(* keyboard_handler, around keyboard_routine.                              *)
KeyboardStats ==
  /\ fault = "none"
  /\ p_stats' = system_to_user(user_to_system(p_stats), running)
  /\ Quiet
  /\ UNCHANGED vars

StatYield == sys_yield /\ p_stats' = GiveWayStats(p_stats) /\ Quiet

(* A child starts at zero; when its creation fails it is left with a copy. *)
Created(result) ==
  /\ p_stats' = [p_stats EXCEPT ![FreeTask] = IF result = "ok" THEN init_stats ELSE p_stats[running]]
  /\ spent' = [spent EXCEPT ![FreeTask] = NothingSpent]
  /\ report' = NoTask
  /\ left' = IF result = "ok" THEN left ELSE left \cup {PID[running]}
  /\ UNCHANGED now

StatFork(result) == sys_fork(result) /\ Created(result)

StatThreadCreate(result) == sys_threadCreate(result) /\ Created(result)

StatExit == sys_exit /\ p_stats' = SwitchStats(p_stats) /\ Quiet

StatThreadExit ==
  /\ sys_threadExit
  /\ p_stats' = SwitchStats(p_stats)
  /\ left' = left \cup {PID[running]}
  /\ report' = NoTask
  /\ UNCHANGED << now, spent >>

(* Blocking switches; the other calls on semaphores leave p_stats alone.   *)
StatSemWait(semID) ==
  /\ sys_semWait(semID)
  /\ p_stats' = IF MustBlock(sem[semID].count - 1) THEN SwitchStats(p_stats) ELSE p_stats
  /\ Quiet

StatSemCall ==
  /\ \/ \E value \in SemValues : sys_semCreate(value)
     \/ \E semID \in SemIds :
          UseBeyondArray(semID) \/ sys_semSignal(semID) \/ sys_semDestroy(semID)
  /\ UNCHANGED p_stats
  /\ Quiet

(* The first task structure with that PID, be it free or not.              *)
sys_get_stats(pid) ==
  /\ Syscall
  /\ pid >= 0
  /\ \E t \in Task :
       /\ PID[t] = pid
       /\ \A u \in 0 .. t - 1 : PID[u] # pid
       /\ report' = t
  /\ UNCHANGED << vars, now, p_stats, spent, left >>

(* A tick of the time stamp counter.                                       *)
get_ticks ==
  /\ fault = "none"
  /\ now' = (now + 1) % TICK_RANGE
  /\ spent' = [t \in Task |->
                 IF t \in Free \cup {idle_task} THEN spent[t]
                 ELSE IF t = running THEN [spent[t] EXCEPT !.ran = (@ + 1) % TICK_RANGE]
                 ELSE [spent[t] EXCEPT !.waited = (@ + 1) % TICK_RANGE]]
  /\ report' = NoTask
  /\ UNCHANGED << vars, p_stats, left >>

StatNext ==
  \/ get_ticks
  \/ StatClock
  \/ KeyboardStats
  \/ StatYield
  \/ \E result \in ForkResults : StatFork(result)
  \/ \E result \in {"ok", "EAGAIN", "page_fault"} : StatThreadCreate(result)
  \/ StatExit
  \/ StatThreadExit
  \/ \E semID \in SemIds : StatSemWait(semID)
  \/ StatSemCall
  \/ \E pid \in StatPids : sys_get_stats(pid)

StatSpec == Init /\ StatInit /\ [][StatNext]_statAllVars

-----------------------------------------------------------------------------
InUse == Task \ Free

(* Type invariant.                                                         *)
StatTypeOK ==
  /\ now \in Ticks
  /\ p_stats \in [Task -> [user_ticks : Ticks, system_ticks : Ticks, ready_ticks : Ticks,
                           elapsed_total_ticks : Ticks]]
  /\ spent \in [Task -> [ran : Ticks, waited : Ticks]]
  /\ left \subseteq Int
  /\ report \in Task \cup {NoTask}

(* Ticks since the last update of the field of a task.                     *)
Pending(t) == (now - p_stats[t].elapsed_total_ticks) % TICK_RANGE

(* The accounts are complete: what is booked, together with what the next  *)
(* update will book, is the time the task has run and the time it has not. *)
(* The time a thread was blocked is booked as ready time, as nothing is    *)
(* updated when it is woken; user time before a call that switches goes to *)
(* the system.                                                             *)
AccountsComplete ==
  fault = "none" =>
    \A t \in InUse \ {idle_task} :
      LET s == p_stats[t]
          ran == s.user_ticks + s.system_ticks + (IF t = running THEN Pending(t) ELSE 0)
          waited == s.ready_ticks + (IF t = running THEN 0 ELSE Pending(t))
      IN ran % TICK_RANGE = spent[t].ran /\ waited % TICK_RANGE = spent[t].waited

(* sys_get_stats reports on a task in use, and not on one that has ended   *)
(* and left its PID behind, unless a thread with that PID has ended or a   *)
(* call of a task with that PID to create another has failed.              *)
ReportsTaskInUse ==
  report # NoTask /\ PID[report] \notin left => report \in InUse
=============================================================================
