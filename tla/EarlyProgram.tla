---------------------------- MODULE EarlyProgram ----------------------------
(***************************************************************************)
(* The program of the earlier kernel, zeOSpparri/user.c, as a client of    *)
(* module EarlyKernel: the first process forks a child, the child forks a  *)
(* grandchild and calls unblock for it over and over, and the grandchild   *)
(* blocks, is woken and exits.  What the processes print is left out, and  *)
(* the frames suffice for all three.                                       *)
(***************************************************************************)
EXTENDS EarlyKernel

VARIABLE pc  \* what each process does next

progVars == << vars, pc >>

ProgInit == Init /\ pc = [t \in Task |-> IF t = task_1 THEN "fork" ELSE "none"]

At(t, label) == running = t /\ pc[t] = label

(* rfork: 0 in the child, which goes on to fork again.                     *)
Fork(t) ==
  /\ At(t, "fork")
  /\ sys_fork("none")
  /\ pc' = [pc EXCEPT ![t] = "turns", ![FreeTask] = "fork2"]

(* rfork2: 0 in the grandchild.                                            *)
Fork2(t) ==
  /\ At(t, "fork2")
  /\ sys_fork("none")
  /\ pc' = [pc EXCEPT ![t] = "unblock", ![FreeTask] = "block"]

(* The call in the endless loop of the child.  Process 3 is the one forked *)
(* second.  The call always finds it (GrandchildFound), so that the exit   *)
(* after a failure is left out.                                            *)
rfork2 == 3
Unblock(t) == At(t, "unblock") /\ sys_unblock(rfork2) /\ UNCHANGED pc

Block(t) == At(t, "block") /\ sys_block /\ pc' = [pc EXCEPT ![t] = "exit"]

Exit(t) == At(t, "exit") /\ sys_exit /\ pc' = [pc EXCEPT ![t] = "ended"]

Step(t) == Fork(t) \/ Fork2(t) \/ Unblock(t) \/ Block(t) \/ Exit(t)

Tick == Clock /\ UNCHANGED pc

ProgNext == Tick \/ \E t \in Task : Step(t)

(* The timer interrupts for ever, and a process that gets the processor    *)
(* again and again goes on: a quantum is a thousand ticks.                 *)
ProgSpec ==
  /\ ProgInit /\ [][ProgNext]_progVars
  /\ WF_progVars(Tick)
  /\ \A t \in Task : SF_progVars(Step(t))

-----------------------------------------------------------------------------
(* The grandchild is woken and exits, although an unblock that comes       *)
(* before its block is credited to the wrong process, unless the first     *)
(* process lets its quantum pass before it forks: then nobody ever         *)
(* preempts it again.                                                      *)
GrandchildEnds == <>(qticks < 0 \/ \E t \in Task : pc[t] = "ended" /\ PID[t] = rfork2)

(* The walk over the list of kids, which leads through the queues, always  *)
(* meets the grandchild, even after that has exited, so that unblock does  *)
(* not fail and the kernel does not stop.                                  *)
GrandchildFound ==
  /\ fault = "none" /\ ~ tangled
  /\ \A t \in Task : At(t, "unblock") => \A u \in Search(rfork2) : u \in Task /\ dad[u] = t
=============================================================================
