------------------------------ MODULE TaskLists ------------------------------
(***************************************************************************)
(* The circular doubly linked lists of ZeOSSysenter/zeos/list.c, which the *)
(* kernel uses for the free queue, the ready queue and the queue of the    *)
(* threads blocked on each semaphore.                                      *)
(*                                                                         *)
(* A list head is a key of the function L, and the list is the sequence of *)
(* the tasks whose node hangs from that head, first node first.  This is   *)
(* exact as long as every node is linked at most once, which is what the   *)
(* invariant ListDiscipline of module Processes states.                    *)
(***************************************************************************)
EXTENDS Integers, Sequences, Functions

list_empty(L, head) == L[head] = << >>

list_first(L, head) == L[head][1]

(* Links task t right behind the head: the list works as a stack.          *)
list_add(L, t, head) == [L EXCEPT ![head] = << t >> \o @]

(* Links task t in front of the head: the list works as a queue.           *)
list_add_tail(L, t, head) == [L EXCEPT ![head] = Append(@, t)]

(* list_del of the node that list_first has just returned.                 *)
list_del_first(L, head) == [L EXCEPT ![head] = Tail(@)]

(* list_del of the node of task t, wherever it is linked.                  *)
list_del(L, t) == [h \in DOMAIN L |-> SelectSeq(L[h], LAMBDA u : u # t)]

(* INIT_LIST_HEAD on each of the given heads.  The nodes that hung from    *)
(* them are not touched: they simply hang from no head any more.           *)
INIT_LIST_HEAD(L, heads) ==
  [h \in DOMAIN L |-> IF h \in heads THEN << >> ELSE L[h]]

(* Mutant: the list is emptied and its nodes go nowhere.                   *)
MutNotMoved(L, from, to) == INIT_LIST_HEAD(L, {from})

(* The loop of sys_semDestroy: list_first, list_del and list_add_tail      *)
(* until the list from is empty, first node first.                         *)
list_move_all(L, from, to) == [L EXCEPT ![from] = << >>, ![to] = @ \o L[from]]

(* The tasks linked in a list.                                             *)
Members(L, head) == Range(L[head])
=============================================================================
