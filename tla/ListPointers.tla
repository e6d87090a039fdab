---------------------------- MODULE ListPointers ----------------------------
(***************************************************************************)
(* The circular doubly linked lists of list.c, pointer by pointer.  (The   *)
(* file is the same in both kernels; TaskLists has the lists of the later  *)
(* one as sequences, which is enough there.)                               *)
(*                                                                         *)
(* A cell is a struct list_head, be it the head of a list or the node in a *)
(* task_struct, and p is a record of two functions on cells, p.next and    *)
(* p.prev.  A cell that was never initialized, or that list_del removed,   *)
(* holds NULL.                                                             *)
(***************************************************************************)
EXTENDS Integers, FiniteSets

CONSTANT Cell  \* numbers for the list heads and the nodes; NULL is none of them

NULL == -1000

INIT_LIST_HEAD(p, list) ==
  [next |-> [p.next EXCEPT ![list] = list], prev |-> [p.prev EXCEPT ![list] = list]]

__list_add(p, new, prev, next) ==
  [next |-> [p.next EXCEPT ![new] = next, ![prev] = new],
   prev |-> [p.prev EXCEPT ![next] = new, ![new] = prev]]

list_add(p, new, head) == __list_add(p, new, head, p.next[head])

(* Mutant: the node is linked behind the head.                             *)
MutAddFirst(p, new, head) == __list_add(p, new, head, p.next[head])

list_add_tail(p, new, head) == __list_add(p, new, p.prev[head], head)

__list_del(p, prev, next) ==
  [next |-> [p.next EXCEPT ![prev] = next], prev |-> [p.prev EXCEPT ![next] = prev]]

(* Both neighbours are written to, so that the entry has to be linked.     *)
CanDel(p, entry) == p.next[entry] # NULL /\ p.prev[entry] # NULL

list_del(p, entry) ==
  LET q == __list_del(p, p.prev[entry], p.next[entry])
  IN [next |-> [q.next EXCEPT ![entry] = NULL], prev |-> [q.prev EXCEPT ![entry] = NULL]]

list_empty(p, head) == p.next[head] = head

list_first(p, head) == p.next[head]

(* The cells list_for_each visits, in order.  The walk ends at the head,   *)
(* or at NULL; one that is at neither after as many steps as there are     *)
(* cells goes round for ever.                                              *)
list_for_each(p, head) ==
  LET pos[n \in 0 .. Cardinality(Cell)] ==
        IF n = 0 THEN p.next[head]
        ELSE LET c == pos[n - 1]
             IN IF c \in {head, NULL} THEN c ELSE p.next[c]
  IN pos

Visited(p, head) ==
  {list_for_each(p, head)[n] : n \in 0 .. Cardinality(Cell)} \ {head, NULL}

(* A list in order: the walk comes back to its head, and each cell is the  *)
(* predecessor of its successor.                                           *)
ProperList(p, head) ==
  /\ list_for_each(p, head)[Cardinality(Cell)] = head
  /\ \A c \in Visited(p, head) \cup {head} : p.prev[p.next[c]] = c
=============================================================================
