---------------------------- MODULE EarlyProofs -----------------------------
(***************************************************************************)
(* Proofs about the earlier kernel, modules EarlyKernel, EarlyMemory and   *)
(* EarlyProgram, for every number of task structures: pointer by pointer   *)
(* its queues stay proper lists, only a process with children can stop it, *)
(* no frame of data is shared and there are always enough of them, and the *)
(* walk of its program over the children always meets the grandchild.      *)
(*                                                                         *)
(* The part about the lists comes first. A ring is a list in order, and    *)
(* all that the rest uses of it is its head and the set of its cells.      *)
(***************************************************************************)
EXTENDS EarlyMemory, EarlyProgram, BasicFacts, FiniteSetTheorems

Link == Cells \cup {NULL}
Pointers == [next : [Cells -> Link], prev : [Cells -> Link]]

(* The cells of a list of n nodes in order, from the head to the head.     *)
Chain(p, h, n, c) ==
  /\ c[0] = h /\ c[n + 1] = h
  /\ \A i \in 0 .. n : p.next[c[i]] = c[i + 1] /\ p.prev[c[i + 1]] = c[i]
  /\ \A i, j \in 0 .. n : c[i] = c[j] => i = j

Nodes(n, c) == {c[i] : i \in 1 .. n}

Ring(p, h, S) ==
  \E n \in Nat : \E c \in [0 .. n + 1 -> Cells] : Chain(p, h, n, c) /\ S = Nodes(n, c)

(* The cells are also different when the head is counted at the end.       *)
LEMMA ChainEnd ==
  ASSUME NEW p, NEW h, NEW n \in Nat, NEW c \in [0 .. n + 1 -> Cells], Chain(p, h, n, c)
  PROVE  /\ \A i, j \in 1 .. n + 1 : c[i] = c[j] => i = j
         /\ \A i \in 1 .. n : c[i] # h
         /\ h \in Cells
<1>1. \A i \in 1 .. n : c[i] # h
  BY DEF Chain
<1>2. ASSUME NEW i \in 1 .. n + 1, NEW j \in 1 .. n + 1, c[i] = c[j] PROVE i = j
  <2>1. CASE i = n + 1
    BY <1>1, <1>2, <2>1 DEF Chain
  <2>2. CASE j = n + 1
    BY <1>1, <1>2, <2>2 DEF Chain
  <2>3. CASE i # n + 1 /\ j # n + 1
    <3>1. i \in 0 .. n /\ j \in 0 .. n
      BY <2>3
    <3> QED
      BY <1>2, <3>1 DEF Chain
  <2> QED
    BY <2>1, <2>2, <2>3
<1>3. h \in Cells
  BY DEF Chain
<1> QED
  BY <1>1, <1>2, <1>3

(* A cell that is linked between two neighbours of a ring: __list_add.     *)
LEMMA ChainInsert ==
  ASSUME NEW p \in Pointers, NEW h, NEW n \in Nat, NEW c \in [0 .. n + 1 -> Cells],
         Chain(p, h, n, c), NEW k \in 0 .. n, NEW new \in Cells,
         \A i \in 0 .. n : c[i] # new
  PROVE  Ring(__list_add(p, new, c[k], c[k + 1]), h, Nodes(n, c) \cup {new})
<1> DEFINE q == __list_add(p, new, c[k], c[k + 1])
           m == n + 1
           d == [i \in 0 .. m + 1 |-> IF i <= k THEN c[i] ELSE IF i = k + 1 THEN new ELSE c[i - 1]]
<1>1. /\ \A i \in 0 .. n : p.next[c[i]] = c[i + 1] /\ p.prev[c[i + 1]] = c[i]
      /\ \A i, j \in 0 .. n : c[i] = c[j] => i = j
      /\ \A i, j \in 1 .. n + 1 : c[i] = c[j] => i = j
      /\ c[0] = h /\ c[n + 1] = h /\ c[n + 1] # new
  BY ChainEnd DEF Chain
<1>2. /\ q.next = [p.next EXCEPT ![new] = c[k + 1], ![c[k]] = new]
      /\ q.prev = [p.prev EXCEPT ![c[k + 1]] = new, ![new] = c[k]]
      /\ p.next \in [Cells -> Link] /\ p.prev \in [Cells -> Link]
  BY DEF __list_add, Pointers
<1>3. c[k] \in Cells /\ c[k + 1] \in Cells /\ c[k] # new /\ c[k + 1] # new
  BY <1>1
<1>4. /\ q.next[new] = c[k + 1] /\ q.next[c[k]] = new
      /\ q.prev[new] = c[k] /\ q.prev[c[k + 1]] = new
      /\ \A e \in Cells \ {new, c[k]} : q.next[e] = p.next[e]
      /\ \A e \in Cells \ {new, c[k + 1]} : q.prev[e] = p.prev[e]
  BY <1>2, <1>3
<1> HIDE DEF q
<1>5. d \in [0 .. m + 1 -> Cells]
  OBVIOUS
<1>6. /\ \A i \in 0 .. k : d[i] = c[i]
      /\ d[k + 1] = new
      /\ \A i \in k + 2 .. n + 2 : d[i] = c[i - 1]
  OBVIOUS
<1> HIDE DEF d
<1>7. d[0] = h /\ d[m + 1] = h
  BY <1>1, <1>6
<1>8. ASSUME NEW i \in 0 .. m
      PROVE  q.next[d[i]] = d[i + 1] /\ q.prev[d[i + 1]] = d[i]
  <2>1. CASE i < k
    <3>1. d[i] = c[i] /\ d[i + 1] = c[i + 1] /\ i \in 0 .. n /\ i + 1 \in 1 .. n
      BY <1>6, <2>1
    <3>2. c[i] # c[k] /\ c[i + 1] # c[k + 1]
      BY <1>1, <2>1, <3>1
    <3>3. c[i] # new /\ c[i + 1] # new /\ c[i] \in Cells /\ c[i + 1] \in Cells
      BY <3>1
    <3> QED
      BY <1>1, <1>4, <3>1, <3>2, <3>3
  <2>2. CASE i = k
    BY <1>4, <1>6, <2>2
  <2>3. CASE i = k + 1
    <3>1. d[i] = new /\ d[i + 1] = c[k + 1]
      BY <1>6, <2>3
    <3> QED
      BY <1>4, <3>1
  <2>4. CASE i > k + 1
    <3>1. d[i] = c[i - 1] /\ d[i + 1] = c[i] /\ i - 1 \in 1 .. n /\ i - 1 \in 0 .. n /\ i \in 1 .. n + 1
      BY <1>6, <2>4
    <3>2. c[i - 1] # c[k] /\ c[i] # c[k + 1]
      BY <1>1, <2>4, <3>1
    <3>3. c[i - 1] # new /\ c[i] # new /\ c[i - 1] \in Cells /\ c[i] \in Cells
      BY <1>1, <3>1
    <3>4. p.next[c[i - 1]] = c[(i - 1) + 1] /\ p.prev[c[(i - 1) + 1]] = c[i - 1] /\ (i - 1) + 1 = i
      BY <1>1, <3>1
    <3> QED
      BY <1>4, <3>1, <3>2, <3>3, <3>4
  <2> QED
    BY <2>1, <2>2, <2>3, <2>4
<1>9. ASSUME NEW i \in 0 .. m, NEW j \in 0 .. m, d[i] = d[j] PROVE i = j
  <2> DEFINE at(a) == IF a <= k THEN a ELSE a - 1
  <2>1. \A a \in 0 .. m : a # k + 1 => d[a] = c[at(a)] /\ at(a) \in 0 .. n
    BY <1>6
  <2>2. CASE i = k + 1 \/ j = k + 1
    BY <1>6, <1>9, <2>1, <2>2
  <2>3. CASE i # k + 1 /\ j # k + 1
    <3>1. at(i) = at(j)
      BY <1>1, <1>9, <2>1, <2>3
    <3> QED
      BY <2>3, <3>1
  <2> QED
    BY <2>2, <2>3
<1>10. Nodes(m, d) = Nodes(n, c) \cup {new}
  <2>1. Nodes(m, d) \subseteq Nodes(n, c) \cup {new}
    <3> SUFFICES ASSUME NEW i \in 1 .. m, i # k + 1 PROVE d[i] \in Nodes(n, c)
      BY <1>6 DEF Nodes
    <3>1. CASE i <= k
      BY <1>6, <3>1 DEF Nodes
    <3>2. CASE i > k
      BY <1>6, <3>2 DEF Nodes
    <3> QED
      BY <3>1, <3>2
  <2>2. ASSUME NEW i \in 1 .. n PROVE c[i] \in Nodes(m, d)
    <3>1. CASE i <= k
      BY <1>6, <3>1 DEF Nodes
    <3>2. CASE i > k
      <4>1. d[i + 1] = c[i] /\ i + 1 \in 1 .. m
        BY <1>6, <3>2
      <4> QED
        BY <4>1 DEF Nodes
    <3> QED
      BY <3>1, <3>2
  <2>3. new \in Nodes(m, d)
    BY <1>6 DEF Nodes
  <2> QED
    BY <2>1, <2>2, <2>3 DEF Nodes
<1>11. Chain(q, h, m, d)
  BY <1>7, <1>8, <1>9 DEF Chain
<1>12. m \in Nat
  OBVIOUS
<1> HIDE DEF m
<1>13. Ring(q, h, Nodes(n, c) \cup {new})
  BY <1>5, <1>10, <1>11, <1>12 DEF Ring
<1> QED
  BY <1>13 DEF q

(* A cell of a ring that is taken out of it: list_del.                     *)
LEMMA ChainRemove ==
  ASSUME NEW p \in Pointers, NEW h, NEW n \in Nat, NEW c \in [0 .. n + 1 -> Cells],
         Chain(p, h, n, c), NEW k \in 1 .. n
  PROVE  Ring(list_del(p, c[k]), h, Nodes(n, c) \ {c[k]})
<1> DEFINE q == list_del(p, c[k])
           m == n - 1
           d == [i \in 0 .. m + 1 |-> IF i < k THEN c[i] ELSE c[i + 1]]
<1>1. /\ \A i \in 0 .. n : p.next[c[i]] = c[i + 1] /\ p.prev[c[i + 1]] = c[i]
      /\ \A i, j \in 0 .. n : c[i] = c[j] => i = j
      /\ \A i, j \in 1 .. n + 1 : c[i] = c[j] => i = j
      /\ c[0] = h /\ c[n + 1] = h /\ \A i \in 1 .. n : c[i] # h
  BY ChainEnd DEF Chain
<1>2. p.next[c[k]] = c[k + 1] /\ p.prev[c[k]] = c[k - 1]
  <2>1. k \in 0 .. n /\ k - 1 \in 0 .. n /\ (k - 1) + 1 = k
    OBVIOUS
  <2> QED
    BY <1>1, <2>1
<1>3. /\ q.next = [[p.next EXCEPT ![c[k - 1]] = c[k + 1]] EXCEPT ![c[k]] = NULL]
      /\ q.prev = [[p.prev EXCEPT ![c[k + 1]] = c[k - 1]] EXCEPT ![c[k]] = NULL]
      /\ p.next \in [Cells -> Link] /\ p.prev \in [Cells -> Link]
  BY <1>2 DEF list_del, __list_del, Pointers
<1>4. /\ c[k - 1] \in Cells /\ c[k + 1] \in Cells /\ c[k] \in Cells
      /\ c[k - 1] # c[k] /\ c[k + 1] # c[k]
  <2>1. /\ k - 1 \in 0 .. n /\ k \in 0 .. n /\ k - 1 # k
        /\ k \in 1 .. n + 1 /\ k + 1 \in 1 .. n + 1 /\ k + 1 # k
        /\ k - 1 \in 0 .. n + 1 /\ k \in 0 .. n + 1 /\ k + 1 \in 0 .. n + 1
    OBVIOUS
  <2>2. c[k - 1] # c[k]
    BY <1>1, <2>1, Zenon
  <2>3. c[k + 1] # c[k]
    BY <1>1, <2>1, Zenon
  <2> QED
    BY <2>1, <2>2, <2>3
<1>5. /\ q.next[c[k - 1]] = c[k + 1] /\ q.prev[c[k + 1]] = c[k - 1]
      /\ \A e \in Cells \ {c[k], c[k - 1]} : q.next[e] = p.next[e]
      /\ \A e \in Cells \ {c[k], c[k + 1]} : q.prev[e] = p.prev[e]
  BY <1>3, <1>4
<1> HIDE DEF q
<1>6. d \in [0 .. m + 1 -> Cells]
  OBVIOUS
<1>7. /\ \A i \in 0 .. k - 1 : d[i] = c[i]
      /\ \A i \in k .. n : d[i] = c[i + 1]
  OBVIOUS
<1> HIDE DEF d
<1>8. d[0] = h /\ d[m + 1] = h
  BY <1>1, <1>7
<1>9. ASSUME NEW i \in 0 .. m
      PROVE  q.next[d[i]] = d[i + 1] /\ q.prev[d[i + 1]] = d[i]
  <2>1. CASE i < k - 1
    <3>1. d[i] = c[i] /\ d[i + 1] = c[i + 1] /\ i \in 0 .. n /\ i + 1 \in 1 .. n /\ i + 1 \in 0 .. n
      BY <1>7, <2>1
    <3>2. c[i] # c[k] /\ c[i] # c[k - 1] /\ c[i + 1] # c[k] /\ c[i + 1] # c[k + 1]
      BY <1>1, <2>1, <3>1
    <3>3. c[i] \in Cells /\ c[i + 1] \in Cells /\ p.next[c[i]] = c[i + 1] /\ p.prev[c[i + 1]] = c[i]
      BY <1>1, <3>1
    <3> QED
      BY <1>5, <3>1, <3>2, <3>3
  <2>2. CASE i = k - 1
    <3>1. d[i] = c[k - 1] /\ d[i + 1] = c[k + 1]
      BY <1>7, <2>2
    <3> QED
      BY <1>5, <3>1
  <2>3. CASE i > k - 1
    <3>1. d[i] = c[i + 1] /\ d[i + 1] = c[(i + 1) + 1] /\ i + 1 \in 0 .. n /\ i + 1 \in 1 .. n + 1
          /\ (i + 1) + 1 \in 1 .. n + 1
      BY <1>7, <2>3
    <3>2. c[i + 1] # c[k] /\ c[(i + 1) + 1] # c[k] /\ c[(i + 1) + 1] # c[k + 1]
      BY <1>1, <2>3, <3>1
    <3>3. c[i + 1] # c[k - 1]
      <4>1. k - 1 \in 0 .. n /\ k - 1 # i + 1
        BY <2>3
      <4> QED
        BY <1>1, <3>1, <4>1
    <3>4. /\ c[i + 1] \in Cells /\ c[(i + 1) + 1] \in Cells
          /\ p.next[c[i + 1]] = c[(i + 1) + 1] /\ p.prev[c[(i + 1) + 1]] = c[i + 1]
      BY <1>1, <3>1
    <3> QED
      BY <1>5, <3>1, <3>2, <3>3, <3>4
  <2> QED
    BY <2>1, <2>2, <2>3
<1>10. ASSUME NEW i \in 0 .. m, NEW j \in 0 .. m, d[i] = d[j] PROVE i = j
  <2> DEFINE at(a) == IF a < k THEN a ELSE a + 1
  <2>1. \A a \in 0 .. m : d[a] = c[at(a)] /\ at(a) \in 0 .. n
    BY <1>7
  <2>2. at(i) = at(j)
    <3>1. c[at(i)] = c[at(j)] /\ at(i) \in 0 .. n /\ at(j) \in 0 .. n
      BY <1>10, <2>1
    <3> HIDE DEF at
    <3> QED
      BY <1>1, <3>1
  <2> QED
    BY <2>2
<1>11. Nodes(m, d) = Nodes(n, c) \ {c[k]}
  <2>1. ASSUME NEW i \in 1 .. m PROVE d[i] \in Nodes(n, c) \ {c[k]}
    <3>1. CASE i < k
      BY <1>1, <1>7, <3>1 DEF Nodes
    <3>2. CASE i >= k
      BY <1>1, <1>7, <3>2 DEF Nodes
    <3> QED
      BY <3>1, <3>2
  <2>2. ASSUME NEW i \in 1 .. n, i # k PROVE c[i] \in Nodes(m, d)
    <3>1. CASE i < k
      <4>1. d[i] = c[i] /\ i \in 1 .. m
        BY <1>7, <3>1
      <4> QED
        BY <4>1 DEF Nodes
    <3>2. CASE i > k
      <4>1. d[i - 1] = c[(i - 1) + 1] /\ (i - 1) + 1 = i /\ i - 1 \in 1 .. m
        BY <1>7, <3>2
      <4> QED
        BY <4>1 DEF Nodes
    <3> QED
      BY <2>2, <3>1, <3>2
  <2> QED
    BY <2>1, <2>2 DEF Nodes
<1>12. Chain(q, h, m, d)
  BY <1>8, <1>9, <1>10 DEF Chain
<1>13. m \in Nat
  OBVIOUS
<1> HIDE DEF m
<1>14. Ring(q, h, Nodes(n, c) \ {c[k]})
  BY <1>6, <1>11, <1>12, <1>13 DEF Ring
<1> QED
  BY <1>14 DEF q

(* What is known of the head and the cells of a ring.                      *)
LEMMA RingFacts ==
  ASSUME NEW p \in Pointers, NEW h, NEW S, Ring(p, h, S)
  PROVE  /\ h \in Cells /\ h \notin S /\ S \subseteq Cells
         /\ list_empty(p, h) <=> S = {}
         /\ p.prev[h] = h <=> S = {}
         /\ S # {} => p.next[h] \in S /\ p.prev[h] \in S
         /\ \A t \in S : CanDel(p, t) /\ {p.next[t], p.prev[t]} \subseteq S \cup {h}
<1>0. PICK n \in Nat : \E c \in [0 .. n + 1 -> Cells] : Chain(p, h, n, c) /\ S = Nodes(n, c)
  BY DEF Ring
<1>1. PICK c \in [0 .. n + 1 -> Cells] : Chain(p, h, n, c) /\ S = Nodes(n, c)
  BY <1>0
<1>2. /\ \A i \in 0 .. n : p.next[c[i]] = c[i + 1] /\ p.prev[c[i + 1]] = c[i]
      /\ c[0] = h /\ c[n + 1] = h /\ h \in Cells
      /\ \A i \in 1 .. n : c[i] # h
  BY <1>1, ChainEnd DEF Chain
<1>3. h \notin S /\ S \subseteq Cells
  BY <1>1, <1>2 DEF Nodes
<1>4. \A i \in 0 .. n + 1 : c[i] \in S \cup {h}
  BY <1>1, <1>2 DEF Nodes
<1>5. p.next[h] = c[1] /\ p.prev[h] = c[n]
  <2>1. 0 \in 0 .. n /\ n \in 0 .. n /\ 0 + 1 = 1
    OBVIOUS
  <2> QED
    BY <1>2, <2>1
<1>6. CASE n = 0
  <2>1. S = {} /\ p.next[h] = h /\ p.prev[h] = h
    BY <1>1, <1>2, <1>5, <1>6 DEF Nodes
  <2> QED
    BY <1>2, <2>1 DEF list_empty
<1>7. CASE n # 0
  <2>1. 1 \in 1 .. n /\ n \in 1 .. n
    BY <1>7
  <2>2. c[1] \in S /\ c[n] \in S
    BY <1>1, <2>1 DEF Nodes
  <2>3. ASSUME NEW i \in 1 .. n
        PROVE  CanDel(p, c[i]) /\ {p.next[c[i]], p.prev[c[i]]} \subseteq S \cup {h}
    <3>1. i \in 0 .. n /\ i - 1 \in 0 .. n /\ (i - 1) + 1 = i /\ i + 1 \in 0 .. n + 1 /\ i - 1 \in 0 .. n + 1
      OBVIOUS
    <3>2. p.next[c[i]] = c[i + 1] /\ p.prev[c[i]] = c[i - 1]
      BY <1>2, <3>1
    <3>3. c[i + 1] \in Cells /\ c[i - 1] \in Cells
      BY <3>1
    <3>4. NULL \notin Cells
      BY EarlyAssumption DEF NULL, Cells, Task, kids, freequeue, readyqueue, blocked
    <3> QED
      BY <1>4, <3>1, <3>2, <3>3, <3>4 DEF CanDel
  <2>4. \A t \in S : CanDel(p, t) /\ {p.next[t], p.prev[t]} \subseteq S \cup {h}
    BY <1>1, <2>3 DEF Nodes
  <2> QED
    BY <1>2, <1>3, <1>5, <2>2, <2>4 DEF list_empty
<1> QED
  BY <1>6, <1>7

(* Only the head and the cells matter.                                     *)
LEMMA RingFrame ==
  ASSUME NEW p, NEW h, NEW S, Ring(p, h, S), NEW q,
         \A e \in S \cup {h} : q.next[e] = p.next[e] /\ q.prev[e] = p.prev[e]
  PROVE  Ring(q, h, S)
<1>0. PICK n \in Nat : \E c \in [0 .. n + 1 -> Cells] : Chain(p, h, n, c) /\ S = Nodes(n, c)
  BY DEF Ring
<1>1. PICK c \in [0 .. n + 1 -> Cells] : Chain(p, h, n, c) /\ S = Nodes(n, c)
  BY <1>0
<1>2. \A i \in 0 .. n + 1 : c[i] \in S \cup {h}
  <2> SUFFICES ASSUME NEW i \in 0 .. n + 1 PROVE c[i] \in S \cup {h}
    OBVIOUS
  <2>1. i \in 1 .. n \/ i = 0 \/ i = n + 1
    OBVIOUS
  <2> QED
    BY <1>1, <2>1 DEF Chain, Nodes
<1>3. ASSUME NEW i \in 0 .. n
      PROVE  q.next[c[i]] = c[i + 1] /\ q.prev[c[i + 1]] = c[i]
  <2>1. i \in 0 .. n + 1 /\ i + 1 \in 0 .. n + 1
    OBVIOUS
  <2> QED
    BY <1>1, <1>2, <2>1 DEF Chain
<1>4. Chain(q, h, n, c)
  BY <1>1, <1>3 DEF Chain
<1> QED
  BY <1>1, <1>4 DEF Ring

(* The operations give pointers.                                           *)
LEMMA OperationTypes ==
  ASSUME NEW p \in Pointers, NEW new \in Cells, NEW h \in Cells
  PROVE  /\ INIT_LIST_HEAD(p, h) \in Pointers
         /\ list_add(p, new, h) \in Pointers
         /\ list_add_tail(p, new, h) \in Pointers
         /\ list_del(p, new) \in Pointers
<1>1. p.next \in [Cells -> Link] /\ p.prev \in [Cells -> Link] /\ NULL \in Link /\ Cells \subseteq Link
  BY DEF Pointers, Link
<1>2. p.next[h] \in Link /\ p.prev[h] \in Link /\ p.next[new] \in Link /\ p.prev[new] \in Link
  BY <1>1
<1> HIDE DEF Link
<1>3. INIT_LIST_HEAD(p, h) \in Pointers
  BY <1>1 DEF INIT_LIST_HEAD, Pointers
<1>4. list_add(p, new, h) \in Pointers
  BY <1>1, <1>2 DEF list_add, __list_add, Pointers
<1>5. list_add_tail(p, new, h) \in Pointers
  BY <1>1, <1>2 DEF list_add_tail, __list_add, Pointers
<1>6. list_del(p, new) \in Pointers
  BY <1>1, <1>2 DEF list_del, __list_del, Pointers
<1> QED
  BY <1>3, <1>4, <1>5, <1>6

(* The cells that each operation writes.                                   *)
LEMMA OperationFrames ==
  ASSUME NEW p \in Pointers, NEW new \in Cells, NEW h \in Cells, NEW e \in Cells
  PROVE  /\ e # h => /\ INIT_LIST_HEAD(p, h).next[e] = p.next[e]
                     /\ INIT_LIST_HEAD(p, h).prev[e] = p.prev[e]
         /\ e \notin {new, h, p.next[h]} => /\ list_add(p, new, h).next[e] = p.next[e]
                                            /\ list_add(p, new, h).prev[e] = p.prev[e]
         /\ e \notin {new, h, p.prev[h]} => /\ list_add_tail(p, new, h).next[e] = p.next[e]
                                            /\ list_add_tail(p, new, h).prev[e] = p.prev[e]
         /\ e \notin {new, p.next[new], p.prev[new]} => /\ list_del(p, new).next[e] = p.next[e]
                                                        /\ list_del(p, new).prev[e] = p.prev[e]
<1>1. p.next \in [Cells -> Link] /\ p.prev \in [Cells -> Link]
  BY DEF Pointers
<1>2. e # h => /\ INIT_LIST_HEAD(p, h).next[e] = p.next[e]
               /\ INIT_LIST_HEAD(p, h).prev[e] = p.prev[e]
  BY <1>1 DEF INIT_LIST_HEAD
<1>3. e \notin {new, h, p.next[h]} => /\ list_add(p, new, h).next[e] = p.next[e]
                                      /\ list_add(p, new, h).prev[e] = p.prev[e]
  BY <1>1 DEF list_add, __list_add
<1>4. e \notin {new, h, p.prev[h]} => /\ list_add_tail(p, new, h).next[e] = p.next[e]
                                      /\ list_add_tail(p, new, h).prev[e] = p.prev[e]
  BY <1>1 DEF list_add_tail, __list_add
<1>5. e \notin {new, p.next[new], p.prev[new]} => /\ list_del(p, new).next[e] = p.next[e]
                                                  /\ list_del(p, new).prev[e] = p.prev[e]
  BY <1>1 DEF list_del, __list_del
<1> QED
  BY <1>2, <1>3, <1>4, <1>5

(* list_add and list_add_tail link a cell.                                 *)
LEMMA RingAdd ==
  ASSUME NEW p \in Pointers, NEW h, NEW S, Ring(p, h, S), NEW new \in Cells \ (S \cup {h})
  PROVE  /\ Ring(list_add(p, new, h), h, S \cup {new})
         /\ Ring(list_add_tail(p, new, h), h, S \cup {new})
<1>0. PICK n \in Nat : \E c \in [0 .. n + 1 -> Cells] : Chain(p, h, n, c) /\ S = Nodes(n, c)
  BY DEF Ring
<1>1. PICK c \in [0 .. n + 1 -> Cells] : Chain(p, h, n, c) /\ S = Nodes(n, c)
  BY <1>0
<1>2. \A i \in 0 .. n : c[i] # new
  <2> SUFFICES ASSUME NEW i \in 0 .. n PROVE c[i] # new
    OBVIOUS
  <2>1. i \in 1 .. n \/ i = 0
    OBVIOUS
  <2> QED
    BY <1>1, <2>1 DEF Chain, Nodes
<1>3. 0 \in 0 .. n /\ n \in 0 .. n /\ 0 + 1 = 1
  OBVIOUS
<1>4. c[0] = h /\ c[n + 1] = h /\ p.next[h] = c[0 + 1] /\ p.prev[h] = c[n]
  BY <1>1, <1>3 DEF Chain
<1>5. Ring(__list_add(p, new, c[0], c[0 + 1]), h, S \cup {new})
  BY <1>1, <1>2, <1>3, ChainInsert
<1>6. Ring(__list_add(p, new, c[n], c[n + 1]), h, S \cup {new})
  BY <1>1, <1>2, <1>3, ChainInsert
<1> QED
  BY <1>4, <1>5, <1>6 DEF list_add, list_add_tail

(* list_del unlinks one.                                                   *)
LEMMA RingDel ==
  ASSUME NEW p \in Pointers, NEW h, NEW S, Ring(p, h, S), NEW t \in S
  PROVE  Ring(list_del(p, t), h, S \ {t})
<1>0. PICK n \in Nat : \E c \in [0 .. n + 1 -> Cells] : Chain(p, h, n, c) /\ S = Nodes(n, c)
  BY DEF Ring
<1>1. PICK c \in [0 .. n + 1 -> Cells] : Chain(p, h, n, c) /\ S = Nodes(n, c)
  BY <1>0
<1>2. PICK k \in 1 .. n : t = c[k]
  BY <1>1 DEF Nodes
<1> QED
  BY <1>1, <1>2, ChainRemove

(* A new list is empty.                                                    *)
LEMMA RingInit ==
  ASSUME NEW p \in Pointers, NEW h \in Cells
  PROVE  Ring(INIT_LIST_HEAD(p, h), h, {})
<1> DEFINE c == [i \in 0 .. 0 + 1 |-> h]
           q == INIT_LIST_HEAD(p, h)
<1>1. q.next[h] = h /\ q.prev[h] = h
  BY DEF INIT_LIST_HEAD, Pointers
<1>2. c \in [0 .. 0 + 1 -> Cells] /\ c[0] = h /\ c[0 + 1] = h
  OBVIOUS
<1> HIDE DEF c, q
<1>3. Chain(q, h, 0, c)
  BY <1>1, <1>2 DEF Chain
<1>4. Nodes(0, c) = {}
  BY DEF Nodes
<1> QED
  BY <1>2, <1>3, <1>4 DEF Ring, q

(* Linking a cell in a ring, or unlinking one, leaves the other rings.     *)
LEMMA RingOthers ==
  ASSUME NEW p \in Pointers, NEW h, NEW S, Ring(p, h, S), NEW g, NEW U, Ring(p, g, U),
         (S \cup {h}) \cap (U \cup {g}) = {}
  PROVE  /\ \A new \in Cells \ (U \cup {g}) : /\ Ring(list_add(p, new, h), g, U)
                                              /\ Ring(list_add_tail(p, new, h), g, U)
         /\ \A t \in S : Ring(list_del(p, t), g, U)
<1>1. /\ h \in Cells /\ g \in Cells /\ S \subseteq Cells /\ U \subseteq Cells
      /\ p.next[h] \in S \cup {h} /\ p.prev[h] \in S \cup {h}
      /\ \A t \in S : p.next[t] \in S \cup {h} /\ p.prev[t] \in S \cup {h}
  BY RingFacts DEF list_empty
<1>2. ASSUME NEW new \in Cells \ (U \cup {g})
      PROVE  Ring(list_add(p, new, h), g, U) /\ Ring(list_add_tail(p, new, h), g, U)
  <2>1. ASSUME NEW e \in U \cup {g}
        PROVE  e \in Cells /\ e \notin {new, h, p.next[h]} /\ e \notin {new, h, p.prev[h]}
    BY <1>1
  <2>2. \A e \in U \cup {g} : /\ list_add(p, new, h).next[e] = p.next[e]
                              /\ list_add(p, new, h).prev[e] = p.prev[e]
                              /\ list_add_tail(p, new, h).next[e] = p.next[e]
                              /\ list_add_tail(p, new, h).prev[e] = p.prev[e]
    BY <1>1, <2>1, OperationFrames
  <2> QED
    BY <2>2, RingFrame
<1>3. ASSUME NEW t \in S
      PROVE  Ring(list_del(p, t), g, U)
  <2>1. ASSUME NEW e \in U \cup {g}
        PROVE  e \in Cells /\ t \in Cells /\ e \notin {t, p.next[t], p.prev[t]}
    BY <1>1
  <2>2. \A e \in U \cup {g} : /\ list_del(p, t).next[e] = p.next[e]
                              /\ list_del(p, t).prev[e] = p.prev[e]
    BY <1>1, <2>1, OperationFrames
  <2> QED
    BY <2>2, RingFrame
<1> QED
  BY <1>2, <1>3

(* The cells are so many numbers.                                          *)
LEMMA CellsFinite == /\ Cells = -3 .. 2 * NR_TASKS - 1
                     /\ IsFiniteSet(Cells) /\ Cardinality(Cells) \in Nat
                     /\ NULL \notin Cells
<1>1. Cells = -3 .. 2 * NR_TASKS - 1
  <2>1. {kids(t) : t \in Task} = NR_TASKS .. 2 * NR_TASKS - 1
    <3>1. ASSUME NEW k \in NR_TASKS .. 2 * NR_TASKS - 1 PROVE k \in {kids(t) : t \in Task}
      <4>1. k - NR_TASKS \in Task /\ kids(k - NR_TASKS) = k
        BY EarlyAssumption DEF Task, kids
      <4> QED
        BY <4>1
    <3> QED
      BY <3>1, EarlyAssumption DEF Task, kids
  <2> QED
    BY <2>1, EarlyAssumption DEF Cells, Task, freequeue, readyqueue, blocked
<1>2. -3 \in Int /\ 2 * NR_TASKS - 1 \in Int
  BY EarlyAssumption
<1>3. IsFiniteSet(Cells)
  BY <1>1, <1>2, FS_Interval
<1>4. Cardinality(Cells) \in Nat
  BY <1>3, FS_CardinalityType
<1>5. NULL \notin Cells
  BY <1>1, EarlyAssumption DEF NULL
<1> QED
  BY <1>1, <1>3, <1>4, <1>5

(* The equations of a walk.                                                *)
Walks(p, h, pos) ==
  /\ DOMAIN pos = 0 .. Cardinality(Cells)
  /\ pos[0] = p.next[h]
  /\ \A k \in 1 .. Cardinality(Cells) :
       pos[k] = IF pos[k - 1] \in {h, NULL} THEN pos[k - 1] ELSE p.next[pos[k - 1]]

(* list_for_each is well defined.                                          *)
LEMMA WalkSteps ==
  ASSUME NEW p \in Pointers, NEW h \in Cells
  PROVE  Walks(p, h, list_for_each(p, h))
<1> DEFINE N == Cardinality(Cells)
           After(c) == IF c \in {h, NULL} THEN c ELSE p.next[c]
           Eq(f) == f = [k \in 0 .. N |-> IF k = 0 THEN p.next[h] ELSE After(f[k - 1])]
           pos == CHOOSE f : Eq(f)
           step == [k \in 1 .. N |-> [c \in Link |-> After(c)]]
           base == p.next[h]
<1>1. list_for_each(p, h) = pos
  BY DEF list_for_each
<1>2. N \in Nat
  BY CellsFinite
<1>3. base \in Link /\ \A c \in Link : After(c) \in Link
  BY CellsFinite DEF Link, Pointers
<1> HIDE DEF N, After, base
<1>4. step \in [1 .. N -> [Link -> Link]]
  BY <1>3
<1>5. PICK g \in [0 .. N -> Link] : Recursion(N, step, base, g)
  <2> HIDE DEF step
  <2> QED
    BY ONLY <1>2, <1>3, <1>4, RecursionExists
<1>6. ASSUME NEW k \in 0 .. N
      PROVE  g[k] = IF k = 0 THEN base ELSE After(g[k - 1])
  <2>1. CASE k = 0
    BY <1>5, <2>1 DEF Recursion
  <2>2. CASE k # 0
    <3>1. k \in 1 .. N /\ k - 1 \in 0 .. N
      BY <1>2, <2>2
    <3>2. g[k - 1] \in Link /\ g[k] = step[k][g[k - 1]]
      BY <1>5, <3>1, Zenon DEF Recursion
    <3> QED
      BY <2>2, <3>1, <3>2, Zenon
  <2> QED
    BY <2>1, <2>2
<1>7. Eq(g)
  BY <1>6, Zenon DEF base
<1>8. Eq(pos)
  BY <1>7
<1> HIDE DEF pos
<1>9. pos[0] = base
  <2>1. 0 \in 0 .. N
    BY <1>2
  <2> QED
    BY <1>8, <2>1, Zenon DEF base
<1>10. ASSUME NEW k \in 1 .. N PROVE pos[k] = After(pos[k - 1])
  <2>1. k \in 0 .. N /\ k # 0
    BY <1>2
  <2> QED
    BY <1>8, <2>1, Zenon
<1>11. DOMAIN pos = 0 .. N
  BY <1>8, Zenon
<1> QED
  BY <1>1, <1>9, <1>10, <1>11 DEF Walks, N, After, base

(* The walk over a ring passes its cells and comes back.                   *)
LEMMA RingProper ==
  ASSUME NEW p \in Pointers, NEW h, NEW S, Ring(p, h, S)
  PROVE  ProperList(p, h) /\ Visited(p, h) = S
<1> DEFINE N == Cardinality(Cells)
           pos == list_for_each(p, h)
<1>0. PICK n \in Nat : \E c \in [0 .. n + 1 -> Cells] : Chain(p, h, n, c) /\ S = Nodes(n, c)
  BY DEF Ring
<1>1. PICK c \in [0 .. n + 1 -> Cells] : Chain(p, h, n, c) /\ S = Nodes(n, c)
  BY <1>0
<1>2. /\ \A i \in 0 .. n : p.next[c[i]] = c[i + 1] /\ p.prev[c[i + 1]] = c[i]
      /\ c[0] = h /\ c[n + 1] = h /\ h \in Cells
      /\ \A i \in 1 .. n : c[i] # h
      /\ \A i, j \in 0 .. n : c[i] = c[j] => i = j
  <2>1. h \in Cells /\ \A i \in 1 .. n : c[i] # h
    BY <1>1, ChainEnd
  <2> QED
    BY <1>1, <2>1 DEF Chain
<1>3. N \in Nat /\ NULL \notin Cells
  BY CellsFinite
<1>4. n + 1 <= N
  <2>1. IsFiniteSet(0 .. n) /\ Cardinality(0 .. n) = n + 1
    <3>1. 0 \in Int /\ n \in Int
      OBVIOUS
    <3> QED
      BY <3>1, FS_Interval
  <2> DEFINE f == [i \in 0 .. n |-> c[i]]
  <2>2. f \in [0 .. n -> Cells]
    OBVIOUS
  <2>3. ASSUME NEW i \in 0 .. n, NEW j \in 0 .. n, i # j PROVE f[i] # f[j]
    BY <1>2, <2>3
  <2> HIDE DEF f
  <2>4. ~ (N < n + 1)
    BY <2>1, <2>2, <2>3, CellsFinite, FS_PigeonHole
  <2> QED
    BY <1>3, <2>4
<1>5. Walks(p, h, pos)
  BY <1>2, WalkSteps
<1> HIDE DEF N, pos
<1> DEFINE T == {k \in 0 .. N : pos[k] = IF k <= n THEN c[k + 1] ELSE h}
<1>6. 0 \in T
  <2>1. 0 \in 0 .. n /\ 0 + 1 = 1
    OBVIOUS
  <2>2. pos[0] = c[0 + 1]
    BY <1>2, <1>5, <2>1 DEF Walks
  <2> QED
    BY <1>3, <2>2
<1>7. ASSUME NEW k \in 0 .. N - 1, k \in T
      PROVE  k + 1 \in T
  <2>1. k + 1 \in 1 .. N /\ (k + 1) - 1 = k /\ k + 1 \in 0 .. N
    BY <1>3
  <2>2. pos[k + 1] = IF pos[k] \in {h, NULL} THEN pos[k] ELSE p.next[pos[k]]
    BY <1>5, <2>1 DEF Walks, N
  <2>3. CASE k < n
    <3>1. k + 1 \in 1 .. n /\ k + 1 \in 0 .. n
      BY <2>3
    <3>2. pos[k] = c[k + 1] /\ c[k + 1] # h /\ c[k + 1] \in Cells
      BY <1>2, <1>7, <2>3, <3>1
    <3>3. pos[k + 1] = c[(k + 1) + 1]
      BY <1>2, <1>3, <2>2, <3>1, <3>2
    <3> QED
      BY <2>1, <2>3, <3>3
  <2>4. CASE k >= n
    <3>1. pos[k] = h
      BY <1>2, <1>7, <2>4
    <3> QED
      BY <2>1, <2>2, <2>4, <3>1
  <2> QED
    BY <2>3, <2>4
<1>8. 0 .. N \subseteq T
  <2> HIDE DEF T
  <2> QED
    BY <1>3, <1>6, <1>7, BoundedInduction
<1>9. /\ \A k \in 0 .. n : pos[k] = c[k + 1]
      /\ \A k \in n .. N : pos[k] = h
  BY <1>2, <1>3, <1>4, <1>8
<1>10. pos[N] = h
  BY <1>3, <1>4, <1>9
<1>11. {pos[k] : k \in 0 .. N} \ {h, NULL} = S
  <2>1. ASSUME NEW k \in 0 .. N, pos[k] # h PROVE pos[k] \in S
    <3>1. k < n
      BY <1>3, <1>9, <2>1
    <3>2. k + 1 \in 1 .. n /\ k \in 0 .. n
      BY <3>1
    <3> QED
      BY <1>1, <1>9, <3>2 DEF Nodes
  <2>2. ASSUME NEW i \in 1 .. n
        PROVE  c[i] \in {pos[k] : k \in 0 .. N} /\ c[i] # h /\ c[i] # NULL
    <3>1. i - 1 \in 0 .. n /\ i - 1 \in 0 .. N /\ (i - 1) + 1 = i
      BY <1>3, <1>4
    <3>2. pos[i - 1] = c[i]
      BY <1>9, <3>1
    <3>3. c[i] \in Cells /\ c[i] # h
      BY <1>2
    <3> QED
      BY <1>3, <3>1, <3>2, <3>3
  <2> QED
    BY <1>1, <2>1, <2>2 DEF Nodes
<1>12. Visited(p, h) = S
  BY <1>11 DEF Visited, pos, N
<1>13. \A e \in S \cup {h} : p.prev[p.next[e]] = e
  <2>1. \A e \in S \cup {h} : \E i \in 0 .. n : e = c[i]
    <3>1. 0 \in 0 .. n
      OBVIOUS
    <3> QED
      BY <1>1, <1>2, <3>1 DEF Nodes
  <2> QED
    BY <1>2, <2>1
<1> QED
  BY <1>10, <1>12, <1>13 DEF ProperList, pos, N

-----------------------------------------------------------------------------
(* The three queues.                                                       *)

States == {"ST_RUN", "ST_READY", "ST_BLOCKED"}

(* A task structure that is free has the state ST_RUN.                     *)
QueueOf(s) == IF s = "ST_RUN" THEN freequeue ELSE IF s = "ST_READY" THEN readyqueue ELSE blocked

Members(st, O, s) == {t \in O : st[t] = s}

(* The tasks in O are in the queues their states ask for, and no others.   *)
Queued(p, st, O) == \A s \in States : Ring(p, QueueOf(s), Members(st, O, s))

(* The cells are different ones.                                           *)
LEMMA Apart ==
  /\ Task \subseteq Cells
  /\ \A s \in States : QueueOf(s) \in Cells \ Task
  /\ \A s, r \in States : QueueOf(s) = QueueOf(r) => s = r
  /\ \A t \in Task : kids(t) \in Cells \ Task /\ \A s \in States : kids(t) # QueueOf(s)
  /\ \A t, u \in Task : kids(t) = kids(u) => t = u
  /\ idle_task \in Task /\ task_1 \in Task /\ idle_task # task_1
  /\ NULL \notin Cells
  BY EarlyAssumption, CellsFinite
     DEF States, QueueOf, Cells, Task, kids, freequeue, readyqueue, blocked, idle_task, task_1

(* What a queue operation leaves alone: the lists of kids.                 *)
SameKids(p, q) ==
  \A t \in Task : q.next[kids(t)] = p.next[kids(t)] /\ q.prev[kids(t)] = p.prev[kids(t)]

(* A task is put at the end of a queue.                                    *)
LEMMA QueuedAdd ==
  ASSUME NEW p \in Pointers, NEW st \in [Task -> States], NEW O \in SUBSET Task,
         Queued(p, st, O), NEW new \in Task \ O, NEW s \in States
  PROVE  /\ list_add_tail(p, new, QueueOf(s)) \in Pointers
         /\ Queued(list_add_tail(p, new, QueueOf(s)), [st EXCEPT ![new] = s], O \cup {new})
         /\ SameKids(p, list_add_tail(p, new, QueueOf(s)))
<1> DEFINE q == list_add_tail(p, new, QueueOf(s))
           su == [st EXCEPT ![new] = s]
<1>1. new \in Cells /\ QueueOf(s) \in Cells
  BY Apart
<1>2. q \in Pointers
  BY <1>1, OperationTypes
<1>3. Ring(p, QueueOf(s), Members(st, O, s))
  BY DEF Queued
<1>4. new \in Cells \ (Members(st, O, s) \cup {QueueOf(s)})
  BY <1>1, Apart DEF Members
<1>5. Members(su, O \cup {new}, s) = Members(st, O, s) \cup {new}
  BY DEF Members
<1>6. Ring(q, QueueOf(s), Members(su, O \cup {new}, s))
  <2>1. Ring(q, QueueOf(s), Members(st, O, s) \cup {new})
    BY <1>3, <1>4, RingAdd
  <2> QED
    BY <1>5, <2>1
<1>7. ASSUME NEW r \in States, r # s
      PROVE  Ring(q, QueueOf(r), Members(su, O \cup {new}, r))
  <2>1. Members(su, O \cup {new}, r) = Members(st, O, r)
    BY <1>7 DEF Members
  <2>2. Ring(p, QueueOf(r), Members(st, O, r))
    BY DEF Queued
  <2>3. (Members(st, O, s) \cup {QueueOf(s)}) \cap (Members(st, O, r) \cup {QueueOf(r)}) = {}
    BY <1>7, Apart DEF Members
  <2>4. new \in Cells \ (Members(st, O, r) \cup {QueueOf(r)})
    BY <1>1, Apart DEF Members
  <2>5. Ring(q, QueueOf(r), Members(st, O, r))
    BY <1>3, <2>2, <2>3, <2>4, RingOthers
  <2> QED
    BY <2>1, <2>5
<1>8. Queued(q, su, O \cup {new})
  BY <1>6, <1>7 DEF Queued
<1>9. ASSUME NEW t \in Task
      PROVE  q.next[kids(t)] = p.next[kids(t)] /\ q.prev[kids(t)] = p.prev[kids(t)]
  <2>1. p.prev[QueueOf(s)] \in Members(st, O, s) \cup {QueueOf(s)}
    BY <1>3, RingFacts
  <2>2. kids(t) \in Cells /\ kids(t) \notin {new, QueueOf(s), p.prev[QueueOf(s)]}
    BY <2>1, Apart DEF Members
  <2> QED
    BY <1>1, <2>2, OperationFrames
<1> QED
  BY <1>2, <1>8, <1>9 DEF SameKids

(* A task is taken out of its queue.                                       *)
LEMMA QueuedDel ==
  ASSUME NEW p \in Pointers, NEW st \in [Task -> States], NEW O \in SUBSET Task,
         Queued(p, st, O), NEW t \in O
  PROVE  /\ list_del(p, t) \in Pointers
         /\ Queued(list_del(p, t), st, O \ {t})
         /\ SameKids(p, list_del(p, t))
         /\ CanDel(p, t)
<1> DEFINE q == list_del(p, t)
<1>1. PICK s \in States : s = st[t]
  OBVIOUS
<1>2. t \in Cells /\ QueueOf(s) \in Cells
  BY Apart
<1>3. q \in Pointers
  BY <1>2, OperationTypes
<1>4. Ring(p, QueueOf(s), Members(st, O, s)) /\ t \in Members(st, O, s)
  BY <1>1 DEF Queued, Members
<1>5. Members(st, O \ {t}, s) = Members(st, O, s) \ {t}
  BY DEF Members
<1>6. Ring(q, QueueOf(s), Members(st, O \ {t}, s))
  BY <1>4, <1>5, RingDel
<1>7. ASSUME NEW r \in States, r # s
      PROVE  Ring(q, QueueOf(r), Members(st, O \ {t}, r))
  <2>1. Members(st, O \ {t}, r) = Members(st, O, r)
    BY <1>1, <1>7 DEF Members
  <2>2. Ring(p, QueueOf(r), Members(st, O, r))
    BY DEF Queued
  <2>3. (Members(st, O, s) \cup {QueueOf(s)}) \cap (Members(st, O, r) \cup {QueueOf(r)}) = {}
    BY <1>7, Apart DEF Members
  <2>5. Ring(q, QueueOf(r), Members(st, O, r))
    BY <1>4, <2>2, <2>3, RingOthers
  <2> QED
    BY <2>1, <2>5
<1>8. Queued(q, st, O \ {t})
  BY <1>6, <1>7 DEF Queued
<1>9. CanDel(p, t) /\ {p.next[t], p.prev[t]} \subseteq Members(st, O, s) \cup {QueueOf(s)}
  BY <1>4, RingFacts
<1>10. ASSUME NEW u \in Task
      PROVE  q.next[kids(u)] = p.next[kids(u)] /\ q.prev[kids(u)] = p.prev[kids(u)]
  <2>2. kids(u) \in Cells /\ kids(u) \notin {t, p.next[t], p.prev[t]}
    BY <1>9, Apart DEF Members
  <2> QED
    BY <1>2, <2>2, OperationFrames
<1> QED
  BY <1>3, <1>8, <1>9, <1>10 DEF SameKids

(* Queues are a matter of the cells of tasks and heads only, and of the    *)
(* states of the tasks in them.                                            *)
LEMMA QueuedFrame ==
  ASSUME NEW p, NEW st, NEW O \in SUBSET Task, Queued(p, st, O), NEW q, NEW su,
         \A t \in O : su[t] = st[t],
         \A t \in Task : q.next[t] = p.next[t] /\ q.prev[t] = p.prev[t],
         \A s \in States : q.next[QueueOf(s)] = p.next[QueueOf(s)] /\ q.prev[QueueOf(s)] = p.prev[QueueOf(s)]
  PROVE  Queued(q, su, O)
<1> SUFFICES ASSUME NEW s \in States PROVE Ring(q, QueueOf(s), Members(su, O, s))
  BY DEF Queued
<1>1. Members(su, O, s) = Members(st, O, s) /\ Members(st, O, s) \subseteq Task
  BY DEF Members
<1>2. Ring(p, QueueOf(s), Members(st, O, s))
  BY DEF Queued
<1>3. \A e \in Members(st, O, s) \cup {QueueOf(s)} : q.next[e] = p.next[e] /\ q.prev[e] = p.prev[e]
  BY <1>1
<1> QED
  BY <1>1, <1>2, <1>3, RingFrame

(* What the first and the last of a queue are.                             *)
LEMMA QueuedEnds ==
  ASSUME NEW p \in Pointers, NEW st, NEW O \in SUBSET Task, Queued(p, st, O), NEW s \in States
  PROVE  /\ list_empty(p, QueueOf(s)) <=> Members(st, O, s) = {}
         /\ p.prev[QueueOf(s)] = QueueOf(s) <=> Members(st, O, s) = {}
         /\ Members(st, O, s) # {} => /\ p.next[QueueOf(s)] \in Members(st, O, s)
                                      /\ p.prev[QueueOf(s)] \in Members(st, O, s)
<1>1. Ring(p, QueueOf(s), Members(st, O, s))
  BY DEF Queued
<1> QED
  BY <1>1, RingFacts

(* The list of kids of a task: no child, or one that it leads to.          *)
Family(p, t) ==
  /\ p.next[kids(t)] \in Task \cup {kids(t)}
  /\ p.next[kids(t)] = kids(t) => p.prev[kids(t)] = kids(t)

(* The tasks in O are queued.  The structures in use have a list of kids,  *)
(* and the one of idle_task stays empty.                                   *)
Placed(p, st, O) ==
  /\ p \in Pointers /\ st \in [Task -> States] /\ st[idle_task] = "ST_READY"
  /\ Queued(p, st, O)
  /\ \A t \in Task : t \notin Members(st, O, "ST_RUN") => Family(p, t)
  /\ list_empty(p, kids(idle_task))

(* Every task but the running one and idle_task is queued.  idle_task runs *)
(* only when nobody else is ready.                                         *)
Scheduled(p, run, st) ==
  /\ run \in Task
  /\ run = idle_task => Members(st, Task \ {idle_task, run}, "ST_READY") = {}
  /\ run # idle_task => st[run] = "ST_RUN"
  /\ Placed(p, st, Task \ {idle_task, run})

(* The task structures nobody uses.                                        *)
Free(run, st) == Members(st, Task \ {idle_task, run}, "ST_RUN")

(* The families do not see the queue operations.                           *)
LEMMA SameFamilies ==
  ASSUME NEW p, NEW q, SameKids(p, q), NEW t \in Task
  PROVE  /\ Family(p, t) => Family(q, t)
         /\ list_empty(p, kids(t)) => list_empty(q, kids(t))
  BY DEF SameKids, Family, list_empty

(* sched_next_rr takes the next task, with everybody queued but idle_task. *)
LEMMA SchedNext ==
  ASSUME running \in Task \ {idle_task}, NEW p, NEW st, Placed(p, st, Task \ {idle_task}),
         p.next[readyqueue] # running, sched_next_rr(p, st)
  PROVE  /\ fault' = "none" /\ Scheduled(lists', running', status')
         /\ Free(running', status') = Members(st, Task \ {idle_task}, "ST_RUN")
         /\ SameKids(p, lists')
<1> DEFINE O == Task \ {idle_task}
<1>1. p \in Pointers /\ st \in [Task -> States] /\ st[idle_task] = "ST_READY" /\ Queued(p, st, O)
  BY DEF Placed
<1>2. readyqueue = QueueOf("ST_READY") /\ "ST_READY" \in States /\ "ST_RUN" \in States
  BY DEF QueueOf, States
<1>3. idle_task \in Task
  BY Apart
<1>4. CASE Members(st, O, "ST_READY") = {}
  <2>1. list_empty(p, readyqueue)
    BY <1>1, <1>2, <1>4, QueuedEnds
  <2>2. fault' = "none" /\ lists' = p /\ status' = st /\ running' = idle_task
    BY <1>3, <2>1 DEF sched_next_rr, SwitchResult, task_switch
  <2>3. Task \ {idle_task, idle_task} = O
    OBVIOUS
  <2> HIDE DEF O
  <2> QED
    BY <1>3, <1>4, <2>2, <2>3 DEF Scheduled, Free, O, SameKids
<1>5. CASE Members(st, O, "ST_READY") # {}
  <2> DEFINE c == p.next[readyqueue]
  <2>1. ~ list_empty(p, readyqueue) /\ c \in Members(st, O, "ST_READY")
    BY <1>1, <1>2, <1>5, QueuedEnds
  <2>2. c \in O /\ c \in Task /\ c # idle_task /\ st[c] = "ST_READY"
    BY <2>1 DEF Members
  <2>3. /\ list_del(p, c) \in Pointers
        /\ Queued(list_del(p, c), st, O \ {c})
        /\ SameKids(p, list_del(p, c))
        /\ CanDel(p, c)
    BY <1>1, <2>2, QueuedDel
  <2>4. list_first(p, readyqueue) = c /\ c # running
    BY DEF list_first
  <2> HIDE DEF c
  <2>5. fault' = "none" /\ lists' = list_del(p, c) /\ status' = [st EXCEPT ![c] = "ST_RUN"] /\ running' = c
    BY <2>1, <2>2, <2>3, <2>4 DEF sched_next_rr, SwitchResult, task_switch, Unqueue
  <2> DEFINE q == list_del(p, c)
             su == [st EXCEPT ![c] = "ST_RUN"]
             R == Task \ {idle_task, c}
  <2>6. R = O \ {c} /\ R \in SUBSET Task
    OBVIOUS
  <2>7. su \in [Task -> States] /\ su[c] = "ST_RUN" /\ su[idle_task] = "ST_READY" /\ \A t \in R : su[t] = st[t]
    BY <1>1, <1>2, <1>3, <2>2
  <2>8. Members(su, R, "ST_RUN") = Members(st, O, "ST_RUN")
    BY <2>2, <2>6, <2>7 DEF Members
  <2> HIDE DEF q, su, R, O
  <2>9. Queued(q, su, R)
    BY <2>3, <2>6, <2>7, QueuedFrame DEF q
  <2>10. \A t \in Task : t \notin Members(su, R, "ST_RUN") => Family(q, t)
    BY <2>3, <2>8, SameFamilies DEF Placed, O, q
  <2>11. list_empty(q, kids(idle_task))
    BY <1>3, <2>3, SameFamilies DEF Placed, q
  <2>12. Placed(q, su, R)
    BY <2>3, <2>7, <2>9, <2>10, <2>11 DEF Placed, q
  <2>13. Scheduled(q, c, su)
    BY <2>2, <2>7, <2>12 DEF Scheduled, R
  <2> QED
    BY <2>3, <2>5, <2>8, <2>13 DEF q, su, Free, R, O
<1> QED
  BY <1>4, <1>5

(* The caller of sched_next_rr has put the running task in a queue.        *)
LEMMA PutAway ==
  ASSUME Scheduled(lists, running, status), running # idle_task, NEW s \in States
  PROVE  /\ Placed(list_add_tail(lists, running, QueueOf(s)), [status EXCEPT ![running] = s],
                   Task \ {idle_task})
         /\ s # "ST_READY" \/ ~ list_empty(lists, readyqueue) =>
              list_add_tail(lists, running, QueueOf(s)).next[readyqueue] # running
         /\ Members([status EXCEPT ![running] = s], Task \ {idle_task}, "ST_RUN") =
              Free(running, status) \cup (IF s = "ST_RUN" THEN {running} ELSE {})
         /\ SameKids(lists, list_add_tail(lists, running, QueueOf(s)))
<1> DEFINE O == Task \ {idle_task, running}
           q == list_add_tail(lists, running, QueueOf(s))
           su == [status EXCEPT ![running] = s]
<1>1. /\ lists \in Pointers /\ status \in [Task -> States] /\ status[idle_task] = "ST_READY"
      /\ Queued(lists, status, O) /\ running \in Task \ O /\ O \in SUBSET Task
      /\ O \cup {running} = Task \ {idle_task} /\ idle_task \in Task
  BY Apart DEF Scheduled, Placed
<1> HIDE DEF O
<1>2. q \in Pointers /\ Queued(q, su, O \cup {running}) /\ SameKids(lists, q)
  BY <1>1, QueuedAdd
<1>3. su \in [Task -> States] /\ su[idle_task] = "ST_READY"
  BY <1>1
<1>4. Members(status, O, "ST_RUN") \subseteq Members(su, O \cup {running}, "ST_RUN")
  BY <1>1 DEF Members
<1> HIDE DEF q, su
<1>5. \A t \in Task : t \notin Members(su, O \cup {running}, "ST_RUN") => Family(q, t)
  BY <1>2, <1>4, SameFamilies DEF Scheduled, Placed, O
<1>6. list_empty(q, kids(idle_task))
  BY <1>1, <1>2, SameFamilies DEF Scheduled, Placed
<1>7. Placed(q, su, O \cup {running})
  BY <1>2, <1>3, <1>5, <1>6 DEF Placed
<1>8. readyqueue = QueueOf("ST_READY") /\ "ST_READY" \in States
  BY DEF QueueOf, States
<1>9. ASSUME s # "ST_READY" PROVE q.next[readyqueue] # running
  <2>1. running \notin Members(su, O \cup {running}, "ST_READY")
    BY <1>1, <1>9 DEF Members, su
  <2>2. running \in Task /\ readyqueue \notin Task /\ (O \cup {running}) \in SUBSET Task
    BY <1>1, <1>8, Apart
  <2> DEFINE A == O \cup {running}
  <2>3. A \in SUBSET Task /\ Queued(q, su, A)
    BY <1>2, <2>2
  <2> HIDE DEF A
  <2>4. /\ list_empty(q, QueueOf("ST_READY")) <=> Members(su, A, "ST_READY") = {}
        /\ Members(su, A, "ST_READY") # {} => q.next[QueueOf("ST_READY")] \in Members(su, A, "ST_READY")
    BY <1>2, <1>8, <2>3, QueuedEnds
  <2> QED
    BY <1>8, <2>1, <2>2, <2>4 DEF A, list_empty
<1>10. ASSUME s = "ST_READY", ~ list_empty(lists, readyqueue) PROVE q.next[readyqueue] # running
  <2>1. Members(status, O, "ST_READY") # {}
    BY <1>1, <1>8, <1>10, QueuedEnds
  <2>2. /\ lists.next[readyqueue] \in Members(status, O, "ST_READY")
        /\ lists.prev[readyqueue] \in Members(status, O, "ST_READY")
    BY <1>1, <1>8, <2>1, QueuedEnds
  <2>3. lists.next[readyqueue] # running /\ lists.prev[readyqueue] # readyqueue /\ running # readyqueue
    BY <1>1, <1>8, <2>2, Apart DEF Members
  <2>4. lists.next \in [Cells -> Link] /\ readyqueue \in Cells
    BY <1>1, <1>8, Apart DEF Pointers
  <2>5. q.next = [lists.next EXCEPT ![running] = readyqueue, ![lists.prev[readyqueue]] = running]
    BY <1>8, <1>10 DEF q, list_add_tail, __list_add
  <2>6. q.next[readyqueue] = lists.next[readyqueue]
    BY <2>3, <2>4, <2>5
  <2> QED
    BY <2>3, <2>6
<1>11. Members(su, O \cup {running}, "ST_RUN") =
         Members(status, O, "ST_RUN") \cup (IF s = "ST_RUN" THEN {running} ELSE {})
  BY <1>1 DEF Members, su
<1> QED
  BY <1>1, <1>2, <1>7, <1>9, <1>10, <1>11 DEF q, su, Free, O

(* And so on.                                                              *)
LEMMA StillSameKids ==
  ASSUME NEW p, NEW q, SameKids(p, q), NEW r, SameKids(q, r)
  PROVE  SameKids(p, r)
  BY DEF SameKids

(* The timer.                                                              *)
LEMMA ClockKeeps ==
  ASSUME Scheduled(lists, running, status), Clock
  PROVE  /\ fault' = "none" /\ Scheduled(lists', running', status')
         /\ Free(running', status') = Free(running, status)
         /\ SameKids(lists, lists')
<1>1. CASE ~ needs_sched_rr(Decremented)
  BY <1>1 DEF Clock, SameKids
<1>2. CASE needs_sched_rr(Decremented)
  <2>1. sched_next_rr(ReadyLists, ReadyStates)
    BY <1>2 DEF Clock
  <2>2. /\ readyqueue = QueueOf("ST_READY") /\ "ST_READY" \in States
        /\ lists \in Pointers /\ Task \ {idle_task, running} \in SUBSET Task
        /\ Queued(lists, status, Task \ {idle_task, running})
        /\ status[idle_task] = "ST_READY" /\ running \in Task
    BY DEF QueueOf, States, Scheduled, Placed
  <2>3. running # idle_task /\ status[running] = "ST_RUN" /\ ~ list_empty(lists, readyqueue)
    <3>1. running = idle_task => list_empty(lists, readyqueue) /\ status[running] # "ST_BLOCKED"
      BY <2>2, QueuedEnds DEF Scheduled
    <3> QED
      BY <1>2, <3>1 DEF needs_sched_rr, Scheduled
  <2>4. /\ ReadyLists = list_add_tail(lists, running, QueueOf("ST_READY"))
        /\ ReadyStates = [status EXCEPT ![running] = "ST_READY"]
    BY <2>2, <2>3 DEF ReadyLists, ReadyStates
  <2>5. /\ Placed(ReadyLists, ReadyStates, Task \ {idle_task})
        /\ ReadyLists.next[readyqueue] # running
        /\ Members(ReadyStates, Task \ {idle_task}, "ST_RUN") = Free(running, status) \cup {}
        /\ SameKids(lists, ReadyLists)
    BY <2>2, <2>3, <2>4, PutAway
  <2> QED
    BY <2>1, <2>2, <2>3, <2>5, SchedNext, StillSameKids
<1> QED
  BY <1>1, <1>2

(* sys_block.                                                              *)
LEMMA BlockKeeps ==
  ASSUME Scheduled(lists, running, status), sys_block
  PROVE  /\ fault' = "none" /\ Scheduled(lists', running', status')
         /\ Free(running', status') = Free(running, status)
         /\ SameKids(lists, lists')
<1>1. fault = "none" /\ running # idle_task /\ running \in Task
  BY DEF sys_block, Syscall, Scheduled
<1>2. CASE Pending(pending_unblocks[running])
  BY <1>1, <1>2 DEF sys_block, SameKids
<1>3. CASE ~ Pending(pending_unblocks[running])
  <2> DEFINE p == list_add_tail(lists, running, blocked)
             st == [status EXCEPT ![running] = "ST_BLOCKED"]
  <2>1. sched_next_rr(p, st)
    BY <1>3 DEF sys_block
  <2>2. blocked = QueueOf("ST_BLOCKED") /\ "ST_BLOCKED" \in States
    BY DEF QueueOf, States
  <2>3. /\ Placed(p, st, Task \ {idle_task})
        /\ p.next[readyqueue] # running
        /\ Members(st, Task \ {idle_task}, "ST_RUN") = Free(running, status) \cup {}
        /\ SameKids(lists, p)
    BY <1>1, <2>2, PutAway
  <2> HIDE DEF p, st
  <2> QED
    BY <1>1, <2>1, <2>3, SchedNext, StillSameKids
<1> QED
  BY <1>2, <1>3

(* sys_exit.  Only one with children stops the kernel.                     *)
LEMMA ExitKeeps ==
  ASSUME Scheduled(lists, running, status), sys_exit
  PROVE  /\ list_empty(lists, kids(running)) =>
              /\ fault' = "none" /\ Scheduled(lists', running', status')
              /\ Free(running', status') = Free(running, status) \cup {running}
              /\ SameKids(lists, lists')
         /\ ~ list_empty(lists, kids(running)) =>
              /\ fault' = "null" /\ running' = running
              /\ ~ list_empty(lists', kids(running))
<1>1. /\ fault = "none" /\ running # idle_task /\ running \in Task /\ status[running] = "ST_RUN"
      /\ lists \in Pointers /\ status \in [Task -> States] /\ idle_task \in Task
  BY Apart DEF sys_exit, Syscall, Scheduled, Placed
<1>2. CASE list_empty(lists, kids(running))
  <2> DEFINE p == list_add_tail(lists, running, freequeue)
  <2>1. sched_next_rr(p, status)
    BY <1>2 DEF sys_exit
  <2>2. freequeue = QueueOf("ST_RUN") /\ "ST_RUN" \in States /\ "ST_RUN" # "ST_READY"
    BY DEF QueueOf, States
  <2>3. [status EXCEPT ![running] = "ST_RUN"] = status
    BY <1>1
  <2>4. /\ Placed(p, status, Task \ {idle_task})
        /\ p.next[readyqueue] # running
        /\ Members(status, Task \ {idle_task}, "ST_RUN") = Free(running, status) \cup {running}
        /\ SameKids(lists, p)
    BY <1>1, <2>2, <2>3, PutAway
  <2> HIDE DEF p
  <2>5. /\ fault' = "none" /\ Scheduled(lists', running', status')
        /\ Free(running', status') = Free(running, status) \cup {running}
        /\ SameKids(lists, lists')
    BY <1>1, <2>1, <2>4, SchedNext, StillSameKids
  <2> QED
    BY <1>2, <2>5
<1>3. CASE ~ list_empty(lists, kids(running))
  <2> DEFINE e == list_first(lists, kids(running))
             p == list_add_tail(lists, e, kids(idle_task))
  <2>1. lists' = list_del(p, e) /\ fault' = "null" /\ running' = running
    BY <1>3 DEF sys_exit
  <2>2. running \notin Members(status, Task \ {idle_task, running}, "ST_RUN")
    BY DEF Members
  <2>3. Family(lists, running) /\ Family(lists, idle_task) /\ list_empty(lists, kids(idle_task))
    BY <1>1, <2>2 DEF Scheduled, Placed, Members
  <2>4. e \in Task /\ e # kids(running) /\ lists.prev[kids(idle_task)] = kids(idle_task)
    BY <1>1, <1>3, <2>3, Apart DEF Family, list_empty, list_first
  <2>5. /\ e \in Cells /\ kids(idle_task) \in Cells /\ kids(running) \in Cells
        /\ kids(running) # kids(idle_task) /\ kids(running) \notin Task /\ kids(idle_task) \notin Task
    BY <1>1, <2>4, Apart
  <2>6. e = lists.next[kids(running)]
    BY DEF list_first
  <2> HIDE DEF e
  <2>7. p.next[kids(running)] = lists.next[kids(running)] /\ p \in Pointers
    <3>1. kids(running) \notin {e, kids(idle_task), lists.prev[kids(idle_task)]}
      BY <2>4, <2>5
    <3> QED
      BY <1>1, <2>5, <3>1, OperationFrames, OperationTypes
  <2>8. p.prev[e] = kids(idle_task) /\ p.next[e] = kids(idle_task)
    <3>1. lists.next \in [Cells -> Link] /\ lists.prev \in [Cells -> Link]
      BY <1>1 DEF Pointers
    <3> QED
      BY <2>4, <2>5, <3>1 DEF list_add_tail, __list_add
  <2> HIDE DEF p
  <2>9. list_del(p, e).next[kids(running)] = p.next[kids(running)]
    <3>1. kids(running) \notin {e, p.next[e], p.prev[e]}
      BY <2>4, <2>5, <2>8
    <3> QED
      BY <2>5, <2>7, <3>1, OperationFrames
  <2>10. ~ list_empty(lists', kids(running))
    BY <2>1, <2>4, <2>6, <2>7, <2>9 DEF list_empty
  <2> QED
    BY <1>3, <2>1, <2>10
<1> QED
  BY <1>2, <1>3

(* sys_unblock.  A walk over an empty list of kids ends at its head.       *)
LEMMA UnblockKeeps ==
  ASSUME Scheduled(lists, running, status), NEW pid, sys_unblock(pid)
  PROVE  \/ /\ fault' = "none" /\ Scheduled(lists', running', status')
            /\ Free(running', status') = Free(running, status)
            /\ SameKids(lists, lists')
         \/ /\ fault' \in {"null", "endless"} /\ Search(pid) \in {{}, {NULL}}
            /\ lists' = lists /\ running' = running /\ status' = status
            /\ ~ list_empty(lists', kids(running'))
<1> DEFINE O == Task \ {idle_task, running}
<1>1. /\ fault = "none" /\ running # idle_task /\ running \in Task /\ status[running] = "ST_RUN"
      /\ lists \in Pointers /\ status \in [Task -> States] /\ idle_task \in Task
      /\ status[idle_task] = "ST_READY" /\ Queued(lists, status, O) /\ O \in SUBSET Task
  BY Apart DEF sys_unblock, Syscall, Scheduled, Placed
<1>2. CASE Search(pid) \in {{}, {NULL}} /\ Stop(IF Search(pid) = {} THEN "endless" ELSE "null")
  <2>1. /\ fault' \in {"null", "endless"}
        /\ lists' = lists /\ running' = running /\ status' = status
    BY <1>2 DEF Stop, taskVars
  <2>2. ASSUME list_empty(lists, kids(running)) PROVE FALSE
    <3> DEFINE pos == list_for_each(lists, kids(running))
               N == Cardinality(Cells)
               stops == {n \in DOMAIN pos : \/ pos[n] \in {kids(running), NULL}
                                            \/ pos[n] \in Task /\ PID[pos[n]] = pid}
    <3>1. Search(pid) = {pos[n] : n \in {m \in stops : \A k \in stops : m <= k}}
      BY DEF Search
    <3>2. kids(running) \in Cells /\ NULL \notin Cells /\ N \in Nat
      BY <1>1, Apart, CellsFinite
    <3>3. pos[0] = kids(running)
      BY <1>1, <2>2, <3>2, WalkSteps DEF Walks, list_empty
    <3>4. DOMAIN pos = 0 .. N
      BY <1>1, <3>2, WalkSteps DEF Walks
    <3> HIDE DEF pos, N
    <3>5. 0 \in stops /\ \A k \in stops : 0 <= k
      BY <3>2, <3>3, <3>4
    <3> HIDE DEF stops
    <3>6. kids(running) \in Search(pid)
      BY <3>1, <3>3, <3>5
    <3> QED
      BY <1>2, <3>2, <3>6
  <2> QED
    BY <1>2, <2>1, <2>2
<1>3. ASSUME NEW t \in Search(pid) \cap Task, status[t] = "ST_BLOCKED",
             lists' = list_add_tail(list_del(lists, t), t, readyqueue),
             status' = [status EXCEPT ![t] = "ST_READY"],
             UNCHANGED << running, fault >>
      PROVE  /\ fault' = "none" /\ Scheduled(lists', running', status')
             /\ Free(running', status') = Free(running, status)
             /\ SameKids(lists, lists')
  <2> DEFINE p == list_del(lists, t)
             q == list_add_tail(p, t, QueueOf("ST_READY"))
             R == O \ {t}
             su == [status EXCEPT ![t] = "ST_READY"]
  <2>1. t \in O /\ t \in Task /\ R \in SUBSET Task /\ t \in Task \ R /\ R \cup {t} = O
    BY <1>1, <1>3
  <2>2. readyqueue = QueueOf("ST_READY") /\ "ST_READY" \in States
    BY DEF QueueOf, States
  <2> HIDE DEF O, R
  <2>3. p \in Pointers /\ Queued(p, status, R) /\ SameKids(lists, p)
    BY <1>1, <2>1, QueuedDel DEF R
  <2> HIDE DEF p
  <2>4. q \in Pointers /\ Queued(q, su, O) /\ SameKids(p, q)
    BY <1>1, <2>1, <2>2, <2>3, QueuedAdd
  <2> HIDE DEF q
  <2>5. su \in [Task -> States] /\ su[idle_task] = "ST_READY" /\ su[running] = "ST_RUN"
    BY <1>1, <1>3, <2>2
  <2>6. Members(su, O, "ST_RUN") = Members(status, O, "ST_RUN")
    BY <1>1, <1>3, <2>1 DEF Members
  <2> HIDE DEF su
  <2>7. SameKids(lists, q)
    BY <2>3, <2>4 DEF SameKids
  <2>8. \A u \in Task : u \notin Members(su, O, "ST_RUN") => Family(q, u)
    BY <2>6, <2>7, SameFamilies DEF Scheduled, Placed, O
  <2>9. list_empty(q, kids(idle_task))
    BY <1>1, <2>7, SameFamilies DEF Scheduled, Placed
  <2>10. Placed(q, su, O)
    BY <2>4, <2>5, <2>8, <2>9 DEF Placed
  <2>11. Scheduled(q, running, su) /\ Free(running, su) = Free(running, status)
    BY <1>1, <2>5, <2>6, <2>10 DEF Scheduled, Free, O
  <2>12. lists' = q /\ status' = su /\ running' = running /\ fault' = "none"
    BY <1>1, <1>3, <2>2 DEF p, q, su
  <2> QED
    BY <2>7, <2>11, <2>12
<1>4. ASSUME UNCHANGED << lists, running, status, fault >>
      PROVE  /\ fault' = "none" /\ Scheduled(lists', running', status')
             /\ Free(running', status') = Free(running, status)
             /\ SameKids(lists, lists')
  BY <1>1, <1>4 DEF SameKids
<1> QED
  BY <1>2, <1>3, <1>4 DEF sys_unblock

(* A new list of kids does not touch the queues.                           *)
LEMMA NewKids ==
  ASSUME NEW p \in Pointers, NEW t \in Task
  PROVE  /\ INIT_LIST_HEAD(p, kids(t)) \in Pointers
         /\ \A e \in Cells \ {kids(t)} : /\ INIT_LIST_HEAD(p, kids(t)).next[e] = p.next[e]
                                         /\ INIT_LIST_HEAD(p, kids(t)).prev[e] = p.prev[e]
         /\ INIT_LIST_HEAD(p, kids(t)).next[kids(t)] = kids(t)
         /\ INIT_LIST_HEAD(p, kids(t)).prev[kids(t)] = kids(t)
<1>1. kids(t) \in Cells
  BY Apart
<1>2. INIT_LIST_HEAD(p, kids(t)) \in Pointers
  BY <1>1, OperationTypes
<1>3. \A e \in Cells \ {kids(t)} : /\ INIT_LIST_HEAD(p, kids(t)).next[e] = p.next[e]
                                   /\ INIT_LIST_HEAD(p, kids(t)).prev[e] = p.prev[e]
  BY <1>1, OperationFrames
<1>4. /\ INIT_LIST_HEAD(p, kids(t)).next[kids(t)] = kids(t)
      /\ INIT_LIST_HEAD(p, kids(t)).prev[kids(t)] = kids(t)
  BY <1>1 DEF INIT_LIST_HEAD, Pointers
<1> QED
  BY <1>2, <1>3, <1>4

(* The queues the families do not belong to stay as they are.              *)
LEMMA QueuedNewKids ==
  ASSUME NEW p \in Pointers, NEW t \in Task, NEW st, NEW O \in SUBSET Task, Queued(p, st, O)
  PROVE  Queued(INIT_LIST_HEAD(p, kids(t)), st, O)
<1> DEFINE q == INIT_LIST_HEAD(p, kids(t))
<1>1. \A e \in Cells \ {kids(t)} : q.next[e] = p.next[e] /\ q.prev[e] = p.prev[e]
  BY NewKids
<1>2. /\ \A u \in Task : u \in Cells \ {kids(t)}
      /\ \A s \in States : QueueOf(s) \in Cells \ {kids(t)}
  BY Apart
<1> HIDE DEF q
<1>3. Queued(q, st, O)
  BY <1>1, <1>2, QueuedFrame
<1> QED
  BY <1>3 DEF q

(* A child is linked in two lists.  If the first link is made behind the   *)
(* head of the list of kids, or behind the last task of the ready queue,   *)
(* the ready queue looks as if only the second had been made.              *)
LEMMA LinkedTwice ==
  ASSUME NEW p \in Pointers, NEW child \in Task, NEW t \in Task, child # p.prev[readyqueue],
         \/ p.prev[kids(t)] = kids(t)
         \/ p.prev[kids(t)] = p.prev[readyqueue]
  PROVE  LET q == list_add_tail(list_add_tail(p, child, kids(t)), child, readyqueue)
             r == list_add_tail(p, child, readyqueue)
         IN /\ q \in Pointers
            /\ \A e \in Task : q.next[e] = r.next[e] /\ q.prev[e] = r.prev[e]
            /\ \A s \in States : q.next[QueueOf(s)] = r.next[QueueOf(s)] /\ q.prev[QueueOf(s)] = r.prev[QueueOf(s)]
<1> DEFINE m == list_add_tail(p, child, kids(t))
           q == list_add_tail(m, child, readyqueue)
           r == list_add_tail(p, child, readyqueue)
           last == p.prev[readyqueue]
           kt == kids(t)
<1>1. readyqueue = QueueOf("ST_READY") /\ "ST_READY" \in States
  BY DEF QueueOf, States
<1>2. /\ kt \in Cells /\ child \in Cells /\ readyqueue \in Cells
      /\ kt \notin Task /\ readyqueue \notin Task /\ kt # readyqueue
      /\ \A s \in States : QueueOf(s) \in Cells /\ QueueOf(s) # kt /\ QueueOf(s) \notin Task
      /\ \A e \in Task : e \in Cells /\ e # kt
  BY <1>1, Apart
<1>3. p.next \in [Cells -> Link] /\ p.prev \in [Cells -> Link]
  BY DEF Pointers
<1>4. m \in Pointers /\ q \in Pointers
  BY <1>2, OperationTypes
<1>5. /\ m.next = [p.next EXCEPT ![child] = kt, ![p.prev[kt]] = child]
      /\ m.prev = [p.prev EXCEPT ![kt] = child, ![child] = p.prev[kt]]
  BY DEF list_add_tail, __list_add
<1>6. m.prev[readyqueue] = last
  BY <1>2, <1>3, <1>5
<1>7. /\ q.next = [m.next EXCEPT ![child] = readyqueue, ![last] = child]
      /\ q.prev = [m.prev EXCEPT ![readyqueue] = child, ![child] = last]
  BY <1>6 DEF list_add_tail, __list_add
<1>8. /\ r.next = [p.next EXCEPT ![child] = readyqueue, ![last] = child]
      /\ r.prev = [p.prev EXCEPT ![readyqueue] = child, ![child] = last]
  BY DEF list_add_tail, __list_add
<1>9. m.next \in [Cells -> Link] /\ m.prev \in [Cells -> Link]
  BY <1>4 DEF Pointers
<1> HIDE DEF m, q, r, last, kt
<1>10. ASSUME NEW e \in Cells, e # kt
       PROVE  q.next[e] = r.next[e] /\ q.prev[e] = r.prev[e]
  <2>1. p.prev[kt] = kt \/ p.prev[kt] = last
    BY DEF kt, last
  <2>2. q.prev[e] = r.prev[e]
    BY <1>2, <1>3, <1>5, <1>7, <1>8, <1>9, <1>10
  <2>3. CASE e = child \/ e = last
    <3>1. child # last
      BY DEF last
    <3>2. q.next[e] = r.next[e]
      BY <1>2, <1>3, <1>7, <1>8, <1>9, <1>10, <2>3, <3>1
    <3> QED
      BY <2>2, <3>2
  <2>4. CASE e # child /\ e # last
    <3>1. m.next[e] = p.next[e]
      BY <1>2, <1>3, <1>5, <1>10, <2>1, <2>4
    <3> QED
      BY <1>2, <1>3, <1>7, <1>8, <1>9, <1>10, <2>2, <2>4, <3>1
  <2> QED
    BY <2>2, <2>3, <2>4
<1>11. /\ q \in Pointers
       /\ \A e \in Task : q.next[e] = r.next[e] /\ q.prev[e] = r.prev[e]
       /\ \A s \in States : q.next[QueueOf(s)] = r.next[QueueOf(s)] /\ q.prev[QueueOf(s)] = r.prev[QueueOf(s)]
  BY <1>2, <1>4, <1>10
<1> QED
  BY <1>11 DEF q, r, m

(* The families after that: the parent has a child, the others keep theirs.*)
LEMMA LinkedKids ==
  ASSUME NEW p \in Pointers, NEW child \in Task, NEW t \in Task,
         p.prev[readyqueue] \in Task \cup {readyqueue},
         \/ p.prev[kids(t)] = kids(t)
         \/ p.prev[kids(t)] = p.prev[readyqueue]
  PROVE  LET q == list_add_tail(list_add_tail(p, child, kids(t)), child, readyqueue)
         IN /\ \A u \in Task \ {t} : q.next[kids(u)] = p.next[kids(u)] /\ q.prev[kids(u)] = p.prev[kids(u)]
            /\ p.prev[kids(t)] = kids(t) => q.next[kids(t)] = child
            /\ p.prev[kids(t)] # kids(t) => q.next[kids(t)] = p.next[kids(t)]
<1> DEFINE m == list_add_tail(p, child, kids(t))
           q == list_add_tail(m, child, readyqueue)
           last == p.prev[readyqueue]
           kt == kids(t)
<1>1. readyqueue = QueueOf("ST_READY") /\ "ST_READY" \in States
  BY DEF QueueOf, States
<1>2. /\ kt \in Cells /\ child \in Cells /\ readyqueue \in Cells
      /\ kt \notin Task /\ readyqueue \notin Task /\ kt # readyqueue
      /\ \A u \in Task : kids(u) \in Cells \ Task /\ kids(u) # readyqueue /\ (u # t => kids(u) # kt)
  BY <1>1, Apart
<1>3. p.next \in [Cells -> Link] /\ p.prev \in [Cells -> Link]
  BY DEF Pointers
<1>4. m \in Pointers /\ q \in Pointers
  BY <1>2, OperationTypes
<1>5. /\ m.next = [p.next EXCEPT ![child] = kt, ![p.prev[kt]] = child]
      /\ m.prev = [p.prev EXCEPT ![kt] = child, ![child] = p.prev[kt]]
  BY DEF list_add_tail, __list_add
<1>6. m.prev[readyqueue] = last
  BY <1>2, <1>3, <1>5
<1>7. /\ q.next = [m.next EXCEPT ![child] = readyqueue, ![last] = child]
      /\ q.prev = [m.prev EXCEPT ![readyqueue] = child, ![child] = last]
  BY <1>6 DEF list_add_tail, __list_add
<1>9. m.next \in [Cells -> Link] /\ m.prev \in [Cells -> Link]
  BY <1>4 DEF Pointers
<1>10. (p.prev[kt] = kt \/ p.prev[kt] = last) /\ last \in Task \cup {readyqueue}
  OBVIOUS
<1> HIDE DEF m, q, last
<1>11. ASSUME NEW u \in Task
       PROVE q.next[kids(u)] = m.next[kids(u)] /\ q.prev[kids(u)] = m.prev[kids(u)]
  <2>1. kids(u) \in Cells /\ kids(u) # child /\ kids(u) # last /\ kids(u) # readyqueue
    BY <1>2, <1>10
  <2> QED
    BY <1>7, <1>9, <2>1
<1>12. ASSUME NEW u \in Task \ {t}
       PROVE m.next[kids(u)] = p.next[kids(u)] /\ m.prev[kids(u)] = p.prev[kids(u)]
  <2>1. kids(u) \in Cells /\ kids(u) # child /\ kids(u) # kt /\ kids(u) # p.prev[kt]
    BY <1>2, <1>10
  <2> HIDE DEF kt
  <2> QED
    BY <1>3, <1>5, <2>1
<1>13. /\ p.prev[kt] = kt => m.next[kt] = child
       /\ p.prev[kt] # kt => m.next[kt] = p.next[kt]
  <2>1. kt # child
    BY <1>2
  <2> HIDE DEF kt
  <2> QED
    BY <1>2, <1>3, <1>5, <2>1
<1> QED
  BY <1>11, <1>12, <1>13 DEF q, m

(* sys_fork takes a free task structure, and keeps the queues unless it    *)
(* writes in one that is not its own.                                      *)
LEMMA ForkKeeps ==
  ASSUME Scheduled(lists, running, status), NEW result, sys_fork(result)
  PROVE  /\ FreeTask \in Free(running, status)
         /\ fault' = result
         /\ running' = running
         /\ tangled' = (tangled \/ ~ Harmless)
         /\ Free(running', status') = Free(running, status) \ {FreeTask}
         /\ Harmless => /\ Scheduled(lists', running', status')
                        /\ list_empty(lists', kids(FreeTask))
                        /\ list_empty(lists, kids(running)) => lists'.next[kids(running)] = FreeTask
                        /\ \A u \in Task \ {running, FreeTask} : lists'.next[kids(u)] = lists.next[kids(u)]
<1> DEFINE O == Task \ {idle_task, running}
           child == FreeTask
<1>1. /\ running # idle_task /\ running \in Task /\ status[running] = "ST_RUN"
      /\ lists \in Pointers /\ status \in [Task -> States] /\ idle_task \in Task
      /\ status[idle_task] = "ST_READY" /\ Queued(lists, status, O) /\ O \in SUBSET Task
  BY Apart DEF sys_fork, Syscall, Scheduled, Placed
<1>2. /\ freequeue = QueueOf("ST_RUN") /\ "ST_RUN" \in States
      /\ readyqueue = QueueOf("ST_READY") /\ "ST_READY" \in States
  BY DEF QueueOf, States
<1>3. child \in Members(status, O, "ST_RUN")
  <2>1. ~ list_empty(lists, freequeue)
    BY DEF sys_fork
  <2> HIDE DEF O
  <2> QED
    BY <1>1, <1>2, <2>1, QueuedEnds DEF FreeTask, list_first
<1>4. child \in O /\ child \in Task /\ status[child] = "ST_RUN" /\ child # running /\ child # idle_task
  BY <1>3 DEF Members
<1> DEFINE p1 == list_del(lists, child)
           p2 == INIT_LIST_HEAD(p1, kids(child))
           q == list_add_tail(list_add_tail(p2, child, kids(running)), child, readyqueue)
           r == list_add_tail(p2, child, readyqueue)
           R == O \ {child}
           su == [status EXCEPT ![child] = "ST_READY"]
<1>5. p1 \in Pointers /\ Queued(p1, status, R) /\ SameKids(lists, p1) /\ CanDel(lists, child)
  <2> HIDE DEF O
  <2> QED
    BY <1>1, <1>4, QueuedDel
<1>6. /\ lists' = q /\ status' = su /\ tangled' = (tangled \/ ~ Harmless)
      /\ fault' = result /\ running' = running
  BY <1>4, <1>5 DEF sys_fork, LinkedChild
<1>7. R \in SUBSET Task /\ child \in Task \ R /\ R \cup {child} = O
  BY <1>4
<1>8. su \in [Task -> States] /\ su[idle_task] = "ST_READY" /\ su[running] = "ST_RUN"
  BY <1>1, <1>2, <1>4
<1>9. Members(su, O, "ST_RUN") = Members(status, O, "ST_RUN") \ {child}
  BY <1>1, <1>4 DEF Members
<1> HIDE DEF child, O, R, p1
<1>10. /\ p2 \in Pointers /\ Queued(p2, status, R)
       /\ \A e \in Cells \ {kids(child)} : p2.next[e] = p1.next[e] /\ p2.prev[e] = p1.prev[e]
       /\ p2.next[kids(child)] = kids(child) /\ p2.prev[kids(child)] = kids(child)
  BY <1>4, <1>5, <1>7, NewKids, QueuedNewKids
<1> HIDE DEF p2, su
<1>11. r \in Pointers /\ Queued(r, su, O)
  BY <1>1, <1>2, <1>7, <1>10, QueuedAdd DEF su
<1>12. p2.prev[readyqueue] \in Members(status, R, "ST_READY") \cup {readyqueue}
  BY <1>2, <1>7, <1>10, QueuedEnds
<1>13. p2.prev[readyqueue] \in Task \cup {readyqueue} /\ child # p2.prev[readyqueue]
  BY <1>2, <1>4, <1>7, <1>12, Apart DEF Members
<1>14. ASSUME Harmless
       PROVE  /\ Scheduled(q, running, su) /\ q.next[kids(child)] = kids(child)
              /\ list_empty(lists, kids(running)) => q.next[kids(running)] = child
              /\ \A u \in Task \ {running, child} : q.next[kids(u)] = lists.next[kids(u)]
  <2>1. running \notin Members(status, O, "ST_RUN")
    BY <1>1 DEF Members, O
  <2>2. Family(lists, running)
    BY <1>1, <2>1 DEF Scheduled, Placed, O
  <2>3. p2.prev[kids(running)] = lists.prev[kids(running)] /\ p2.next[kids(running)] = lists.next[kids(running)]
    <3>1. kids(running) \in Cells \ {kids(child)}
      BY <1>1, <1>4, Apart
    <3> QED
      BY <1>1, <1>5, <1>10, <3>1 DEF SameKids
  <2>4. p2.prev[readyqueue] = lists.prev[readyqueue]
    <3>1. readyqueue \in Cells \ {kids(child)} /\ freequeue # readyqueue /\ child \in Cells /\ readyqueue # child
      BY <1>2, <1>4, Apart
    <3>2. p2.prev[readyqueue] = p1.prev[readyqueue]
      BY <1>10, <3>1
    <3>3. lists.next[child] \in Members(status, O, "ST_RUN") \cup {freequeue}
      <4>1. Ring(lists, freequeue, Members(status, O, "ST_RUN"))
        BY <1>1, <1>2 DEF Queued
      <4> QED
        BY <1>1, <1>3, <4>1, RingFacts DEF child, O
    <3>4. lists.next[child] # readyqueue
      BY <1>1, <1>2, <3>1, <3>3, Apart DEF Members
    <3>5. p1.prev = [[lists.prev EXCEPT ![lists.next[child]] = lists.prev[child]] EXCEPT ![child] = NULL]
      BY DEF p1, list_del, __list_del
    <3>6. lists.prev \in [Cells -> Link]
      BY <1>1 DEF Pointers
    <3> QED
      BY <3>1, <3>2, <3>4, <3>5, <3>6
  <2>5. p2.prev[kids(running)] = kids(running) \/ p2.prev[kids(running)] = p2.prev[readyqueue]
    BY <1>14, <2>2, <2>3, <2>4 DEF Harmless, Family, list_empty
  <2>6. /\ q \in Pointers
        /\ \A e \in Task : q.next[e] = r.next[e] /\ q.prev[e] = r.prev[e]
        /\ \A s \in States : q.next[QueueOf(s)] = r.next[QueueOf(s)] /\ q.prev[QueueOf(s)] = r.prev[QueueOf(s)]
    BY <1>1, <1>4, <1>10, <1>13, <2>5, LinkedTwice
  <2>7. /\ \A u \in Task \ {running} : q.next[kids(u)] = p2.next[kids(u)] /\ q.prev[kids(u)] = p2.prev[kids(u)]
        /\ p2.prev[kids(running)] = kids(running) => q.next[kids(running)] = child
        /\ p2.prev[kids(running)] # kids(running) => q.next[kids(running)] = p2.next[kids(running)]
    BY <1>1, <1>4, <1>10, <1>13, <2>5, LinkedKids
  <2> HIDE DEF q, r
  <2>8. Queued(q, su, O)
    BY <1>1, <1>11, <2>6, QueuedFrame
  <2>9. Family(q, running)
    BY <1>1, <1>4, <2>2, <2>3, <2>7, Apart DEF Family
  <2>10. Family(q, child)
    BY <1>4, <1>10, <2>7 DEF Family
  <2>11. ASSUME NEW u \in Task \ {running, child}
         PROVE  q.next[kids(u)] = lists.next[kids(u)] /\ q.prev[kids(u)] = lists.prev[kids(u)]
    <3>1. kids(u) \in Cells \ {kids(child)}
      BY <1>4, Apart
    <3> QED
      BY <1>5, <1>10, <2>7, <3>1 DEF SameKids
  <2>12. ASSUME NEW u \in Task, u \notin Members(su, O, "ST_RUN") PROVE Family(q, u)
    <3>1. CASE u = running \/ u = child
      BY <2>9, <2>10, <3>1
    <3>2. CASE u # running /\ u # child
      <4>1. u \notin Members(status, O, "ST_RUN")
        BY <1>9, <2>12, <3>2
      <4>2. Family(lists, u)
        BY <4>1 DEF Scheduled, Placed, O
      <4> QED
        BY <2>11, <3>2, <4>2 DEF Family
    <3> QED
      BY <3>1, <3>2
  <2>13. list_empty(q, kids(idle_task))
    BY <1>1, <1>4, <2>11 DEF Scheduled, Placed, list_empty
  <2>14. Placed(q, su, O)
    BY <1>8, <2>6, <2>8, <2>12, <2>13 DEF Placed
  <2>15. Scheduled(q, running, su)
    BY <1>1, <1>8, <2>14 DEF Scheduled, O
  <2>16. q.next[kids(child)] = kids(child)
    BY <1>4, <1>10, <2>7
  <2>17. list_empty(lists, kids(running)) => q.next[kids(running)] = child
    BY <2>2, <2>3, <2>7 DEF Family, list_empty
  <2> QED
    BY <2>11, <2>15, <2>16, <2>17
<1> HIDE DEF q
<1> QED
  BY <1>3, <1>6, <1>9, <1>14 DEF Free, O, child, list_empty

-----------------------------------------------------------------------------
(* Initialization.                                                         *)

(* After i task structures were put in front of the free queue.            *)
Filled(p, i) ==
  /\ p \in Pointers
  /\ Ring(p, freequeue, 0 .. i - 1) /\ Ring(p, readyqueue, {}) /\ Ring(p, blocked, {})
  /\ i > 0 => p.next[freequeue] = i - 1
  /\ i > 1 => p.next[i - 1] = i - 2

(* One more.                                                               *)
LEMMA FilledStep ==
  ASSUME NEW i \in 0 .. NR_TASKS - 1, NEW p, Filled(p, i)
  PROVE  Filled(list_add(p, i, freequeue), i + 1)
<1> DEFINE q == list_add(p, i, freequeue)
<1>1. /\ freequeue = QueueOf("ST_RUN") /\ "ST_RUN" \in States
      /\ readyqueue = QueueOf("ST_READY") /\ "ST_READY" \in States
      /\ blocked = QueueOf("ST_BLOCKED") /\ "ST_BLOCKED" \in States
  BY DEF QueueOf, States
<1>2. i \in Task /\ i \in Cells /\ freequeue \in Cells /\ freequeue \notin Task /\ readyqueue \notin Task
      /\ blocked \notin Task /\ freequeue # readyqueue /\ freequeue # blocked
  <2>1. i \in Task
    BY DEF Task
  <2> QED
    BY <1>1, <2>1, Apart
<1>3. 0 .. i - 1 \subseteq Task /\ i \notin 0 .. i - 1 /\ (0 .. i - 1) \cup {i} = 0 .. (i + 1) - 1
  BY EarlyAssumption DEF Task
<1>4. p \in Pointers /\ Ring(p, freequeue, 0 .. i - 1) /\ Ring(p, readyqueue, {}) /\ Ring(p, blocked, {})
  BY DEF Filled
<1>5. q \in Pointers
  BY <1>2, <1>4, OperationTypes
<1>6. Ring(q, freequeue, 0 .. (i + 1) - 1)
  <2>1. i \in Cells \ ((0 .. i - 1) \cup {freequeue})
    BY <1>2, <1>3
  <2>2. Ring(q, freequeue, (0 .. i - 1) \cup {i})
    BY <1>4, <2>1, RingAdd
  <2> QED
    BY <1>3, <2>2
<1>7. Ring(q, readyqueue, {}) /\ Ring(q, blocked, {})
  <2> DEFINE F == 0 .. i - 1
  <2>1. /\ Ring(p, freequeue, F)
        /\ (F \cup {freequeue}) \cap ({} \cup {readyqueue}) = {} /\ (F \cup {freequeue}) \cap ({} \cup {blocked}) = {}
        /\ i \in Cells \ ({} \cup {readyqueue}) /\ i \in Cells \ ({} \cup {blocked})
    BY <1>2, <1>3, <1>4
  <2> HIDE DEF F
  <2> QED
    BY <1>4, <2>1, RingOthers
<1>8. /\ p.next \in [Cells -> Link] /\ q.next = [p.next EXCEPT ![i] = p.next[freequeue], ![freequeue] = i]
  BY <1>4 DEF Pointers, list_add, __list_add
<1>9. q.next[freequeue] = i /\ q.next[i] = p.next[freequeue]
  BY <1>2, <1>8
<1> HIDE DEF q
<1>10. /\ i + 1 > 0 => q.next[freequeue] = (i + 1) - 1
       /\ i + 1 > 1 => q.next[(i + 1) - 1] = (i + 1) - 2
  <2>1. (i + 1) - 1 = i /\ (i + 1 > 1 => i > 0) /\ (i + 1) - 2 = i - 1
    OBVIOUS
  <2>2. i > 0 => p.next[freequeue] = i - 1
    BY DEF Filled
  <2> QED
    BY <1>9, <2>1, <2>2
<1>11. Filled(q, i + 1)
  BY <1>5, <1>6, <1>7, <1>10 DEF Filled
<1> QED
  BY <1>11 DEF q

(* init_sched links all of them.                                           *)
LEMMA SchedFilled == Filled(init_sched, NR_TASKS)
<1> DEFINE zero == [next |-> [c \in Cells |-> NULL], prev |-> [c \in Cells |-> NULL]]
           h1 == INIT_LIST_HEAD(zero, freequeue)
           h2 == INIT_LIST_HEAD(h1, readyqueue)
           heads == INIT_LIST_HEAD(h2, blocked)
           Eq(f) == f = [i \in 0 .. NR_TASKS |-> IF i = 0 THEN heads ELSE list_add(f[i - 1], i - 1, freequeue)]
           fill == CHOOSE f : Eq(f)
           step == [i \in 1 .. NR_TASKS |-> [p \in Pointers |-> list_add(p, i - 1, freequeue)]]
<1>1. init_sched = fill[NR_TASKS]
  BY DEF init_sched
<1>2. freequeue \in Cells /\ readyqueue \in Cells /\ blocked \in Cells
      /\ freequeue # readyqueue /\ freequeue # blocked /\ readyqueue # blocked
  BY DEF Cells, freequeue, readyqueue, blocked
<1>3. zero \in Pointers
  BY DEF Pointers, Link
<1> HIDE DEF zero
<1>4. h1 \in Pointers /\ Ring(h1, freequeue, {})
  BY <1>2, <1>3, OperationTypes, RingInit
<1>5. h2 \in Pointers /\ Ring(h2, readyqueue, {}) /\ Ring(h2, freequeue, {})
  <2> HIDE DEF h1
  <2>1. h2 \in Pointers /\ Ring(h2, readyqueue, {})
    BY <1>2, <1>4, OperationTypes, RingInit
  <2>2. \A e \in {} \cup {freequeue} : h2.next[e] = h1.next[e] /\ h2.prev[e] = h1.prev[e]
    BY <1>2, <1>4, OperationFrames
  <2> HIDE DEF h2
  <2> QED
    BY <1>4, <2>1, <2>2, RingFrame
<1>6. /\ heads \in Pointers /\ Ring(heads, blocked, {}) /\ Ring(heads, readyqueue, {})
      /\ Ring(heads, freequeue, {})
  <2> HIDE DEF h2
  <2>1. heads \in Pointers /\ Ring(heads, blocked, {})
    BY <1>2, <1>5, OperationTypes, RingInit
  <2>2. /\ \A e \in {} \cup {freequeue} : heads.next[e] = h2.next[e] /\ heads.prev[e] = h2.prev[e]
        /\ \A e \in {} \cup {readyqueue} : heads.next[e] = h2.next[e] /\ heads.prev[e] = h2.prev[e]
    BY <1>2, <1>5, OperationFrames
  <2> HIDE DEF heads
  <2> QED
    BY <1>5, <2>1, <2>2, RingFrame
<1> HIDE DEF heads
<1>7. Filled(heads, 0)
  <2>1. 0 .. 0 - 1 = {}
    OBVIOUS
  <2> QED
    BY <1>6, <2>1 DEF Filled
<1>8. NR_TASKS \in Nat
  BY EarlyAssumption
<1>9. step \in [1 .. NR_TASKS -> [Pointers -> Pointers]]
  <2> SUFFICES ASSUME NEW i \in 1 .. NR_TASKS, NEW p \in Pointers
               PROVE  list_add(p, i - 1, freequeue) \in Pointers
    BY Zenon
  <2>1. i - 1 \in Cells
    BY <1>8 DEF Cells, Task
  <2> QED
    BY <1>2, <2>1, OperationTypes
<1>10. PICK g \in [0 .. NR_TASKS -> Pointers] : Recursion(NR_TASKS, step, heads, g)
  <2> HIDE DEF step
  <2> QED
    BY ONLY <1>6, <1>8, <1>9, RecursionExists
<1>11. ASSUME NEW i \in 0 .. NR_TASKS
       PROVE  g[i] = IF i = 0 THEN heads ELSE list_add(g[i - 1], i - 1, freequeue)
  <2>1. CASE i = 0
    BY <1>10, <2>1 DEF Recursion
  <2>2. CASE i # 0
    <3>1. i \in 1 .. NR_TASKS /\ i - 1 \in 0 .. NR_TASKS
      BY <1>8, <2>2
    <3>2. g[i - 1] \in Pointers /\ g[i] = step[i][g[i - 1]]
      BY <1>10, <3>1, Zenon DEF Recursion
    <3> QED
      BY <2>2, <3>1, <3>2, Zenon
  <2> QED
    BY <2>1, <2>2
<1>12. Eq(g)
  BY <1>11, Zenon
<1>13. Eq(fill)
  BY <1>12
<1> HIDE DEF fill
<1> DEFINE T == {i \in 0 .. NR_TASKS : Filled(fill[i], i)}
<1>14. 0 \in T
  <2>1. 0 \in 0 .. NR_TASKS
    BY <1>8
  <2>2. fill[0] = heads
    BY <1>13, <2>1, Zenon
  <2> QED
    BY <1>7, <2>1, <2>2
<1>15. ASSUME NEW i \in 0 .. NR_TASKS - 1, i \in T
       PROVE  i + 1 \in T
  <2>1. i + 1 \in 0 .. NR_TASKS /\ i + 1 # 0 /\ (i + 1) - 1 = i
    BY <1>8
  <2>2. fill[i + 1] = list_add(fill[(i + 1) - 1], (i + 1) - 1, freequeue)
    BY <1>13, <2>1, Zenon
  <2>3. Filled(fill[i], i)
    BY <1>15
  <2>4. Filled(list_add(fill[i], i, freequeue), i + 1)
    BY <2>3, FilledStep
  <2> QED
    BY <2>1, <2>2, <2>4
<1>16. 0 .. NR_TASKS \subseteq T
  <2> HIDE DEF T
  <2> QED
    BY <1>8, <1>14, <1>15, BoundedInduction
<1> QED
  BY <1>1, <1>8, <1>16

(* The kernel starts with two tasks, and all others in the free queue.     *)
LEMMA InitScheduled ==
  ASSUME Init
  PROVE  /\ Scheduled(lists, running, status) /\ running = task_1
         /\ Free(running, status) = Task \ {idle_task, task_1}
         /\ list_empty(lists, kids(task_1))
<1> DEFINE p0 == init_sched
           p1 == list_del(p0, idle_task)
           p2 == INIT_LIST_HEAD(p1, kids(idle_task))
           p3 == list_del(p2, task_1)
           p4 == INIT_LIST_HEAD(p3, kids(task_1))
           free == [t \in Task |-> "ST_RUN"]
<1>1. /\ idle_task \in Task /\ task_1 \in Task /\ idle_task # task_1
      /\ Task \subseteq Cells /\ "ST_RUN" \in States
      /\ freequeue = QueueOf("ST_RUN") /\ freequeue \in Cells /\ freequeue \notin Task
  BY Apart DEF States, QueueOf
<1>2. /\ p0 \in Pointers /\ Queued(p0, free, Task)
      /\ p0.next[freequeue] = idle_task /\ p0.next[idle_task] = task_1
  <2>1. Filled(p0, NR_TASKS)
    BY SchedFilled
  <2>2. /\ Members(free, Task, "ST_RUN") = 0 .. NR_TASKS - 1
        /\ Members(free, Task, "ST_READY") = {} /\ Members(free, Task, "ST_BLOCKED") = {}
    BY DEF Members, Task
  <2>3. NR_TASKS > 0 /\ NR_TASKS > 1
    BY EarlyAssumption
  <2> HIDE DEF p0
  <2> QED
    BY <2>1, <2>2, <2>3 DEF Filled, Queued, States, QueueOf, idle_task, task_1
<1> HIDE DEF p0
<1>3. free \in [Task -> States]
  BY DEF States
<1>4. p1 \in Pointers /\ Queued(p1, free, Task \ {idle_task}) /\ p1.next[freequeue] = task_1
  <2>1. p1 \in Pointers /\ Queued(p1, free, Task \ {idle_task})
    BY <1>1, <1>2, <1>3, QueuedDel
  <2>2. p0.prev[idle_task] = freequeue
    <3>1. Ring(p0, freequeue, Members(free, Task, "ST_RUN"))
      BY <1>1, <1>2 DEF Queued
    <3>2. ProperList(p0, freequeue)
      BY <1>2, <3>1, RingProper
    <3> QED
      BY <1>2, <3>2 DEF ProperList
  <2>3. /\ p0.next \in [Cells -> Link] /\ freequeue # idle_task
        /\ p1.next = [[p0.next EXCEPT ![freequeue] = task_1] EXCEPT ![idle_task] = NULL]
    BY <1>1, <1>2, <2>2 DEF Pointers, list_del, __list_del
  <2> QED
    BY <1>1, <2>1, <2>3
<1> HIDE DEF free, p1
<1>5. /\ p2 \in Pointers /\ Queued(p2, free, Task \ {idle_task}) /\ p2.next[freequeue] = task_1
      /\ p2.next[kids(idle_task)] = kids(idle_task) /\ p2.prev[kids(idle_task)] = kids(idle_task)
  <2> DEFINE O == Task \ {idle_task}
  <2>1. O \in SUBSET Task /\ Queued(p1, free, O)
    BY <1>4
  <2>2. freequeue \in Cells \ {kids(idle_task)}
    BY <1>1, Apart
  <2> HIDE DEF O
  <2>3. Queued(p2, free, O)
    BY <1>1, <1>4, <2>1, QueuedNewKids
  <2>4. /\ p2 \in Pointers /\ p2.next[freequeue] = p1.next[freequeue]
        /\ p2.next[kids(idle_task)] = kids(idle_task) /\ p2.prev[kids(idle_task)] = kids(idle_task)
    BY <1>1, <1>4, <2>2, NewKids
  <2> QED
    BY <1>4, <2>3, <2>4 DEF O
<1> HIDE DEF p2
<1> DEFINE O == Task \ {idle_task, task_1}
<1>6. p3 \in Pointers /\ Queued(p3, free, O) /\ SameKids(p2, p3)
  <2>1. (Task \ {idle_task}) \ {task_1} = O /\ task_1 \in Task \ {idle_task} /\ Task \ {idle_task} \in SUBSET Task
    BY <1>1
  <2> HIDE DEF O, p3
  <2>2. p3 \in Pointers /\ Queued(p3, free, (Task \ {idle_task}) \ {task_1}) /\ SameKids(p2, p3)
    BY <1>3, <1>5, <2>1, QueuedDel DEF p3
  <2> QED
    BY <2>1, <2>2
<1> HIDE DEF p3
<1>7. /\ p4 \in Pointers /\ Queued(p4, free, O)
      /\ p4.next[kids(task_1)] = kids(task_1) /\ p4.prev[kids(task_1)] = kids(task_1)
      /\ p4.next[kids(idle_task)] = kids(idle_task) /\ p4.prev[kids(idle_task)] = kids(idle_task)
  <2>1. O \in SUBSET Task /\ kids(idle_task) \in Cells \ {kids(task_1)}
    BY <1>1, Apart
  <2> HIDE DEF O
  <2>2. Queued(p4, free, O)
    BY <1>1, <1>6, <2>1, QueuedNewKids
  <2>3. /\ p4 \in Pointers
        /\ p4.next[kids(task_1)] = kids(task_1) /\ p4.prev[kids(task_1)] = kids(task_1)
        /\ p4.next[kids(idle_task)] = p3.next[kids(idle_task)] /\ p4.prev[kids(idle_task)] = p3.prev[kids(idle_task)]
    BY <1>1, <1>6, <2>1, NewKids
  <2>4. p3.next[kids(idle_task)] = kids(idle_task) /\ p3.prev[kids(idle_task)] = kids(idle_task)
    BY <1>1, <1>5, <1>6 DEF SameKids
  <2> QED
    BY <2>2, <2>3, <2>4
<1> HIDE DEF p4
<1>8. lists = p4
  BY <1>2, <1>5 DEF Init, init_idle, init_task1, list_first, p1, p2, p3, p4, p0
<1>9. /\ running = task_1 /\ status \in [Task -> States] /\ status[idle_task] = "ST_READY"
      /\ status[task_1] = "ST_RUN" /\ \A t \in O : status[t] = free[t] /\ status[t] = "ST_RUN"
  BY <1>1 DEF Init, States, free
<1>10. Queued(p4, status, O)
  <2>1. O \in SUBSET Task
    OBVIOUS
  <2> HIDE DEF O
  <2> QED
    BY <1>7, <1>9, <2>1, QueuedFrame
<1>11. Members(status, O, "ST_RUN") = O
  BY <1>9 DEF Members
<1>12. \A t \in Task : t \notin O => Family(p4, t)
  BY <1>7 DEF Family
<1>13. Placed(p4, status, O)
  BY <1>7, <1>9, <1>10, <1>11, <1>12 DEF Placed, list_empty
<1> QED
  BY <1>1, <1>7, <1>8, <1>9, <1>11, <1>13 DEF Scheduled, Free, O, list_empty

-----------------------------------------------------------------------------
(* The kernel.                                                             *)

(* The inductive invariant: as long as nobody has written in a queue that  *)
(* is not its own, the queues are in order while the kernel runs, and only *)
(* a process with children has stopped it.                                 *)
KernelInv ==
  /\ fault = "none" /\ ~ tangled => Scheduled(lists, running, status)
  /\ OnlyParentsStop

(* A step of the kernel, with or without its memory.                       *)
KernelNext == Next \/ sys_fork("no_frame")

(* It holds at the start.                                                  *)
LEMMA KernelInit == Init => KernelInv
<1> SUFFICES ASSUME Init PROVE KernelInv
  OBVIOUS
<1>1. fault = "none"
  BY DEF Init
<1> QED
  BY <1>1, InitScheduled DEF KernelInv, OnlyParentsStop

(* And every step keeps it.                                                *)
LEMMA KernelStep == KernelInv /\ [KernelNext]_vars => KernelInv'
<1> SUFFICES ASSUME KernelInv, [KernelNext]_vars PROVE KernelInv'
  OBVIOUS
<1>1. CASE UNCHANGED vars
  <2>1. UNCHANGED << lists, running, status, fault, tangled >>
    BY <1>1 DEF vars, taskVars
  <2>2. (fault = "none" /\ ~ tangled => Scheduled(lists, running, status))'
    BY <2>1 DEF KernelInv
  <2>3. OnlyParentsStop'
    BY <2>1 DEF KernelInv, OnlyParentsStop, list_empty
  <2> QED
    BY <2>2, <2>3 DEF KernelInv
<1>2. ASSUME KernelNext, tangled PROVE KernelInv'
  <2>1. tangled'
    BY <1>2, Zenon DEF KernelNext, Next, Clock, sys_fork, Stop, sys_exit, sys_block, sys_unblock
  <2> QED
    BY <2>1 DEF KernelInv, OnlyParentsStop
<1>3. ASSUME KernelNext, ~ tangled PROVE KernelInv'
  <2>1. fault = "none"
    BY <1>3 DEF KernelNext, Next, Clock, sys_fork, sys_exit, sys_block, sys_unblock, Syscall
  <2>2. Scheduled(lists, running, status)
    BY <1>3, <2>1 DEF KernelInv
  <2>3. ASSUME fault' = "none" \/ fault' = "no_frame",
               fault' = "none" /\ ~ tangled' => Scheduled(lists', running', status')
        PROVE  KernelInv'
    BY <2>3 DEF KernelInv, OnlyParentsStop
  <2>4. ASSUME fault' \in {"null", "endless"}, ~ list_empty(lists', kids(running'))
        PROVE  KernelInv'
    BY <2>4 DEF KernelInv, OnlyParentsStop, list_empty
  <2>5. CASE Clock
    BY <2>2, <2>3, <2>5, ClockKeeps
  <2>6. ASSUME NEW result \in {"none", "no_frame"}, sys_fork(result) PROVE KernelInv'
    <3>1. fault' = result /\ (Harmless => Scheduled(lists', running', status'))
      BY <2>2, <2>6, ForkKeeps
    <3>2. ~ Harmless => tangled'
      BY <2>2, <2>6, ForkKeeps
    <3> QED
      BY <2>3, <3>1, <3>2
  <2>7. CASE sys_exit
    <3>1. CASE list_empty(lists, kids(running))
      BY <2>2, <2>3, <2>7, <3>1, ExitKeeps
    <3>2. CASE ~ list_empty(lists, kids(running))
      BY <2>2, <2>4, <2>7, <3>2, ExitKeeps
    <3> QED
      BY <3>1, <3>2
  <2>8. CASE sys_block
    BY <2>2, <2>3, <2>8, BlockKeeps
  <2>9. ASSUME NEW pid \in Pids, sys_unblock(pid) PROVE KernelInv'
    BY <2>2, <2>3, <2>4, <2>9, UnblockKeeps
  <2> QED
    BY <1>3, <2>5, <2>6, <2>7, <2>8, <2>9 DEF KernelNext, Next
<1> QED
  BY <1>1, <1>2, <1>3

(* Rings are what the property calls proper lists.                         *)
LEMMA ScheduledQueues ==
  ASSUME Scheduled(lists, running, status)
  PROVE  /\ \A h \in {freequeue, readyqueue, blocked} : ProperList(lists, h)
         /\ Visited(lists, readyqueue) = {t \in Others : status[t] = "ST_READY"}
         /\ Visited(lists, blocked) = {t \in Others : status[t] = "ST_BLOCKED"}
         /\ Visited(lists, freequeue) = {t \in Others : status[t] = "ST_RUN"}
<1>1. lists \in Pointers /\ Queued(lists, status, Others)
  BY DEF Scheduled, Placed, Others
<1>2. ASSUME NEW s \in States
      PROVE  ProperList(lists, QueueOf(s)) /\ Visited(lists, QueueOf(s)) = {t \in Others : status[t] = s}
  BY <1>1, RingProper DEF Queued, Members
<1>3. /\ QueueOf("ST_RUN") = freequeue /\ QueueOf("ST_READY") = readyqueue /\ QueueOf("ST_BLOCKED") = blocked
      /\ {"ST_RUN", "ST_READY", "ST_BLOCKED"} \subseteq States
  BY DEF QueueOf, States
<1> QED
  BY <1>2, <1>3

(* Without the memory, too, the invariant always holds.                    *)
LEMMA KernelInductive == Spec => []KernelInv
<1>1. KernelInv /\ [Next]_vars => KernelInv'
  BY KernelStep DEF KernelNext
<1> QED
  BY <1>1, KernelInit, PTL DEF Spec

(* A step of the composed specification is a step of the kernel.           *)
LEMMA MemoryNext == [MemNext]_memAllVars => [KernelNext]_vars
<1> SUFFICES ASSUME [MemNext]_memAllVars PROVE [KernelNext]_vars
  OBVIOUS
<1>1. CASE UNCHANGED memAllVars
  BY <1>1 DEF memAllVars
<1>2. CASE MemNext
  BY <1>2 DEF MemNext, KernelNext, Next, ForkMemory, ExitMemory
<1> QED
  BY <1>1, <1>2

(* With it.                                                                *)
LEMMA KernelWithMemory == MemSpec => []KernelInv
<1>1. MemInit => KernelInv
  BY KernelInit DEF MemInit
<1>2. KernelInv /\ [MemNext]_memAllVars => KernelInv'
  BY KernelStep, MemoryNext
<1> QED
  BY <1>1, <1>2, PTL DEF MemSpec

(* Although sys_fork leaves every child linked in two lists, the queues of *)
(* the kernel stay proper lists that agree with the states of the tasks,   *)
(* until a fork writes behind a child that is elsewhere: for every number  *)
(* of task structures, with the memory and without.                        *)
THEOREM QueuesStayIntact == (Spec => []QueuesIntact) /\ (MemSpec => []QueuesIntact)
<1>1. KernelInv => QueuesIntact
  BY ScheduledQueues DEF KernelInv, QueuesIntact
<1>2. Spec => []QueuesIntact
  BY <1>1, KernelInductive, PTL
<1>3. MemSpec => []QueuesIntact
  BY <1>1, KernelWithMemory, PTL
<1> QED
  BY <1>2, <1>3

(* Only a process with children can stop the kernel, by its exit or by a   *)
(* walk over its list of kids in sys_unblock.                              *)
THEOREM OnlyParentsStopIt == (Spec => []OnlyParentsStop) /\ (MemSpec => []OnlyParentsStop)
<1>1. KernelInv => OnlyParentsStop
  BY DEF KernelInv
<1>2. Spec => []OnlyParentsStop
  BY <1>1, KernelInductive, PTL
<1>3. MemSpec => []OnlyParentsStop
  BY <1>1, KernelWithMemory, PTL
<1> QED
  BY <1>2, <1>3

-----------------------------------------------------------------------------
(* The frames.                                                             *)

(* The n smallest members of a set, in order.                              *)
Lowest(n, F, e) ==
  /\ \A i, j \in 1 .. n : i < j => e[i] < e[j]
  /\ \A i \in 1 .. n, f \in F : f < e[i] => \E j \in 1 .. n : e[j] = f

(* A function takes no more values than it has arguments.                  *)
LEMMA FewValues ==
  ASSUME NEW S, IsFiniteSet(S), NEW f, NEW T, T = {f[x] : x \in S}
  PROVE  IsFiniteSet(T) /\ Cardinality(T) <= Cardinality(S)
<1> DEFINE g == [x \in S |-> f[x]]
<1>1. g \in Surjection(S, T)
  BY DEF Surjection
<1> HIDE DEF g
<1> QED
  BY <1>1, FS_Surjection

(* They are there if the set has as many.                                  *)
LEMMA LowestExist ==
  ASSUME NEW N \in Nat, NEW F \in SUBSET (1 .. N), NEW n \in Nat, n <= Cardinality(F)
  PROVE  \E e \in [1 .. n -> F] : Lowest(n, F, e)
<1> DEFINE T == {k \in 0 .. n : \E e \in [1 .. k -> F] : Lowest(k, F, e)}
<1>1. IsFiniteSet(F) /\ Cardinality(F) \in Nat
  <2>1. 1 \in Int /\ N \in Int
    OBVIOUS
  <2>2. IsFiniteSet(1 .. N)
    BY <2>1, FS_Interval
  <2>3. IsFiniteSet(F)
    BY <2>2, FS_Subset
  <2> QED
    BY <2>3, FS_CardinalityType
<1>2. 0 \in T
  <2> DEFINE e == [i \in 1 .. 0 |-> 0]
  <2>1. e \in [1 .. 0 -> F] /\ Lowest(0, F, e)
    BY DEF Lowest
  <2>2. 0 \in 0 .. n
    OBVIOUS
  <2> HIDE DEF e
  <2> QED
    BY <2>1, <2>2
<1>3. ASSUME NEW k \in 0 .. n - 1, k \in T
      PROVE  k + 1 \in T
  <2>1. PICK e \in [1 .. k -> F] : Lowest(k, F, e)
    BY <1>3
  <2> DEFINE V == {e[i] : i \in 1 .. k}
             R == F \ V
  <2>2. R # {}
    <3>1. IsFiniteSet(1 .. k) /\ Cardinality(1 .. k) = k
      <4>1. 1 \in Int /\ k \in Int /\ (1 > k => k = 0)
        OBVIOUS
      <4>2. IsFiniteSet(1 .. k) /\ Cardinality(1 .. k) = IF 1 > k THEN 0 ELSE k - 1 + 1
        BY <4>1, FS_Interval
      <4> QED
        BY <4>1, <4>2
    <3>2. IsFiniteSet(V) /\ Cardinality(V) <= k
      <4> HIDE DEF V
      <4>1. V = {e[i] : i \in 1 .. k}
        BY DEF V
      <4> QED
        BY <3>1, <4>1, FewValues
    <3>3. V \in SUBSET F
      OBVIOUS
    <3> SUFFICES ASSUME R = {} PROVE FALSE
      OBVIOUS
    <3>4. V = F
      BY <3>3
    <3>5. k < n
      OBVIOUS
    <3> HIDE DEF V, R
    <3> QED
      BY <1>1, <3>2, <3>4, <3>5
  <2>3. PICK m \in R : \A f \in R : m <= f
    <3>1. R \in SUBSET (1 .. N)
      OBVIOUS
    <3> HIDE DEF R
    <3> QED
      BY <2>2, <3>1, FirstPlace
  <2> DEFINE g == [i \in 1 .. k + 1 |-> IF i = k + 1 THEN m ELSE e[i]]
  <2>4. g \in [1 .. k + 1 -> F]
    OBVIOUS
  <2>5. g[k + 1] = m /\ \A i \in 1 .. k : g[i] = e[i]
    OBVIOUS
  <2>6. ASSUME NEW i \in 1 .. k PROVE e[i] < m
    <3>1. m \in F /\ m # e[i]
      OBVIOUS
    <3>2. ~ (m < e[i])
      <4> SUFFICES ASSUME m < e[i] PROVE FALSE
        OBVIOUS
      <4>1. \E j \in 1 .. k : e[j] = m
        BY <2>1, <3>1 DEF Lowest
      <4> QED
        BY <4>1
    <3>3. m \in 1 .. N /\ e[i] \in 1 .. N
      BY <3>1
    <3> QED
      BY <3>1, <3>2, <3>3
  <2> HIDE DEF g
  <2>7. ASSUME NEW i \in 1 .. k + 1, NEW j \in 1 .. k + 1, i < j PROVE g[i] < g[j]
    <3>1. i \in 1 .. k
      BY <2>7
    <3>2. CASE j = k + 1
      BY <2>5, <2>6, <3>1, <3>2
    <3>3. CASE j # k + 1
      <4>1. j \in 1 .. k
        BY <3>3
      <4>2. e[i] < e[j]
        BY <2>1, <2>7, <3>1, <4>1 DEF Lowest
      <4> QED
        BY <2>5, <3>1, <4>1, <4>2
    <3> QED
      BY <3>2, <3>3
  <2>8. ASSUME NEW i \in 1 .. k + 1, NEW f \in F, f < g[i] PROVE \E j \in 1 .. k + 1 : g[j] = f
    <3>1. \E j \in 1 .. k : e[j] = f
      <4>1. CASE i = k + 1
        <5>1. f \in Int /\ m \in Int /\ ~ (m <= f)
          BY <2>5, <2>8, <4>1
        <5>2. f \notin R
          BY <2>3, <5>1
        <5> QED
          BY <5>2
      <4>2. CASE i # k + 1
        <5>1. i \in 1 .. k
          BY <4>2
        <5> QED
          BY <2>1, <2>5, <2>8, <5>1 DEF Lowest
      <4> QED
        BY <4>1, <4>2
    <3>2. \A j \in 1 .. k : j \in 1 .. k + 1
      OBVIOUS
    <3> QED
      BY <2>5, <3>1, <3>2
  <2>9. Lowest(k + 1, F, g)
    BY <2>7, <2>8 DEF Lowest
  <2>10. k + 1 \in 0 .. n
    OBVIOUS
  <2> QED
    BY <2>4, <2>9, <2>10
<1> HIDE DEF T
<1>4. 0 .. n \subseteq T
  BY <1>2, <1>3, BoundedInduction
<1>5. n \in T
  BY <1>4
<1> QED
  BY <1>5 DEF T

(* The sizes and the pages.                                                *)
LEMMA Pages ==
  /\ TOTAL_PAGES \in Nat \ {0} /\ NUM_PAG_KERNEL \in Nat \ {0}
  /\ NUM_PAG_CODE \in Nat \ {0} /\ NUM_PAG_DATA \in Nat \ {0}
  /\ DataPages = NUM_PAG_KERNEL .. NUM_PAG_KERNEL + NUM_PAG_DATA - 1
  /\ CodePages = NUM_PAG_KERNEL + NUM_PAG_DATA .. NUM_PAG_KERNEL + NUM_PAG_DATA + NUM_PAG_CODE - 1
  /\ DataPages \cap CodePages = {} /\ NULLPage \notin DataPages \cup CodePages
  /\ Page = {NULLPage} \cup DataPages \cup CodePages
<1>1. /\ TOTAL_PAGES \in Nat \ {0} /\ NUM_PAG_KERNEL \in Nat \ {0}
      /\ NUM_PAG_CODE \in Nat \ {0} /\ NUM_PAG_DATA \in Nat \ {0}
  BY EnoughFrames
<1> QED
  BY <1>1 DEF DataPages, CodePages, Page, NULLPage, PAG_LOG_INIT_CODE, PAG_LOG_INIT_DATA

(* The frames alloc_frame looks at.                                        *)
LEMMA Frames ==
  /\ Allocatable \in SUBSET (1 .. TOTAL_PAGES) /\ IsFiniteSet(Allocatable)
  /\ Cardinality(Allocatable) \in Nat
  /\ \A f \in Allocatable : f \in Int /\ f >= NUM_PAG_KERNEL /\ f < TOTAL_PAGES /\ f \notin init_frames
<1>1. /\ Allocatable \in SUBSET (1 .. TOTAL_PAGES)
      /\ \A f \in Allocatable : f \in Int /\ f >= NUM_PAG_KERNEL /\ f < TOTAL_PAGES /\ f \notin init_frames
  BY Pages DEF Allocatable, init_frames
<1>2. IsFiniteSet(1 .. TOTAL_PAGES)
  <2>1. 1 \in Int /\ TOTAL_PAGES \in Int
    BY Pages
  <2> QED
    BY <2>1, FS_Interval
<1>3. IsFiniteSet(Allocatable)
  BY <1>1, <1>2, FS_Subset
<1> QED
  BY <1>1, <1>3, FS_CardinalityType

(* The first ones are where set_user_pages expects them.                   *)
LEMMA NthFrames ==
  /\ \A n \in Nat : n < Cardinality(Allocatable) => NthFrame(n) \in Allocatable
  /\ \A n, m \in Nat : NthFrame(n) = NthFrame(m) => n = m
<1>1. ASSUME NEW n \in Nat, n < Cardinality(Allocatable) PROVE NthFrame(n) \in Allocatable
  <2>1. NthFrame(n) \in Int /\ NthFrame(n) >= NUM_PAG_KERNEL /\ (NthFrame(n) - NUM_PAG_KERNEL) % 2 = 0
    BY Pages DEF NthFrame
  <2>2. NthFrame(n) < TOTAL_PAGES
    <3> SUFFICES ASSUME NthFrame(n) >= TOTAL_PAGES PROVE FALSE
      BY <2>1, Pages
    <3> DEFINE g == [f \in Allocatable |-> (f - NUM_PAG_KERNEL) \div 2]
    <3>1. ASSUME NEW f \in Allocatable
          PROVE  (f - NUM_PAG_KERNEL) \div 2 \in 0 .. n - 1 /\ f = NUM_PAG_KERNEL + 2 * ((f - NUM_PAG_KERNEL) \div 2)
      <4>1. f \in Int /\ f >= NUM_PAG_KERNEL /\ f < TOTAL_PAGES /\ (f - NUM_PAG_KERNEL) % 2 = 0
        BY Pages DEF Allocatable
      <4>2. f < NUM_PAG_KERNEL + 2 * n
        BY <4>1, Pages DEF NthFrame
      <4> QED
        BY <4>1, <4>2, Pages
    <3>2. g \in Injection(Allocatable, 0 .. n - 1)
      <4>1. g \in [Allocatable -> 0 .. n - 1]
        BY <3>1
      <4>2. ASSUME NEW x \in Allocatable, NEW y \in Allocatable, g[x] = g[y] PROVE x = y
        BY <3>1, <4>2
      <4> HIDE DEF g
      <4> QED
        BY <4>1, <4>2, Zenon DEF Injection, IsInjective
    <3> HIDE DEF g
    <3>3. IsFiniteSet(0 .. n - 1) /\ Cardinality(0 .. n - 1) = n
      <4>1. 0 \in Int /\ n - 1 \in Int /\ (0 > n - 1 => n = 0)
        OBVIOUS
      <4>2. IsFiniteSet(0 .. n - 1) /\ Cardinality(0 .. n - 1) = IF 0 > n - 1 THEN 0 ELSE (n - 1) - 0 + 1
        BY <4>1, FS_Interval
      <4> QED
        BY <4>1, <4>2
    <3>4. Cardinality(Allocatable) <= n
      BY <3>2, <3>3, FS_Injection
    <3> QED
      BY <1>1, <3>4, Frames
  <2> QED
    BY <2>1, <2>2, Pages DEF Allocatable
<1>2. \A n, m \in Nat : NthFrame(n) = NthFrame(m) => n = m
  BY Pages DEF NthFrame
<1> QED
  BY <1>1, <1>2

(* The frames set_user_pages takes for the code, which all processes share.*)
CodeFrames == {NthFrame(i) : i \in 0 .. NUM_PAG_CODE - 1}

(* What the tasks in U hold.                                               *)
Held(tab, U) == {tab[t][p] : t \in U, p \in DataPages}

(* Every task in U has data frames of its own, nobody else has any, and    *)
(* the marked frames are those, the ones of the code and the kernel's.     *)
Allotted(mem, tab, U) ==
  /\ tab \in [Task -> [Page -> Int]]
  /\ \A t \in Task \ U, p \in DataPages : tab[t][p] = NotPresent
  /\ \A t \in U, p \in DataPages : tab[t][p] \in Allocatable \ CodeFrames
  /\ \A t, u \in U, p, q \in DataPages : tab[t][p] = tab[u][q] => t = u /\ p = q
  /\ \A t \in Task, p \in Page \ DataPages : tab[t][p] \in CodeFrames \cup {NotPresent, 0}
  /\ mem = init_frames \cup CodeFrames \cup Held(tab, U)

(* The processes.                                                          *)
Users(run, st) == Task \ ({idle_task} \cup Free(run, st))

(* The frames of the code are some of them.                                *)
LEMMA CodeIn ==
  /\ CodeFrames \subseteq Allocatable /\ NUM_PAG_KERNEL \in CodeFrames
  /\ \A n \in Nat : NthFrame(n) \in CodeFrames => n < NUM_PAG_CODE
  /\ IsFiniteSet(CodeFrames) /\ Cardinality(CodeFrames) <= NUM_PAG_CODE
  /\ NUM_PAG_CODE + NUM_PAG_DATA <= Cardinality(Allocatable)
  /\ \A f \in CodeFrames : f \in Int /\ f > 0
<1>1. NUM_PAG_CODE + NUM_PAG_DATA <= Cardinality(Allocatable)
  <2>1. NUM_PAG_CODE + (NR_TASKS - 1) * NUM_PAG_DATA <= Cardinality(Allocatable)
    BY EnoughFrames
  <2>2. NR_TASKS - 1 \in Nat /\ NR_TASKS - 1 >= 1 /\ NUM_PAG_DATA \in Nat
    BY EarlyAssumption, Pages
  <2>3. \A a, d \in Nat : a >= 1 => a * d >= d /\ a * d \in Nat
    <3> SUFFICES ASSUME NEW a \in Nat, NEW d \in Nat, a >= 1 PROVE a * d >= d /\ a * d \in Nat
      OBVIOUS
    <3>1. PICK b \in Nat : a = b + 1
      <4>1. a - 1 \in Nat /\ a = (a - 1) + 1
        OBVIOUS
      <4> QED
        BY <4>1
    <3>2. b * d \in Nat /\ (b + 1) * d = b * d + d
      OBVIOUS
    <3> QED
      BY <3>1, <3>2
  <2>4. PICK x \in Nat : x = (NR_TASKS - 1) * NUM_PAG_DATA /\ x >= NUM_PAG_DATA
    BY <2>2, <2>3
  <2> QED
    BY <2>1, <2>2, <2>4, Pages, Frames
<1>2. CodeFrames \subseteq Allocatable
  <2> SUFFICES ASSUME NEW i \in 0 .. NUM_PAG_CODE - 1 PROVE NthFrame(i) \in Allocatable
    BY DEF CodeFrames
  <2>1. i \in Nat /\ i < Cardinality(Allocatable)
    BY <1>1, Pages, Frames
  <2> QED
    BY <2>1, NthFrames
<1>3. NUM_PAG_KERNEL \in CodeFrames
  <2>1. 0 \in 0 .. NUM_PAG_CODE - 1 /\ NthFrame(0) = NUM_PAG_KERNEL
    BY Pages DEF NthFrame
  <2> QED
    BY <2>1 DEF CodeFrames
<1>4. ASSUME NEW n \in Nat, NthFrame(n) \in CodeFrames PROVE n < NUM_PAG_CODE
  <2>1. PICK i \in 0 .. NUM_PAG_CODE - 1 : NthFrame(n) = NthFrame(i)
    BY <1>4 DEF CodeFrames
  <2>2. i \in Nat /\ i < NUM_PAG_CODE
    BY Pages
  <2>3. n = i
    BY <2>1, <2>2, NthFrames
  <2> QED
    BY <2>2, <2>3
<1>5. IsFiniteSet(CodeFrames) /\ Cardinality(CodeFrames) <= NUM_PAG_CODE
  <2> DEFINE f == [i \in 0 .. NUM_PAG_CODE - 1 |-> NthFrame(i)]
  <2>1. CodeFrames = {f[i] : i \in 0 .. NUM_PAG_CODE - 1}
    BY DEF CodeFrames
  <2> HIDE DEF f
  <2>2. 0 \in Int /\ NUM_PAG_CODE - 1 \in Int /\ ~ (0 > NUM_PAG_CODE - 1) /\ (NUM_PAG_CODE - 1) - 0 + 1 = NUM_PAG_CODE
    BY Pages
  <2>3. IsFiniteSet(0 .. NUM_PAG_CODE - 1) /\ Cardinality(0 .. NUM_PAG_CODE - 1) = NUM_PAG_CODE
    BY <2>2, FS_Interval
  <2> QED
    BY <2>1, <2>3, FewValues
<1>6. \A f \in CodeFrames : f \in Int /\ f > 0
  BY <1>2, Frames, Pages
<1> QED
  BY <1>1, <1>2, <1>3, <1>4, <1>5, <1>6

(* What the property says of tables and marks.                             *)
NotShared(mem, tab) ==
  \A t \in Task, p \in DataPages : tab[t][p] # NotPresent =>
    /\ tab[t][p] \in mem
    /\ \A u \in Task, q \in Page : tab[u][q] = tab[t][p] => u = t /\ q = p

(* Nobody shares a data frame.                                             *)
LEMMA AllottedApart ==
  ASSUME NEW U \in SUBSET Task, NEW mem, NEW tab, Allotted(mem, tab, U)
  PROVE  NotShared(mem, tab)
<1> SUFFICES ASSUME NEW t \in Task, NEW p \in DataPages, tab[t][p] # NotPresent
             PROVE  /\ tab[t][p] \in mem
                    /\ \A u \in Task, q \in Page : tab[u][q] = tab[t][p] => u = t /\ q = p
  BY DEF NotShared
<1>1. t \in U
  BY DEF Allotted
<1>2. tab[t][p] \in Allocatable \ CodeFrames
  BY <1>1 DEF Allotted
<1>3. tab[t][p] \in mem
  BY <1>1 DEF Allotted, Held
<1>4. ASSUME NEW u \in Task, NEW q \in Page, tab[u][q] = tab[t][p]
      PROVE  u = t /\ q = p
  <2>1. q \in DataPages
    <3>1. tab[t][p] \notin CodeFrames \cup {NotPresent, 0}
      BY <1>2, Frames, Pages DEF NotPresent
    <3> QED
      BY <1>4, <3>1 DEF Allotted
  <2>2. u \in U
    BY <1>4, <2>1 DEF Allotted
  <2> QED
    BY <1>1, <1>4, <2>1, <2>2 DEF Allotted
<1> QED
  BY <1>3, <1>4

(* There are enough frames for one more process.                           *)
LEMMA EnoughLeft ==
  ASSUME NEW U \in SUBSET Task, Allotted(phys_mem, pagusr_table, U),
         NEW t \in Task, t # idle_task, t \notin U, idle_task \notin U
  PROVE  alloc_frames # {}
<1> DEFINE D == NUM_PAG_DATA
           K == NUM_PAG_KERNEL
           H == Held(pagusr_table, U)
           free == Allocatable \ phys_mem
<1>1. IsFiniteSet(U) /\ Cardinality(U) \in Nat /\ Cardinality(U) <= NR_TASKS - 2
  <2>1. 0 \in Int /\ NR_TASKS - 1 \in Int /\ ~ (0 > NR_TASKS - 1) /\ (NR_TASKS - 1) - 0 + 1 = NR_TASKS
    BY EarlyAssumption
  <2>2. IsFiniteSet(Task) /\ Cardinality(Task) = NR_TASKS
    BY <2>1, FS_Interval DEF Task
  <2> DEFINE A == Task \ {t}
             B == A \ {idle_task}
  <2>3. IsFiniteSet(A) /\ Cardinality(A) = NR_TASKS - 1
    BY <2>2, FS_RemoveElement
  <2>4. idle_task \in A
    BY Apart
  <2> HIDE DEF A
  <2>5. IsFiniteSet(B) /\ Cardinality(B) = (NR_TASKS - 1) - 1
    BY <2>3, <2>4, FS_RemoveElement
  <2>6. U \in SUBSET B
    BY DEF A
  <2> HIDE DEF B
  <2>7. IsFiniteSet(U) /\ Cardinality(U) <= Cardinality(B)
    BY <2>5, <2>6, FS_Subset
  <2> QED
    BY <2>5, <2>7, FS_CardinalityType, EarlyAssumption
<1>2. IsFiniteSet(DataPages) /\ Cardinality(DataPages) = D
  <2>1. K \in Int /\ K + D - 1 \in Int /\ ~ (K > K + D - 1) /\ (K + D - 1) - K + 1 = D /\ DataPages = K .. K + D - 1
    BY Pages
  <2> HIDE DEF K, D
  <2> QED
    BY <2>1, FS_Interval
<1>3. IsFiniteSet(H) /\ Cardinality(H) \in Nat /\ Cardinality(H) <= Cardinality(U) * D
  <2> DEFINE f == [x \in U \X DataPages |-> pagusr_table[x[1]][x[2]]]
             X == U \X DataPages
  <2>1. IsFiniteSet(X) /\ Cardinality(X) = Cardinality(U) * D
    BY <1>1, <1>2, FS_Product
  <2>2. H = {f[x] : x \in X}
    <3>1. ASSUME NEW u \in U, NEW p \in DataPages PROVE pagusr_table[u][p] \in {f[x] : x \in X}
      <4>1. <<u, p>> \in X /\ f[<<u, p>>] = pagusr_table[u][p]
        OBVIOUS
      <4> HIDE DEF f, X
      <4> QED
        BY <4>1
    <3>2. ASSUME NEW x \in X PROVE f[x] \in H
      <4>1. x[1] \in U /\ x[2] \in DataPages /\ f[x] = pagusr_table[x[1]][x[2]]
        OBVIOUS
      <4> QED
        BY <4>1 DEF Held
    <3> HIDE DEF f, X
    <3> QED
      BY <3>1, <3>2 DEF Held
  <2> HIDE DEF f, X, H
  <2>3. IsFiniteSet(H) /\ Cardinality(H) <= Cardinality(X)
    BY <2>1, <2>2, FewValues
  <2> QED
    BY <2>1, <2>3, FS_CardinalityType
<1>4. Cardinality(Allocatable \cap phys_mem) <= NUM_PAG_CODE + Cardinality(H)
  <2>1. (Allocatable \cap phys_mem) \in SUBSET (CodeFrames \cup H)
    BY Frames DEF Allotted
  <2> HIDE DEF H
  <2>2. IsFiniteSet(CodeFrames \cup H)
        /\ Cardinality(CodeFrames \cup H) = Cardinality(CodeFrames) + Cardinality(H) - Cardinality(CodeFrames \cap H)
    BY <1>3, CodeIn, FS_Union
  <2>3. Cardinality(CodeFrames \cap H) \in Nat
    BY CodeIn, FS_Intersection, FS_CardinalityType
  <2>4. Cardinality(CodeFrames) \in Nat
    BY CodeIn, FS_CardinalityType
  <2>5. Cardinality(Allocatable \cap phys_mem) <= Cardinality(CodeFrames \cup H)
    BY <2>1, <2>2, FS_Subset
  <2>6. Cardinality(Allocatable \cap phys_mem) \in Nat
    BY Frames, FS_Intersection, FS_CardinalityType
  <2> QED
    BY <1>3, <2>2, <2>3, <2>4, <2>5, <2>6, CodeIn, Pages
<1>5. D <= Cardinality(free)
  <2>1. Cardinality(free) = Cardinality(Allocatable) - Cardinality(Allocatable \cap phys_mem)
    BY Frames, FS_Difference
  <2>2. NUM_PAG_CODE + (NR_TASKS - 1) * D <= Cardinality(Allocatable)
    BY EnoughFrames
  <2>3. D \in Nat /\ NUM_PAG_CODE \in Nat /\ NR_TASKS - 2 \in Nat
    BY Pages, EarlyAssumption
  <2>4. Cardinality(U) * D <= (NR_TASKS - 2) * D
    <3>1. \A x, y, d \in Nat : x <= y => x * d <= y * d
      <4> SUFFICES ASSUME NEW x \in Nat, NEW y \in Nat, NEW d \in Nat, x <= y PROVE x * d <= y * d
        OBVIOUS
      <4>1. PICK z \in Nat : y = x + z
        <5>1. y - x \in Nat /\ y = x + (y - x)
          OBVIOUS
        <5> QED
          BY <5>1
      <4>2. (x + z) * d = x * d + z * d /\ z * d \in Nat /\ x * d \in Nat
        OBVIOUS
      <4> QED
        BY <4>1, <4>2
    <3> HIDE DEF D
    <3> QED
      BY <1>1, <2>3, <3>1
  <2>5. (NR_TASKS - 1) * D = (NR_TASKS - 2) * D + D
    <3>1. PICK n \in Nat : n = NR_TASKS - 2
      BY <2>3
    <3>2. NR_TASKS - 1 = n + 1
      BY <3>1, EarlyAssumption
    <3>3. (n + 1) * D = n * D + D
      BY <2>3
    <3> QED
      BY <3>1, <3>2, <3>3
  <2>6. PICK a \in Nat : a = (NR_TASKS - 2) * D
    BY <2>3
  <2>7. Cardinality(Allocatable \cap phys_mem) \in Nat
    BY Frames, FS_Intersection, FS_CardinalityType
  <2>8. PICK b \in Nat : b = Cardinality(U) * D
    BY <1>1, <2>3
  <2>9. Cardinality(H) <= b /\ b <= a /\ NUM_PAG_CODE + a + D <= Cardinality(Allocatable)
    BY <1>3, <2>2, <2>3, <2>4, <2>5, <2>6, <2>8
  <2> HIDE DEF free, D, H
  <2> QED
    BY <1>3, <1>4, <2>1, <2>3, <2>7, <2>9, Frames
<1>6. free \in SUBSET (1 .. TOTAL_PAGES) /\ TOTAL_PAGES \in Nat /\ D \in Nat
  BY Frames, Pages
<1>7. PICK e \in [1 .. D -> free] : Lowest(D, free, e)
  <2> HIDE DEF free, D
  <2> QED
    BY <1>5, <1>6, LowestExist
<1> DEFINE a == [p \in DataPages |-> e[p - K + 1]]
<1>8. ASSUME NEW p \in DataPages PROVE p - K + 1 \in 1 .. D /\ p \in Int
  BY Pages
<1>9. a \in [DataPages -> free]
  <2> HIDE DEF free, D, K
  <2> QED
    BY <1>8
<1>10. ASSUME NEW p \in DataPages, NEW q \in DataPages, p < q PROVE a[p] < a[q]
  <2>1. p - K + 1 < q - K + 1
    BY <1>8, <1>10, Pages
  <2> HIDE DEF K, D, free
  <2> QED
    BY <1>7, <1>8, <2>1 DEF Lowest
<1>11. ASSUME NEW p \in DataPages, NEW f \in free, f < a[p] PROVE \E q \in DataPages : a[q] = f
  <2>1. PICK j \in 1 .. D : e[j] = f
    <3> HIDE DEF K, D, free
    <3> QED
      BY <1>7, <1>8, <1>11 DEF Lowest
  <2>2. j + K - 1 \in DataPages /\ (j + K - 1) - K + 1 = j
    BY Pages
  <2> HIDE DEF K, D, free
  <2> QED
    BY <2>1, <2>2
<1> HIDE DEF a
<1>12. a \in alloc_frames
  BY <1>9, <1>10, <1>11 DEF alloc_frames
<1> QED
  BY <1>12

(* A fork hands out frames nobody has.                                     *)
LEMMA ForkAllots ==
  ASSUME NEW U \in SUBSET Task, Allotted(phys_mem, pagusr_table, U), running \in Task,
         NEW child \in Task \ U, NEW a \in alloc_frames,
         phys_mem' = phys_mem \cup {a[p] : p \in DataPages},
         pagusr_table' = [pagusr_table EXCEPT ![child] = [p \in Page |-> ChildEntry(a, p)]]
  PROVE  Allotted(phys_mem', pagusr_table', U \cup {child})
<1> DEFINE tab == pagusr_table
           new == [p \in Page |-> ChildEntry(a, p)]
           V == U \cup {child}
<1>1. /\ a \in [DataPages -> Allocatable \ phys_mem]
      /\ \A p, q \in DataPages : p < q => a[p] < a[q]
  BY DEF alloc_frames
<1>2. ASSUME NEW p \in DataPages, NEW q \in DataPages, a[p] = a[q] PROVE p = q
  <2>1. p \in Int /\ q \in Int /\ a[p] \in Int /\ a[q] \in Int
    <3>1. a[p] \in Allocatable /\ a[q] \in Allocatable
      BY <1>1
    <3>2. p \in NUM_PAG_KERNEL .. NUM_PAG_KERNEL + NUM_PAG_DATA - 1
          /\ q \in NUM_PAG_KERNEL .. NUM_PAG_KERNEL + NUM_PAG_DATA - 1
      BY Pages
    <3>3. NUM_PAG_KERNEL \in Nat /\ NUM_PAG_DATA \in Nat
      BY Pages
    <3>4. p \in Int /\ q \in Int
      BY <3>2, <3>3
    <3>5. a[p] \in Int /\ a[q] \in Int
      BY <3>1, Frames
    <3> QED
      BY <3>4, <3>5
  <2> QED
    BY <1>1, <1>2, <2>1
<1>3. \A p \in DataPages : p \in Page /\ new[p] = a[p] /\ a[p] \in Allocatable \ CodeFrames /\ a[p] \notin Held(tab, U)
  BY <1>1, Pages DEF ChildEntry, Allotted
<1>4. ASSUME NEW p \in Page \ DataPages PROVE new[p] \in CodeFrames \cup {NotPresent, 0}
  <2>1. new[p] = get_frame(running, p)
    BY DEF ChildEntry
  <2>2. tab[running][p] \in CodeFrames \cup {NotPresent, 0}
    BY DEF Allotted
  <2> QED
    BY <2>1, <2>2 DEF get_frame
<1>5. new \in [Page -> Int]
  <2>1. ASSUME NEW p \in Page PROVE ChildEntry(a, p) \in Int
    <3>1. CASE p \in DataPages
      BY <1>3, <3>1, Frames DEF ChildEntry
    <3>2. CASE p \notin DataPages
      BY <1>4, <3>2, CodeIn DEF NotPresent
    <3> QED
      BY <3>1, <3>2
  <2> QED
    BY <2>1
<1>6. tab \in [Task -> [Page -> Int]]
  BY DEF Allotted
<1> HIDE DEF new
<1>7. /\ tab' \in [Task -> [Page -> Int]]
      /\ tab'[child] = new /\ \A t \in Task \ {child} : tab'[t] = tab[t]
  BY <1>5, <1>6 DEF new
<1> HIDE DEF tab
<1>8. \A t \in Task \ V, p \in DataPages : tab'[t][p] = NotPresent
  BY <1>7 DEF Allotted, tab
<1>9. \A t \in V, p \in DataPages : tab'[t][p] \in Allocatable \ CodeFrames
  BY <1>3, <1>7 DEF Allotted, tab
<1>10. ASSUME NEW t \in V, NEW u \in V, NEW p \in DataPages, NEW q \in DataPages, tab'[t][p] = tab'[u][q]
       PROVE  t = u /\ p = q
  <2>1. ASSUME NEW v \in U, NEW r \in DataPages
        PROVE  v \in Task \ {child} /\ tab'[v][r] = tab[v][r] /\ tab[v][r] \in Held(tab, U)
    BY <1>7 DEF Held
  <2>2. CASE t = child /\ u = child
    BY <1>2, <1>3, <1>7, <1>10, <2>2
  <2>3. CASE t = child /\ u # child
    BY <1>3, <1>7, <1>10, <2>1, <2>3
  <2>4. CASE t # child /\ u = child
    BY <1>3, <1>7, <1>10, <2>1, <2>4
  <2>5. CASE t # child /\ u # child
    <3>1. t \in U /\ u \in U /\ tab[t][p] = tab[u][q]
      BY <1>10, <2>1, <2>5
    <3> QED
      BY <3>1 DEF Allotted, tab
  <2> QED
    BY <2>2, <2>3, <2>4, <2>5
<1>11. \A t \in Task, p \in Page \ DataPages : tab'[t][p] \in CodeFrames \cup {NotPresent, 0}
  BY <1>4, <1>7 DEF Allotted, tab
<1>12. Held(tab', V) = Held(tab, U) \cup {a[p] : p \in DataPages}
  <2>1. ASSUME NEW t \in V, NEW p \in DataPages
        PROVE  tab'[t][p] \in Held(tab, U) \cup {a[r] : r \in DataPages}
    <3>1. CASE t = child
      BY <1>3, <1>7, <3>1
    <3>2. CASE t # child
      BY <1>7, <3>2 DEF Held
    <3> QED
      BY <3>1, <3>2
  <2>2. ASSUME NEW t \in U, NEW p \in DataPages PROVE tab[t][p] \in Held(tab', V)
    <3>1. t \in Task \ {child} /\ t \in V
      OBVIOUS
    <3>2. tab'[t][p] = tab[t][p]
      BY <1>7, <3>1
    <3>3. tab'[t][p] \in Held(tab', V)
      BY <3>1 DEF Held
    <3> QED
      BY <3>2, <3>3
  <2>3. ASSUME NEW p \in DataPages PROVE a[p] \in Held(tab', V)
    <3>1. child \in V /\ tab'[child][p] = a[p]
      BY <1>3, <1>7
    <3> QED
      BY <3>1 DEF Held
  <2>4. Held(tab', V) \subseteq Held(tab, U) \cup {a[r] : r \in DataPages}
    BY <2>1 DEF Held
  <2>5. Held(tab, U) \subseteq Held(tab', V)
    BY <2>2 DEF Held
  <2> QED
    BY <2>3, <2>4, <2>5
<1>13. phys_mem' = init_frames \cup CodeFrames \cup Held(tab', V)
  BY <1>12 DEF Allotted, tab
<1> HIDE DEF V
<1>14. Allotted(phys_mem', tab', V)
  BY <1>7, <1>8, <1>9, <1>10, <1>11, <1>13 DEF Allotted
<1> QED
  BY <1>14 DEF tab, V

(* An exit gives back all that its process had.                            *)
LEMMA ExitReleases ==
  ASSUME NEW U \in SUBSET Task, Allotted(phys_mem, pagusr_table, U), running \in U,
         phys_mem' = free_frame(phys_mem, {get_frame(running, p) : p \in Released}),
         pagusr_table' = [pagusr_table EXCEPT ![running] =
                            [p \in Page |-> IF p \in Released THEN NotPresent ELSE @[p]]]
  PROVE  Allotted(phys_mem', pagusr_table', U \ {running})
<1> DEFINE tab == pagusr_table
           V == U \ {running}
           Own == {tab[running][p] : p \in DataPages}
<1>1. tab \in [Task -> [Page -> Int]] /\ DataPages \subseteq Page
  BY Pages DEF Allotted
<1>2. /\ tab' \in [Task -> [Page -> Int]]
      /\ \A t \in Task \ {running} : tab'[t] = tab[t]
      /\ \A p \in DataPages : tab'[running][p] = NotPresent
      /\ \A p \in Page \ DataPages : tab'[running][p] = tab[running][p]
  BY <1>1 DEF Released, NotPresent
<1>3. phys_mem' = phys_mem \ Own
  <2>1. ASSUME NEW p \in DataPages
        PROVE  /\ get_frame(running, p) = tab[running][p]
               /\ tab[running][p] > NUM_PAG_KERNEL /\ tab[running][p] < TOTAL_PAGES
    <3>1. tab[running][p] \in Allocatable \ CodeFrames
      BY DEF Allotted
    <3>2. tab[running][p] \in Int /\ tab[running][p] >= NUM_PAG_KERNEL /\ tab[running][p] < TOTAL_PAGES
      BY <3>1, Frames
    <3>3. tab[running][p] # NUM_PAG_KERNEL
      BY <3>1, CodeIn
    <3> QED
      BY <3>2, <3>3, Pages DEF get_frame, NotPresent
  <2>2. {get_frame(running, p) : p \in Released} = Own
    BY <2>1 DEF Released
  <2>3. \A f \in Own : f > NUM_PAG_KERNEL /\ f < TOTAL_PAGES
    BY <2>1
  <2> HIDE DEF Own
  <2> QED
    BY <2>2, <2>3 DEF free_frame
<1> HIDE DEF tab
<1>4. \A t \in Task \ V, p \in DataPages : tab'[t][p] = NotPresent
  BY <1>2 DEF Allotted, tab
<1>5. \A t \in V, p \in DataPages : tab'[t][p] \in Allocatable \ CodeFrames
  BY <1>2 DEF Allotted, tab
<1>6. ASSUME NEW t \in V, NEW u \in V, NEW p \in DataPages, NEW q \in DataPages, tab'[t][p] = tab'[u][q]
      PROVE  t = u /\ p = q
  <2>1. t \in U /\ u \in U /\ tab[t][p] = tab[u][q]
    BY <1>2, <1>6
  <2> QED
    BY <2>1 DEF Allotted, tab
<1>7. \A t \in Task, p \in Page \ DataPages : tab'[t][p] \in CodeFrames \cup {NotPresent, 0}
  BY <1>2 DEF Allotted, tab
<1>8. Held(tab', V) = Held(tab, U) \ Own
  <2>1. ASSUME NEW t \in V, NEW p \in DataPages PROVE tab'[t][p] \in Held(tab, U) \ Own
    <3>1. t \in U /\ t # running /\ tab'[t][p] = tab[t][p]
      BY <1>2
    <3>2. tab[t][p] \notin Own
      <4> SUFFICES ASSUME NEW q \in DataPages, tab[t][p] = tab[running][q] PROVE FALSE
        OBVIOUS
      <4> QED
        BY <3>1 DEF Allotted, tab
    <3> QED
      BY <3>1, <3>2 DEF Held
  <2>2. ASSUME NEW t \in U, NEW p \in DataPages, tab[t][p] \notin Own PROVE tab[t][p] \in Held(tab', V)
    <3>1. t \in V
      BY <2>2
    <3>2. tab'[t][p] = tab[t][p]
      BY <1>2, <3>1
    <3>3. tab'[t][p] \in Held(tab', V)
      BY <3>1 DEF Held
    <3> QED
      BY <3>2, <3>3
  <2>3. Held(tab', V) \subseteq Held(tab, U) \ Own
    <3> HIDE DEF Own, V
    <3> QED
      BY <2>1 DEF Held
  <2>4. Held(tab, U) \ Own \subseteq Held(tab', V)
    <3> HIDE DEF Own, V
    <3> QED
      BY <2>2 DEF Held
  <2> QED
    BY <2>3, <2>4
<1>9. \A f \in Own : f \notin init_frames /\ f \notin CodeFrames
  <2>1. \A p \in DataPages : tab[running][p] \in Allocatable \ CodeFrames
    BY DEF Allotted, tab
  <2> QED
    BY <2>1, Frames
<1> HIDE DEF Own, V
<1>10. phys_mem' = init_frames \cup CodeFrames \cup Held(tab', V)
  BY <1>3, <1>8, <1>9 DEF Allotted, tab
<1>11. Allotted(phys_mem', tab', V)
  BY <1>2, <1>4, <1>5, <1>6, <1>7, <1>10 DEF Allotted
<1> QED
  BY <1>11 DEF tab, V

(* The first process gets its frames.                                      *)
LEMMA InitAllotted ==
  ASSUME MemInit
  PROVE  Allotted(phys_mem, pagusr_table, {task_1})
<1> DEFINE tab == pagusr_table
           C == NUM_PAG_CODE
           K == NUM_PAG_KERNEL
           L == NUM_PAG_KERNEL + NUM_PAG_DATA
           new == [p \in Page |-> IF p = NULLPage THEN NotPresent ELSE set_user_pages[p]]
<1>1. task_1 \in Task
  BY Apart
<1>2. /\ \A p \in DataPages : set_user_pages[p] = NthFrame(C + p - K) /\ C + p - K \in Nat
                              /\ C + p - K >= C /\ C + p - K < C + NUM_PAG_DATA
      /\ \A p \in CodePages : set_user_pages[p] = NthFrame(p - L) /\ p - L \in 0 .. C - 1
  BY Pages DEF set_user_pages, PAG_LOG_INIT_CODE, PAG_LOG_INIT_DATA
<1>3. ASSUME NEW p \in DataPages PROVE set_user_pages[p] \in Allocatable \ CodeFrames
  <2>1. PICK n \in Nat : n = C + p - K
    BY <1>2
  <2>2. n >= C /\ n < C + NUM_PAG_DATA /\ set_user_pages[p] = NthFrame(n)
    BY <1>2, <2>1
  <2>3. n < Cardinality(Allocatable)
    BY <2>2, CodeIn, Frames, Pages
  <2>4. ~ (n < C)
    BY <2>2, Pages
  <2> QED
    BY <2>2, <2>3, <2>4, NthFrames, CodeIn
<1>4. \A p \in CodePages : set_user_pages[p] \in CodeFrames
  BY <1>2 DEF CodeFrames
<1>5. ASSUME NEW f \in CodeFrames PROVE \E p \in CodePages : set_user_pages[p] = f
  <2>1. PICK i \in 0 .. C - 1 : f = NthFrame(i)
    BY <1>5 DEF CodeFrames
  <2>2. i + L \in CodePages /\ (i + L) - L = i
    BY Pages
  <2>3. set_user_pages[i + L] = NthFrame(i)
    BY <1>2, <2>2
  <2> QED
    BY <2>1, <2>2, <2>3
<1>6. ASSUME NEW p \in DataPages, NEW q \in DataPages, set_user_pages[p] = set_user_pages[q] PROVE p = q
  <2>1. C + p - K \in Nat /\ C + q - K \in Nat /\ NthFrame(C + p - K) = NthFrame(C + q - K)
    BY <1>2, <1>6
  <2>2. C + p - K = C + q - K
    BY <2>1, NthFrames
  <2> QED
    BY <2>2, Pages
<1>7. DOMAIN set_user_pages = CodePages \cup DataPages
  BY DEF set_user_pages
<1>8. /\ tab = [init_table_pages EXCEPT ![task_1] = new]
      /\ phys_mem = init_frames \cup {set_user_pages[p] : p \in CodePages \cup DataPages}
  BY <1>7 DEF MemInit
<1>9. \A p \in Page : new[p] = IF p = NULLPage THEN NotPresent ELSE set_user_pages[p]
  OBVIOUS
<1>10. new \in [Page -> Int]
  <2>1. ASSUME NEW p \in Page PROVE new[p] \in Int
    <3>1. CASE p = NULLPage
      BY <1>9, <3>1 DEF NotPresent
    <3>2. CASE p # NULLPage
      <4>1. p \in CodePages \/ p \in DataPages
        BY <3>2, Pages
      <4>2. set_user_pages[p] \in Allocatable
        BY <1>3, <1>4, <4>1, CodeIn
      <4> QED
        BY <1>9, <3>2, <4>2, Frames
    <3> QED
      BY <3>1, <3>2
  <2> QED
    BY <2>1
<1> HIDE DEF new
<1>11. /\ tab \in [Task -> [Page -> Int]]
       /\ tab[task_1] = new
       /\ \A t \in Task \ {task_1}, p \in Page : tab[t][p] = NotPresent
  BY <1>1, <1>8, <1>10 DEF init_table_pages, NotPresent
<1>12. \A p \in DataPages : p \in Page /\ new[p] = set_user_pages[p]
  BY <1>9, Pages
<1>13. \A p \in Page \ DataPages : new[p] \in CodeFrames \cup {NotPresent, 0}
  BY <1>4, <1>9, Pages
<1> HIDE DEF tab
<1>14. \A t \in Task \ {task_1}, p \in DataPages : tab[t][p] = NotPresent
  BY <1>11, <1>12
<1>15. \A t \in {task_1}, p \in DataPages : tab[t][p] \in Allocatable \ CodeFrames
  BY <1>3, <1>11, <1>12
<1>16. \A t, u \in {task_1}, p, q \in DataPages : tab[t][p] = tab[u][q] => t = u /\ p = q
  BY <1>6, <1>11, <1>12
<1>17. \A t \in Task, p \in Page \ DataPages : tab[t][p] \in CodeFrames \cup {NotPresent, 0}
  BY <1>11, <1>13
<1>18. Held(tab, {task_1}) = {set_user_pages[p] : p \in DataPages}
  BY <1>11, <1>12 DEF Held
<1>19. CodeFrames = {set_user_pages[p] : p \in CodePages}
  BY <1>4, <1>5
<1>20. phys_mem = init_frames \cup CodeFrames \cup Held(tab, {task_1})
  BY <1>8, <1>18, <1>19
<1>21. Allotted(phys_mem, tab, {task_1})
  BY <1>11, <1>14, <1>15, <1>16, <1>17, <1>20 DEF Allotted
<1> QED
  BY <1>21 DEF tab

(* The inductive invariant of the composition: while the kernel runs, and  *)
(* nobody has written in a queue that is not its own, the processes hold   *)
(* the frames, and what was allotted stays so after the kernel stops.      *)
MemoryInv ==
  /\ KernelInv
  /\ fault = "none" /\ ~ tangled => Allotted(phys_mem, pagusr_table, Users(running, status))
  /\ DataNotShared
  /\ FramesSuffice

(* It holds at the start.                                                  *)
LEMMA MemoryInit == MemInit => MemoryInv
<1> SUFFICES ASSUME MemInit PROVE MemoryInv
  OBVIOUS
<1>1. Init /\ fault = "none"
  BY DEF MemInit, Init
<1>2. KernelInv
  BY <1>1, KernelInit
<1>3. Users(running, status) = {task_1}
  BY <1>1, InitScheduled, Apart DEF Users
<1>4. Allotted(phys_mem, pagusr_table, {task_1})
  BY InitAllotted
<1>5. {task_1} \in SUBSET Task
  BY Apart
<1>6. DataNotShared
  <2>1. NotShared(phys_mem, pagusr_table)
    BY <1>4, <1>5, AllottedApart
  <2> QED
    BY <2>1 DEF DataNotShared, NotShared
<1> QED
  BY <1>1, <1>2, <1>3, <1>4, <1>6 DEF MemoryInv, FramesSuffice

(* And every step keeps it.                                                *)
LEMMA MemoryStep == MemoryInv /\ [MemNext]_memAllVars => MemoryInv'
<1> SUFFICES ASSUME MemoryInv, [MemNext]_memAllVars PROVE MemoryInv'
  OBVIOUS
<1>1. KernelInv'
  BY KernelStep, MemoryNext DEF MemoryInv
<1>2. CASE UNCHANGED memAllVars
  <2>1. UNCHANGED << running, status, fault, tangled, phys_mem, pagusr_table >>
    BY <1>2 DEF memAllVars, memVars, vars, taskVars
  <2>2. (fault = "none" /\ ~ tangled => Allotted(phys_mem, pagusr_table, Users(running, status)))'
    BY <2>1 DEF MemoryInv
  <2>3. DataNotShared' /\ FramesSuffice'
    BY <2>1 DEF MemoryInv, DataNotShared, FramesSuffice
  <2> QED
    BY <1>1, <2>2, <2>3 DEF MemoryInv
<1>3. ASSUME MemNext, tangled PROVE MemoryInv'
  <2>1. KernelNext
    BY <1>3 DEF MemNext, KernelNext, Next, ForkMemory, ExitMemory
  <2>2. tangled'
    BY <1>3, <2>1, Zenon DEF KernelNext, Next, Clock, sys_fork, Stop, sys_exit, sys_block, sys_unblock
  <2> QED
    BY <1>1, <2>2 DEF MemoryInv, DataNotShared, FramesSuffice
<1>4. ASSUME MemNext, ~ tangled PROVE MemoryInv'
  <2> DEFINE U == Users(running, status)
  <2>1. fault = "none"
    BY <1>4 DEF MemNext, ForkMemory, ExitMemory, Clock, sys_fork, sys_exit, sys_block, sys_unblock, Syscall
  <2>2. Scheduled(lists, running, status) /\ Allotted(phys_mem, pagusr_table, U) /\ U \in SUBSET Task
    BY <1>4, <2>1 DEF MemoryInv, KernelInv, Users
  <2>3. running \in Task
    BY <2>2 DEF Scheduled
  <2>4. ASSUME fault' # "no_frame", Allotted(phys_mem', pagusr_table', Users(running', status'))
        PROVE  MemoryInv'
    <3>1. DataNotShared'
      <4>1. Users(running', status') \in SUBSET Task
        BY DEF Users
      <4> QED
        <5>1. NotShared(phys_mem', pagusr_table')
          BY <2>4, <4>1, AllottedApart
        <5> QED
          BY <5>1 DEF DataNotShared, NotShared
    <3> QED
      BY <1>1, <2>4, <3>1 DEF MemoryInv, FramesSuffice
  <2>5. ASSUME fault' \in {"null", "endless"}, UNCHANGED memVars PROVE MemoryInv'
    <3>1. DataNotShared'
      BY <1>4, <2>5 DEF MemoryInv, DataNotShared, memVars
    <3> QED
      BY <1>1, <2>5, <3>1 DEF MemoryInv, FramesSuffice
  <2>6. ASSUME fault' = "none", Free(running', status') = Free(running, status), UNCHANGED memVars
        PROVE  MemoryInv'
    BY <2>2, <2>4, <2>6 DEF Users, memVars
  <2>7. CASE Clock /\ UNCHANGED memVars
    BY <2>2, <2>6, <2>7, ClockKeeps
  <2>8. CASE sys_block /\ UNCHANGED memVars
    BY <2>2, <2>6, <2>8, BlockKeeps
  <2>9. ASSUME NEW pid \in Pids, sys_unblock(pid), UNCHANGED memVars PROVE MemoryInv'
    BY <2>2, <2>5, <2>6, <2>9, UnblockKeeps
  <2>10. CASE ExitMemory
    <3>1. sys_exit
      BY <2>10 DEF ExitMemory
    <3>2. CASE list_empty(lists, kids(running))
      <4>1. /\ phys_mem' = free_frame(phys_mem, {get_frame(running, p) : p \in Released})
            /\ pagusr_table' = [pagusr_table EXCEPT ![running] =
                                 [p \in Page |-> IF p \in Released THEN NotPresent ELSE @[p]]]
        BY <2>10, <3>2 DEF ExitMemory
      <4>2. running \in U
        BY <2>3, <3>1 DEF Users, Free, Members, sys_exit, Syscall
      <4>3. fault' = "none" /\ Free(running', status') = Free(running, status) \cup {running}
        BY <2>2, <3>1, <3>2, ExitKeeps
      <4>4. Users(running', status') = U \ {running}
        BY <4>3 DEF Users
      <4> HIDE DEF U
      <4>5. Allotted(phys_mem', pagusr_table', U \ {running})
        BY <2>2, <4>1, <4>2, ExitReleases
      <4> QED
        BY <2>4, <4>3, <4>4, <4>5
    <3>3. CASE ~ list_empty(lists, kids(running))
      BY <2>2, <2>5, <2>10, <3>1, <3>3, ExitKeeps DEF ExitMemory
    <3> QED
      BY <3>2, <3>3
  <2>11. CASE ForkMemory
    <3>1. PICK result \in {"none", "no_frame"} : sys_fork(result)
      BY <2>11 DEF ForkMemory
    <3>2. FreeTask \in Free(running, status)
      BY <2>2, <3>1, ForkKeeps
    <3>3. FreeTask \in Task \ U /\ FreeTask # idle_task /\ idle_task \notin U
      BY <3>2 DEF Free, Members, Users
    <3> HIDE DEF U
    <3>4. alloc_frames # {}
      BY <2>2, <3>3, EnoughLeft
    <3>5. PICK a \in alloc_frames :
            /\ sys_fork("none")
            /\ fault' = "none" => /\ phys_mem' = phys_mem \cup {a[p] : p \in DataPages}
                                  /\ pagusr_table' = [pagusr_table EXCEPT ![FreeTask] =
                                                       [p \in Page |-> ChildEntry(a, p)]]
      BY <2>11, <3>4 DEF ForkMemory
    <3>6. fault' = "none" /\ Free(running', status') = Free(running, status) \ {FreeTask}
      BY <2>2, <3>5, ForkKeeps
    <3>7. Users(running', status') = U \cup {FreeTask}
      BY <3>2, <3>3, <3>6 DEF Users, U
    <3>8. Allotted(phys_mem', pagusr_table', U \cup {FreeTask})
      BY <2>2, <2>3, <3>3, <3>5, <3>6, ForkAllots
    <3> QED
      BY <2>4, <3>6, <3>7, <3>8
  <2> QED
    BY <1>4, <2>7, <2>8, <2>9, <2>10, <2>11 DEF MemNext
<1> QED
  BY <1>2, <1>3, <1>4

(* So that it always holds.                                                *)
LEMMA MemoryInductive == MemSpec => []MemoryInv
<1> QED
  BY MemoryInit, MemoryStep, PTL DEF MemSpec

(* No two processes of the earlier kernel share a frame of data, and none  *)
(* uses a frame that is not marked, for every size of the memory and of    *)
(* the programs.                                                           *)
THEOREM DataIsNotShared == MemSpec => []DataNotShared
<1>1. MemoryInv => DataNotShared
  BY DEF MemoryInv
<1> QED
  BY <1>1, MemoryInductive, PTL

(* sys_fork, which does not notice that alloc_frame fails, always finds    *)
(* its frames, if there are as many as all processes together can need.    *)
THEOREM FramesAlwaysSuffice == MemSpec => []FramesSuffice
<1>1. MemoryInv => FramesSuffice
  BY DEF MemoryInv
<1> QED
  BY <1>1, MemoryInductive, PTL

-----------------------------------------------------------------------------
(* The program.                                                            *)

Labels == {"none", "fork", "fork2", "turns", "unblock", "block", "exit", "ended"}

(* The inductive invariant.  Who is to fork, to block or to exit has no    *)
(* children yet, the forks happen one after the other, and the caller of   *)
(* unblock has the grandchild as its first child.                          *)
ProgramInv ==
  /\ fault = "none" /\ ~ tangled /\ Scheduled(lists, running, status)
  /\ pc \in [Task -> Labels]
  /\ PID \in [Task -> Nat] /\ DOMAIN dad = Task
  /\ \A t \in Task : pc[t] \notin {"none", "ended"} => t \notin Free(running, status)
  /\ \A t \in Task : pc[t] \in {"fork", "fork2", "block", "exit"} => list_empty(lists, kids(t))
  /\ \A t \in Task : pc[t] = "fork" =>
       sumPID = 2 /\ \A u \in Task \ {t} : pc[u] = "none"
  /\ \A t \in Task : pc[t] = "fork2" =>
       sumPID = 3 /\ \A u \in Task \ {t} : pc[u] \in {"none", "turns"}
  /\ \A t \in Task : pc[t] = "unblock" =>
       LET g == lists.next[kids(t)] IN g \in Task /\ PID[g] = rfork2 /\ dad[g] = t

(* A walk that finds what it looks for at once.                            *)
LEMMA SearchFirst ==
  ASSUME lists \in Pointers, running \in Task, NEW pid,
         lists.next[kids(running)] \in Task, PID[lists.next[kids(running)]] = pid
  PROVE  Search(pid) = {lists.next[kids(running)]}
<1> DEFINE pos == list_for_each(lists, kids(running))
           N == Cardinality(Cells)
           stops == {n \in DOMAIN pos : \/ pos[n] \in {kids(running), NULL}
                                        \/ pos[n] \in Task /\ PID[pos[n]] = pid}
           first == {m \in stops : \A k \in stops : m <= k}
<1>1. Search(pid) = {pos[n] : n \in first}
  BY DEF Search
<1>2. kids(running) \in Cells /\ N \in Nat
  BY Apart, CellsFinite
<1>3. pos[0] = lists.next[kids(running)] /\ DOMAIN pos = 0 .. N
  BY <1>2, WalkSteps DEF Walks
<1> HIDE DEF pos, N
<1>4. 0 \in stops /\ \A k \in stops : k \in Nat /\ 0 <= k
  BY <1>2, <1>3
<1> HIDE DEF stops
<1>5. first = {0}
  BY <1>4
<1> HIDE DEF first
<1> QED
  BY <1>1, <1>3, <1>5

(* It holds at the start.                                                  *)
LEMMA ProgramInit == ProgInit => ProgramInv
<1> SUFFICES ASSUME ProgInit PROVE ProgramInv
  OBVIOUS
<1>1. /\ Init /\ fault = "none" /\ ~ tangled /\ sumPID = 2
      /\ pc = [t \in Task |-> IF t = task_1 THEN "fork" ELSE "none"]
      /\ PID \in [Task -> Nat] /\ DOMAIN dad = Task
  BY DEF ProgInit, Init
<1>2. /\ Scheduled(lists, running, status) /\ Free(running, status) = Task \ {idle_task, task_1}
      /\ list_empty(lists, kids(task_1))
  BY <1>1, InitScheduled
<1>3. pc \in [Task -> Labels] /\ \A t \in Task : pc[t] = IF t = task_1 THEN "fork" ELSE "none"
  BY <1>1 DEF Labels
<1> QED
  BY <1>1, <1>2, <1>3 DEF ProgramInv

(* The queue operations do not disturb the lists of kids.                  *)
LEMMA SameProgram ==
  ASSUME ProgramInv, fault' = "none", UNCHANGED << PID, dad, sumPID, tangled >>,
         Scheduled(lists', running', status'), SameKids(lists, lists'),
         pc' \in [Task -> Labels],
         \A t \in Task : pc'[t] # pc[t] => pc[t] \in {"block", "exit"} /\ pc'[t] \in {"exit", "ended"},
         \A t \in Task : pc'[t] \notin {"none", "ended"} => t \notin Free(running', status')
  PROVE  ProgramInv'
<1>1. \A t \in Task : lists'.next[kids(t)] = lists.next[kids(t)]
  BY DEF SameKids
<1>2. ASSUME NEW t \in Task, pc'[t] \in {"fork", "fork2", "block", "exit"}
      PROVE  list_empty(lists', kids(t))
  <2>1. pc[t] \in {"fork", "fork2", "block", "exit"}
    BY <1>2
  <2> QED
    BY <1>1, <2>1 DEF ProgramInv, list_empty
<1>3. ASSUME NEW t \in Task, pc'[t] = "fork"
      PROVE  sumPID' = 2 /\ \A u \in Task \ {t} : pc'[u] = "none"
  <2>1. pc[t] = "fork"
    BY <1>3
  <2>2. sumPID = 2 /\ \A u \in Task \ {t} : pc[u] = "none"
    BY <2>1 DEF ProgramInv
  <2> QED
    BY <2>2
<1>4. ASSUME NEW t \in Task, pc'[t] = "fork2"
      PROVE  sumPID' = 3 /\ \A u \in Task \ {t} : pc'[u] \in {"none", "turns"}
  <2>1. pc[t] = "fork2"
    BY <1>4
  <2>2. sumPID = 3 /\ \A u \in Task \ {t} : pc[u] \in {"none", "turns"}
    BY <2>1 DEF ProgramInv
  <2>3. \A u \in Task \ {t} : pc'[u] = pc[u]
    BY <2>2
  <2> QED
    BY <2>2, <2>3
<1>5. ASSUME NEW t \in Task, pc'[t] = "unblock"
      PROVE  LET g == lists'.next[kids(t)] IN g \in Task /\ PID'[g] = rfork2 /\ dad'[g] = t
  <2>1. pc[t] = "unblock"
    BY <1>5
  <2> QED
    BY <1>1, <2>1 DEF ProgramInv
<1>6. PID' \in [Task -> Nat] /\ DOMAIN dad' = Task /\ ~ tangled'
  BY DEF ProgramInv
<1> QED
  BY <1>2, <1>3, <1>4, <1>5, <1>6 DEF ProgramInv, rfork2

(* A fork of the program gives a task without children its first one.      *)
LEMMA ProgramForks ==
  ASSUME ProgramInv, running \in Task, list_empty(lists, kids(running)), sys_fork("none")
  PROVE  /\ fault' = "none" /\ ~ tangled' /\ Scheduled(lists', running', status')
         /\ FreeTask \in Task \ {running} /\ FreeTask \in Free(running, status)
         /\ Free(running', status') = Free(running, status) \ {FreeTask}
         /\ running' = running
         /\ PID' = [PID EXCEPT ![FreeTask] = sumPID]
         /\ dad' = [dad EXCEPT ![FreeTask] = running]
         /\ sumPID' = sumPID + 1
         /\ list_empty(lists', kids(FreeTask)) /\ lists'.next[kids(running)] = FreeTask
         /\ \A u \in Task \ {running, FreeTask} : lists'.next[kids(u)] = lists.next[kids(u)]
<1>1. Scheduled(lists, running, status) /\ ~ tangled /\ Harmless
  BY DEF ProgramInv, Harmless
<1>2. /\ FreeTask \in Free(running, status)
      /\ fault' = "none" /\ running' = running /\ tangled' = (tangled \/ ~ Harmless)
      /\ Free(running', status') = Free(running, status) \ {FreeTask}
      /\ Scheduled(lists', running', status')
      /\ list_empty(lists', kids(FreeTask))
      /\ list_empty(lists, kids(running)) => lists'.next[kids(running)] = FreeTask
      /\ \A u \in Task \ {running, FreeTask} : lists'.next[kids(u)] = lists.next[kids(u)]
  BY <1>1, ForkKeeps
<1>3. FreeTask \in Task \ {running}
  BY <1>2 DEF Free, Members
<1>4. /\ PID' = [PID EXCEPT ![FreeTask] = sumPID]
      /\ dad' = [dad EXCEPT ![FreeTask] = running]
      /\ sumPID' = sumPID + 1
  BY <1>2 DEF sys_fork, Stop
<1>5. ~ tangled'
  BY <1>1, <1>2, Zenon
<1> QED
  BY <1>2, <1>3, <1>4, <1>5

(* Every step of the program keeps the invariant.                          *)
LEMMA ProgramStep == ProgramInv /\ [ProgNext]_progVars => ProgramInv'
<1> SUFFICES ASSUME ProgramInv, [ProgNext]_progVars PROVE ProgramInv'
  OBVIOUS
<1>0. /\ Scheduled(lists, running, status) /\ fault = "none" /\ ~ tangled
      /\ pc \in [Task -> Labels] /\ running \in Task /\ lists \in Pointers
      /\ PID \in [Task -> Nat] /\ DOMAIN dad = Task
      /\ \A t \in Task : pc[t] \notin {"none", "ended"} => t \notin Free(running, status)
  BY DEF ProgramInv, Scheduled, Placed
<1>1. ASSUME fault' = "none", UNCHANGED << PID, dad, sumPID, tangled, pc >>,
             Scheduled(lists', running', status'), SameKids(lists, lists'),
             Free(running', status') = Free(running, status)
      PROVE  ProgramInv'
  BY <1>0, <1>1, SameProgram
<1>2. CASE UNCHANGED progVars
  <2>1. UNCHANGED << lists, running, status, PID, dad, sumPID, fault, tangled, pc >>
    BY <1>2 DEF progVars, vars, taskVars
  <2>2. SameKids(lists, lists') /\ Free(running', status') = Free(running, status)
        /\ Scheduled(lists', running', status')
    BY <1>0, <2>1 DEF SameKids
  <2> QED
    BY <1>0, <1>1, <2>1, <2>2
<1>3. CASE Tick
  <2>1. UNCHANGED << PID, dad, sumPID, tangled, pc >>
    BY <1>3 DEF Tick, Clock
  <2> QED
    BY <1>0, <1>1, <1>3, <2>1, ClockKeeps DEF Tick
<1>4. ASSUME NEW t \in Task, Unblock(t) PROVE ProgramInv'
  <2>1. running = t /\ pc[t] = "unblock" /\ sys_unblock(rfork2) /\ pc' = pc
    BY <1>4 DEF Unblock, At
  <2>2. lists.next[kids(running)] \in Task /\ PID[lists.next[kids(running)]] = rfork2
    BY <2>1 DEF ProgramInv
  <2>3. Search(rfork2) = {lists.next[kids(running)]}
    BY <1>0, <2>2, SearchFirst
  <2>4. Search(rfork2) \notin {{}, {NULL}}
    BY <2>2, <2>3, Apart
  <2>5. UNCHANGED << PID, dad, sumPID, tangled >>
    BY <2>1, <2>4 DEF sys_unblock, Stop, taskVars
  <2>6. /\ fault' = "none" /\ Scheduled(lists', running', status')
        /\ Free(running', status') = Free(running, status)
        /\ SameKids(lists, lists')
    BY <1>0, <2>1, <2>4, UnblockKeeps
  <2> QED
    BY <1>1, <2>1, <2>5, <2>6
<1>5. ASSUME NEW t \in Task, Block(t) PROVE ProgramInv'
  <2>1. running = t /\ pc[t] = "block" /\ sys_block /\ pc' = [pc EXCEPT ![t] = "exit"]
    BY <1>5 DEF Block, At
  <2>2. UNCHANGED << PID, dad, sumPID, tangled >>
    BY <2>1 DEF sys_block
  <2>3. /\ fault' = "none" /\ Scheduled(lists', running', status')
        /\ Free(running', status') = Free(running, status)
        /\ SameKids(lists, lists')
    BY <1>0, <2>1, BlockKeeps
  <2>4. /\ pc' \in [Task -> Labels]
        /\ pc'[t] = "exit" /\ \A u \in Task \ {t} : pc'[u] = pc[u]
    BY <1>0, <2>1 DEF Labels
  <2>5. \A u \in Task : pc'[u] # pc[u] => pc[u] \in {"block", "exit"} /\ pc'[u] \in {"exit", "ended"}
    BY <2>1, <2>4
  <2>6. \A u \in Task : pc'[u] \notin {"none", "ended"} => u \notin Free(running', status')
    BY <1>0, <2>1, <2>3, <2>4
  <2> QED
    BY <2>2, <2>3, <2>4, <2>5, <2>6, SameProgram
<1>6. ASSUME NEW t \in Task, Exit(t) PROVE ProgramInv'
  <2>1. running = t /\ pc[t] = "exit" /\ sys_exit /\ pc' = [pc EXCEPT ![t] = "ended"]
    BY <1>6 DEF Exit, At
  <2>2. list_empty(lists, kids(running))
    BY <2>1 DEF ProgramInv
  <2>3. UNCHANGED << PID, dad, sumPID, tangled >>
    BY <2>1, <2>2 DEF sys_exit
  <2>4. /\ fault' = "none" /\ Scheduled(lists', running', status')
        /\ Free(running', status') = Free(running, status) \cup {running}
        /\ SameKids(lists, lists')
    BY <1>0, <2>1, <2>2, ExitKeeps
  <2>5. /\ pc' \in [Task -> Labels]
        /\ pc'[t] = "ended" /\ \A u \in Task \ {t} : pc'[u] = pc[u]
    BY <1>0, <2>1 DEF Labels
  <2>6. \A u \in Task : pc'[u] # pc[u] => pc[u] \in {"block", "exit"} /\ pc'[u] \in {"exit", "ended"}
    BY <2>1, <2>5
  <2>7. \A u \in Task : pc'[u] \notin {"none", "ended"} => u \notin Free(running', status')
    BY <1>0, <2>1, <2>4, <2>5
  <2> QED
    BY <2>3, <2>4, <2>5, <2>6, <2>7, SameProgram
<1>7. ASSUME NEW t \in Task, NEW label \in {"fork", "fork2"}, running = t, pc[t] = label, sys_fork("none"),
             pc' = IF label = "fork" THEN [pc EXCEPT ![t] = "turns", ![FreeTask] = "fork2"]
                                     ELSE [pc EXCEPT ![t] = "unblock", ![FreeTask] = "block"]
      PROVE  ProgramInv'
  <2> DEFINE c == FreeTask
  <2>1. list_empty(lists, kids(running))
    BY <1>7 DEF ProgramInv
  <2>2. /\ fault' = "none" /\ ~ tangled' /\ Scheduled(lists', running', status')
        /\ c \in Task \ {running} /\ c \in Free(running, status)
        /\ Free(running', status') = Free(running, status) \ {c}
        /\ running' = running
        /\ PID' = [PID EXCEPT ![c] = sumPID]
        /\ dad' = [dad EXCEPT ![c] = running]
        /\ sumPID' = sumPID + 1
        /\ list_empty(lists', kids(c)) /\ lists'.next[kids(running)] = c
    BY <1>0, <1>7, <2>1, ProgramForks
  <2>3. /\ sumPID = (IF label = "fork" THEN 2 ELSE 3)
        /\ \A u \in Task \ {t} : IF label = "fork" THEN pc[u] = "none" ELSE pc[u] \in {"none", "turns"}
    BY <1>7 DEF ProgramInv
  <2> HIDE DEF c
  <2>4. /\ pc' \in [Task -> Labels]
        /\ pc'[t] = (IF label = "fork" THEN "turns" ELSE "unblock")
        /\ pc'[c] = (IF label = "fork" THEN "fork2" ELSE "block")
        /\ \A u \in Task \ {t, c} : pc'[u] = pc[u]
    BY <1>0, <1>7, <2>2 DEF Labels, c
  <2>5. PID' \in [Task -> Nat] /\ DOMAIN dad' = Task /\ PID'[c] = sumPID /\ dad'[c] = running
    BY <1>0, <2>2, <2>3
  <2>6. \A u \in Task : pc'[u] \notin {"none", "ended"} => u \notin Free(running', status')
    BY <1>0, <1>7, <2>2, <2>4
  <2>7. ASSUME NEW u \in Task, pc'[u] \in {"fork", "fork2", "block", "exit"} PROVE u = c
    BY <2>2, <2>3, <2>4, <2>7
  <2>8. \A u \in Task : pc'[u] = "fork" =>
          sumPID' = 2 /\ \A v \in Task \ {u} : pc'[v] = "none"
    BY <2>4, <2>7
  <2>9. ASSUME NEW u \in Task, pc'[u] = "fork2"
        PROVE  sumPID' = 3 /\ \A v \in Task \ {u} : pc'[v] \in {"none", "turns"}
    <3>1. u = c /\ label = "fork"
      BY <2>4, <2>7, <2>9
    <3> QED
      BY <2>2, <2>3, <2>4, <3>1
  <2>10. ASSUME NEW u \in Task, pc'[u] = "unblock"
         PROVE  lists'.next[kids(u)] = c /\ PID'[c] = rfork2 /\ dad'[c] = u
    <3>1. u = t /\ label = "fork2"
      BY <2>3, <2>4, <2>10
    <3> QED
      BY <1>7, <2>2, <2>3, <2>5, <3>1 DEF rfork2
  <2>11. \A u \in Task : pc'[u] \in {"fork", "fork2", "block", "exit"} => list_empty(lists', kids(u))
    BY <2>2, <2>7
  <2>12. \A u \in Task : pc'[u] = "unblock" =>
           LET g == lists'.next[kids(u)] IN g \in Task /\ PID'[g] = rfork2 /\ dad'[g] = u
    BY <2>2, <2>10
  <2> QED
    BY <2>2, <2>4, <2>5, <2>6, <2>8, <2>9, <2>11, <2>12 DEF ProgramInv, rfork2
<1>8. ASSUME NEW t \in Task, Fork(t) PROVE ProgramInv'
  BY <1>7, <1>8 DEF Fork, At
<1>9. ASSUME NEW t \in Task, Fork2(t) PROVE ProgramInv'
  BY <1>7, <1>9 DEF Fork2, At
<1> QED
  BY <1>2, <1>3, <1>4, <1>5, <1>6, <1>8, <1>9 DEF ProgNext, Step

(* The walk over the list of kids of the child always meets the grandchild *)
(* first, even when that sits in the ready queue, is blocked, runs or has  *)
(* exited, so that the program never stops the kernel.                     *)
THEOREM GrandchildIsFound == ProgSpec => []GrandchildFound
<1>1. ProgramInv => GrandchildFound
  <2> SUFFICES ASSUME ProgramInv, NEW t \in Task, At(t, "unblock"), NEW u \in Search(rfork2)
               PROVE  u \in Task /\ dad[u] = t
    BY DEF ProgramInv, GrandchildFound
  <2>1. running = t /\ pc[t] = "unblock" /\ lists \in Pointers
    BY DEF At, ProgramInv, Scheduled, Placed
  <2>2. LET g == lists.next[kids(t)] IN g \in Task /\ PID[g] = rfork2 /\ dad[g] = t
    BY <2>1 DEF ProgramInv
  <2>3. Search(rfork2) = {lists.next[kids(running)]}
    BY <2>1, <2>2, SearchFirst
  <2> QED
    BY <2>1, <2>2, <2>3
<1>2. ProgSpec => []ProgramInv
  BY ProgramInit, ProgramStep, PTL DEF ProgSpec
<1> QED
  BY <1>1, <1>2, PTL
=============================================================================
