-------------------------- MODULE ProcessesProofs --------------------------
(***************************************************************************)
(* Proofs that the queues, the task states, the saved contexts and the     *)
(* identifiers of module Processes stay consistent, for every number of    *)
(* tasks and semaphores, every quantum and every input of the calls, and   *)
(* that its semaphores do.                                                 *)
(*                                                                         *)
(* First comes what the list operations do to the sets of linked tasks,    *)
(* and that they keep every task linked at most once: the rest uses only   *)
(* these facts and never looks inside a list.                              *)
(***************************************************************************)
EXTENDS Processes, SequenceTheorems, TLAPS

-----------------------------------------------------------------------------
(* Lists.                                                                  *)

(* The family L of lists, one for each head in H, links every task of S in *)
(* one place at most.                                                      *)
Disciplined(L, H, S) ==
  /\ L \in [H -> Seq(S)]
  /\ \A h \in H : IsInjective(L[h])
  /\ \A g, h \in H : g # h => Members(L, g) \cap Members(L, h) = {}

(* A task at the end of a sequence: the step of list_add_tail.             *)
LEMMA AppendRange ==
  ASSUME NEW S, NEW s \in Seq(S), NEW x \in S
  PROVE  /\ Append(s, x) \in Seq(S)
         /\ Range(Append(s, x)) = Range(s) \cup {x}
         /\ IsInjective(s) /\ x \notin Range(s) => IsInjective(Append(s, x))
<1> DEFINE a == Append(s, x)
<1>1. /\ a \in Seq(S)
      /\ Len(a) = Len(s) + 1
      /\ \A i \in 1 .. Len(s) : a[i] = s[i]
      /\ a[Len(s) + 1] = x
  BY AppendProperties
<1>2. /\ Len(s) \in Nat
      /\ DOMAIN s = 1 .. Len(s)
      /\ DOMAIN a = 1 .. Len(s) + 1
  BY <1>1, LenProperties
<1> HIDE DEF a
<1>3. Range(a) = Range(s) \cup {x}
  BY <1>1, <1>2 DEF Range
<1>4. IsInjective(s) /\ x \notin Range(s) => IsInjective(a)
  BY <1>1, <1>2 DEF Range, IsInjective
<1>5. QED
  BY <1>1, <1>3, <1>4 DEF a

(* A task at the front of a sequence: the step of list_add.                *)
LEMMA ConsRange ==
  ASSUME NEW S, NEW s \in Seq(S), NEW x \in S
  PROVE  /\ << x >> \o s \in Seq(S)
         /\ Len(<< x >> \o s) = Len(s) + 1
         /\ Range(<< x >> \o s) = Range(s) \cup {x}
         /\ IsInjective(s) /\ x \notin Range(s) => IsInjective(<< x >> \o s)
<1> DEFINE a == << x >> \o s
<1>1. /\ << x >> \in Seq(S)
      /\ Len(<< x >>) = 1
      /\ << x >>[1] = x
  OBVIOUS
<1>2. /\ a \in Seq(S)
      /\ Len(a) = 1 + Len(s)
      /\ \A i \in 1 .. 1 + Len(s) : a[i] = IF i <= 1 THEN << x >>[i] ELSE s[i - 1]
  BY <1>1, ConcatProperties
<1>3. /\ Len(s) \in Nat
      /\ DOMAIN s = 1 .. Len(s)
      /\ DOMAIN a = 1 .. Len(s) + 1
  BY <1>2, LenProperties
<1>4. /\ a[1] = x
      /\ \A i \in 1 .. Len(s) : a[i + 1] = s[i]
      /\ \A i \in 1 .. Len(s) + 1 : i # 1 => i - 1 \in 1 .. Len(s) /\ a[i] = s[i - 1]
  BY <1>1, <1>2, <1>3
<1> HIDE DEF a
<1>5. Range(a) = Range(s) \cup {x}
  <2>1. ASSUME NEW y \in Range(a) PROVE y \in Range(s) \cup {x}
    BY <1>3, <1>4 DEF Range
  <2>2. ASSUME NEW y \in Range(s) PROVE y \in Range(a)
    <3>1. PICK i \in 1 .. Len(s) : y = s[i]
      BY <1>3, <2>2 DEF Range
    <3>2. i + 1 \in DOMAIN a /\ a[i + 1] = y
      BY <1>3, <1>4, <3>1
    <3>3. QED
      BY <3>2 DEF Range
  <2>3. x \in Range(a)
    BY <1>3, <1>4 DEF Range
  <2>4. QED
    BY <2>1, <2>2, <2>3
<1>6. ASSUME IsInjective(s), x \notin Range(s),
             NEW i \in DOMAIN a, NEW j \in DOMAIN a, a[i] = a[j]
      PROVE  i = j
  <2>1. \A k \in 1 .. Len(s) : s[k] \in Range(s)
    BY <1>3 DEF Range
  <2>2. CASE i # 1 /\ j # 1
    <3>1. i - 1 \in DOMAIN s /\ j - 1 \in DOMAIN s /\ s[i - 1] = s[j - 1]
      BY <1>3, <1>4, <1>6, <2>2
    <3>2. i - 1 = j - 1
      BY <1>6, <3>1 DEF IsInjective
    <3>3. QED
      BY <1>3, <3>2
  <2>3. CASE i = 1 \/ j = 1
    BY <1>3, <1>4, <1>6, <2>1, <2>3
  <2>4. QED
    BY <2>2, <2>3
<1>7. QED
  BY <1>2, <1>3, <1>5, <1>6 DEF a, IsInjective

(* The first task leaves a sequence: the step of list_del_first.           *)
LEMMA TailRange ==
  ASSUME NEW S, NEW s \in Seq(S), s # << >>, IsInjective(s)
  PROVE  /\ Tail(s) \in Seq(S)
         /\ Len(Tail(s)) = Len(s) - 1
         /\ s[1] \in Range(s)
         /\ s[1] \in S
         /\ Range(Tail(s)) = Range(s) \ {s[1]}
         /\ IsInjective(Tail(s))
<1> DEFINE a == Tail(s)
<1>1. /\ a \in Seq(S)
      /\ Len(a) = Len(s) - 1
      /\ \A i \in 1 .. Len(a) : a[i] = s[i + 1]
  BY HeadTailProperties
<1>2. /\ Len(s) \in Nat \ {0}
      /\ DOMAIN s = 1 .. Len(s)
      /\ DOMAIN a = 1 .. Len(s) - 1
      /\ \A i \in 1 .. Len(s) : s[i] \in S
  BY <1>1, LenProperties, EmptySeq, ElementOfSeq
<1> HIDE DEF a
<1>3. s[1] \in Range(s)
  BY <1>2 DEF Range
<1>4. Range(a) = Range(s) \ {s[1]}
  <2>1. ASSUME NEW y \in Range(a) PROVE y \in Range(s) \ {s[1]}
    BY <1>1, <1>2 DEF Range, IsInjective
  <2>2. ASSUME NEW y \in Range(s), y # s[1] PROVE y \in Range(a)
    <3>1. PICK i \in 1 .. Len(s) : y = s[i]
      BY <1>2 DEF Range
    <3>2. i - 1 \in DOMAIN a /\ a[i - 1] = y
      BY <1>1, <1>2, <2>2, <3>1
    <3>3. QED
      BY <3>2 DEF Range
  <2>3. QED
    BY <2>1, <2>2
<1>5. IsInjective(a)
  BY <1>1, <1>2 DEF IsInjective
<1>6. QED
  BY <1>1, <1>2, <1>3, <1>4, <1>5 DEF a

(* One sequence behind another: the loop of sys_semDestroy.                *)
LEMMA ConcatRange ==
  ASSUME NEW S, NEW s \in Seq(S), NEW u \in Seq(S)
  PROVE  /\ s \o u \in Seq(S)
         /\ Range(s \o u) = Range(s) \cup Range(u)
         /\ IsInjective(s) /\ IsInjective(u) /\ Range(s) \cap Range(u) = {}
              => IsInjective(s \o u)
<1> DEFINE a == s \o u
<1>1. /\ a \in Seq(S)
      /\ Len(a) = Len(s) + Len(u)
      /\ \A i \in 1 .. Len(s) + Len(u) :
            a[i] = IF i <= Len(s) THEN s[i] ELSE u[i - Len(s)]
  BY ConcatProperties
<1>2. /\ Len(s) \in Nat
      /\ Len(u) \in Nat
      /\ DOMAIN s = 1 .. Len(s)
      /\ DOMAIN u = 1 .. Len(u)
      /\ DOMAIN a = 1 .. Len(s) + Len(u)
  BY <1>1, LenProperties
<1>3. Range(a) = Range(s) \cup Range(u)
  BY RangeConcatenation
<1> HIDE DEF a
<1>4. ASSUME IsInjective(s), IsInjective(u), Range(s) \cap Range(u) = {},
             NEW i \in DOMAIN a, NEW j \in DOMAIN a, a[i] = a[j]
      PROVE  i = j
  <2>1. \A k \in 1 .. Len(s) : s[k] \in Range(s)
    BY <1>2 DEF Range
  <2>2. \A k \in 1 .. Len(u) : u[k] \in Range(u)
    BY <1>2 DEF Range
  <2>3. CASE i <= Len(s) /\ j <= Len(s)
    BY <1>1, <1>2, <1>4, <2>3 DEF IsInjective
  <2>4. CASE ~(i <= Len(s)) /\ ~(j <= Len(s))
    <3>1. /\ i - Len(s) \in DOMAIN u
          /\ j - Len(s) \in DOMAIN u
          /\ u[i - Len(s)] = u[j - Len(s)]
      BY <1>1, <1>2, <1>4, <2>4
    <3>2. i - Len(s) = j - Len(s)
      BY <1>4, <3>1 DEF IsInjective
    <3>3. QED
      BY <1>2, <3>2
  <2>5. CASE i <= Len(s) /\ ~(j <= Len(s))
    <3>1. a[i] \in Range(s) /\ a[j] \in Range(u)
      BY <1>1, <1>2, <2>1, <2>2, <2>5, SMTT(20)
    <3>2. QED
      BY <1>4, <3>1
  <2>6. CASE ~(i <= Len(s)) /\ j <= Len(s)
    <3>1. a[j] \in Range(s) /\ a[i] \in Range(u)
      BY <1>1, <1>2, <2>1, <2>2, <2>6, SMTT(20)
    <3>2. QED
      BY <1>4, <3>1
  <2>7. QED
    BY <2>3, <2>4, <2>5, <2>6
<1>5. QED
  BY <1>1, <1>3, <1>4 DEF a, IsInjective

-----------------------------------------------------------------------------
(* list_add_tail links one more task, and only in the given list.          *)
THEOREM ListAddTail ==
  ASSUME NEW H, NEW S, NEW L, Disciplined(L, H, S),
         NEW h \in H, NEW t \in S, \A g \in H : t \notin Members(L, g)
  PROVE  /\ Disciplined(list_add_tail(L, t, h), H, S)
         /\ \A g \in H : g # h => list_add_tail(L, t, h)[g] = L[g]
         /\ \A g \in H : Members(list_add_tail(L, t, h), g) =
                           IF g = h THEN Members(L, g) \cup {t} ELSE Members(L, g)
<1> DEFINE M == list_add_tail(L, t, h)
<1>1. L[h] \in Seq(S) /\ IsInjective(L[h]) /\ t \notin Range(L[h])
  BY DEF Disciplined, Members
<1>2. /\ M[h] = Append(L[h], t)
      /\ \A g \in H : g # h => M[g] = L[g]
      /\ DOMAIN M = H
      /\ M = [g \in H |-> M[g]]
  BY DEF list_add_tail, Disciplined
<1>3. /\ M[h] \in Seq(S)
      /\ Range(M[h]) = Range(L[h]) \cup {t}
      /\ IsInjective(M[h])
  BY <1>1, <1>2, AppendRange
<1> HIDE DEF M
<1>4. M \in [H -> Seq(S)]
  BY <1>2, <1>3 DEF Disciplined
<1>5. \A g \in H : Members(M, g) = IF g = h THEN Members(L, g) \cup {t} ELSE Members(L, g)
  BY <1>2, <1>3 DEF Members
<1>6. \A g \in H : IsInjective(M[g])
  BY <1>2, <1>3 DEF Disciplined
<1>7. \A f, g \in H : f # g => Members(M, f) \cap Members(M, g) = {}
  BY <1>5 DEF Disciplined
<1>8. QED
  BY <1>2, <1>4, <1>5, <1>6, <1>7 DEF M, Disciplined

(* list_add does the same at the other end.                                *)
THEOREM ListAdd ==
  ASSUME NEW H, NEW S, NEW L, Disciplined(L, H, S),
         NEW h \in H, NEW t \in S, \A g \in H : t \notin Members(L, g)
  PROVE  /\ Disciplined(list_add(L, t, h), H, S)
         /\ \A g \in H : g # h => list_add(L, t, h)[g] = L[g]
         /\ Len(list_add(L, t, h)[h]) = Len(L[h]) + 1
         /\ \A g \in H : Members(list_add(L, t, h), g) =
                           IF g = h THEN Members(L, g) \cup {t} ELSE Members(L, g)
<1> DEFINE M == list_add(L, t, h)
<1>1. L[h] \in Seq(S) /\ IsInjective(L[h]) /\ t \notin Range(L[h])
  BY DEF Disciplined, Members
<1>2. /\ M[h] = << t >> \o L[h]
      /\ \A g \in H : g # h => M[g] = L[g]
      /\ DOMAIN M = H
      /\ M = [g \in H |-> M[g]]
  BY DEF list_add, Disciplined
<1>3. /\ M[h] \in Seq(S)
      /\ Len(M[h]) = Len(L[h]) + 1
      /\ Range(M[h]) = Range(L[h]) \cup {t}
      /\ IsInjective(M[h])
  BY <1>1, <1>2, ConsRange
<1> HIDE DEF M
<1>4. M \in [H -> Seq(S)]
  BY <1>2, <1>3 DEF Disciplined
<1>5. \A g \in H : Members(M, g) = IF g = h THEN Members(L, g) \cup {t} ELSE Members(L, g)
  BY <1>2, <1>3 DEF Members
<1>6. \A g \in H : IsInjective(M[g])
  BY <1>2, <1>3 DEF Disciplined
<1>7. \A f, g \in H : f # g => Members(M, f) \cap Members(M, g) = {}
  BY <1>5 DEF Disciplined
<1>8. QED
  BY <1>2, <1>3, <1>4, <1>5, <1>6, <1>7 DEF M, Disciplined

(* list_del of the first node unlinks that task and no other.              *)
THEOREM ListDelFirst ==
  ASSUME NEW H, NEW S, NEW L, Disciplined(L, H, S),
         NEW h \in H, ~ list_empty(L, h)
  PROVE  /\ Disciplined(list_del_first(L, h), H, S)
         /\ list_first(L, h) \in Members(L, h)
         /\ list_first(L, h) \in S
         /\ \A g \in H : list_first(L, h) \notin Members(list_del_first(L, h), g)
         /\ Len(list_del_first(L, h)[h]) = Len(L[h]) - 1
         /\ \A g \in H : g # h => list_del_first(L, h)[g] = L[g]
         /\ \A g \in H : Members(list_del_first(L, h), g) =
                           Members(L, g) \ {list_first(L, h)}
<1> DEFINE M == list_del_first(L, h)
<1>1. L[h] \in Seq(S) /\ IsInjective(L[h]) /\ L[h] # << >>
  BY DEF Disciplined, list_empty
<1>2. /\ M[h] = Tail(L[h])
      /\ \A g \in H : g # h => M[g] = L[g]
      /\ DOMAIN M = H
      /\ M = [g \in H |-> M[g]]
  BY DEF list_del_first, Disciplined
<1> DEFINE t == list_first(L, h)
<1>3. /\ M[h] \in Seq(S)
      /\ Len(M[h]) = Len(L[h]) - 1
      /\ t \in Range(L[h])
      /\ t \in S
      /\ Range(M[h]) = Range(L[h]) \ {t}
      /\ IsInjective(M[h])
  BY <1>1, <1>2, TailRange DEF list_first
<1> HIDE DEF M, t
<1>4. M \in [H -> Seq(S)]
  BY <1>2, <1>3 DEF Disciplined
<1>5. \A g \in H : g # h => t \notin Members(L, g)
  BY <1>3 DEF Disciplined, Members
<1>6. \A g \in H : Members(M, g) = Members(L, g) \ {t}
  <2> TAKE g \in H
  <2>1. CASE g = h
    BY <1>3, <2>1 DEF Members
  <2>2. CASE g # h
    BY <1>2, <1>5, <2>2 DEF Members
  <2>3. QED
    BY <2>1, <2>2
<1>7. \A g \in H : IsInjective(M[g])
  BY <1>2, <1>3 DEF Disciplined
<1>8. \A f, g \in H : f # g => Members(M, f) \cap Members(M, g) = {}
  BY <1>6 DEF Disciplined
<1>9. t \in Members(L, h)
  BY <1>3 DEF Members
<1>10. Disciplined(M, H, S)
  BY <1>4, <1>7, <1>8 DEF Disciplined
<1>11. \A g \in H : t \notin Members(M, g)
  BY <1>6
<1>12. QED
  BY <1>2, <1>3, <1>6, <1>9, <1>10, <1>11 DEF M, t

(* INIT_LIST_HEAD empties the given lists and leaves the others alone.     *)
THEOREM InitListHead ==
  ASSUME NEW H, NEW S, NEW L, Disciplined(L, H, S), NEW K
  PROVE  /\ Disciplined(INIT_LIST_HEAD(L, K), H, S)
         /\ \A g \in H : INIT_LIST_HEAD(L, K)[g] = IF g \in K THEN << >> ELSE L[g]
         /\ \A g \in H : Members(INIT_LIST_HEAD(L, K), g) =
                           IF g \in K THEN {} ELSE Members(L, g)
<1> DEFINE M == INIT_LIST_HEAD(L, K)
<1>1. /\ \A g \in H : M[g] = IF g \in K THEN << >> ELSE L[g]
      /\ DOMAIN M = H
      /\ M = [g \in H |-> M[g]]
  BY DEF INIT_LIST_HEAD, Disciplined
<1>2. << >> \in Seq(S) /\ Range(<< >>) = {} /\ IsInjective(<< >>)
  BY EmptySeq DEF Range, IsInjective
<1> HIDE DEF M
<1>3. M \in [H -> Seq(S)]
  BY <1>1, <1>2 DEF Disciplined
<1>4. \A g \in H : Members(M, g) = IF g \in K THEN {} ELSE Members(L, g)
  BY <1>1, <1>2 DEF Members
<1>5. \A g \in H : IsInjective(M[g])
  BY <1>1, <1>2 DEF Disciplined
<1>6. \A f, g \in H : f # g => Members(M, f) \cap Members(M, g) = {}
  BY <1>4 DEF Disciplined
<1>7. QED
  BY <1>1, <1>3, <1>4, <1>5, <1>6 DEF M, Disciplined

(* Moving a whole list behind another one links the same tasks, all of     *)
(* them now in the second list.                                            *)
THEOREM ListMoveAll ==
  ASSUME NEW H, NEW S, NEW L, Disciplined(L, H, S),
         NEW from \in H, NEW to \in H, from # to
  PROVE  /\ Disciplined(list_move_all(L, from, to), H, S)
         /\ list_move_all(L, from, to)[from] = << >>
         /\ \A g \in H : g \notin {from, to} => list_move_all(L, from, to)[g] = L[g]
         /\ \A g \in H : Members(list_move_all(L, from, to), g) =
               IF g = from THEN {}
               ELSE IF g = to THEN Members(L, to) \cup Members(L, from)
               ELSE Members(L, g)
<1> DEFINE M == list_move_all(L, from, to)
<1>1. /\ L[from] \in Seq(S) /\ IsInjective(L[from])
      /\ L[to] \in Seq(S) /\ IsInjective(L[to])
      /\ Range(L[to]) \cap Range(L[from]) = {}
  BY DEF Disciplined, Members
<1>2. /\ M[from] = << >>
      /\ M[to] = L[to] \o L[from]
      /\ \A g \in H : g \notin {from, to} => M[g] = L[g]
      /\ DOMAIN M = H
      /\ M = [g \in H |-> M[g]]
  BY DEF list_move_all, Disciplined
<1>3. /\ M[to] \in Seq(S)
      /\ Range(M[to]) = Range(L[to]) \cup Range(L[from])
      /\ IsInjective(M[to])
  BY <1>1, <1>2, ConcatRange
<1>4. << >> \in Seq(S) /\ Range(<< >>) = {} /\ IsInjective(<< >>)
  BY EmptySeq DEF Range, IsInjective
<1> HIDE DEF M
<1>5. M \in [H -> Seq(S)]
  BY <1>2, <1>3, <1>4 DEF Disciplined
<1>6. \A g \in H : Members(M, g) =
         IF g = from THEN {}
         ELSE IF g = to THEN Members(L, to) \cup Members(L, from)
         ELSE Members(L, g)
  BY <1>2, <1>3, <1>4 DEF Members
<1>7. \A g \in H : IsInjective(M[g])
  BY <1>2, <1>3, <1>4 DEF Disciplined
<1>8. \A f, g \in H : f # g => Members(M, f) \cap Members(M, g) = {}
  BY <1>6 DEF Disciplined
<1>9. QED
  BY <1>2, <1>5, <1>6, <1>7, <1>8 DEF M, Disciplined
-----------------------------------------------------------------------------
(* Nobody in the sequence q is overtaken on the way to p: who is behind    *)
(* another stays behind as long as the other is there.                     *)
InOrder(q, p) ==
  \A i, j \in DOMAIN q :
     i < j /\ q[i] \in Range(p)
       => \E k, m \in DOMAIN p : k < m /\ p[k] = q[i] /\ p[m] = q[j]

(* A list that stays as it is keeps its order.                             *)
LEMMA OrderSame ==
  ASSUME NEW S, NEW q \in Seq(S)
  PROVE  InOrder(q, q)
  BY DEF InOrder

(* list_add_tail and the loop of sys_semDestroy.                           *)
LEMMA OrderConcat ==
  ASSUME NEW S, NEW q \in Seq(S), NEW u \in Seq(S)
  PROVE  InOrder(q, q \o u)
<1>1. /\ Len(q) \in Nat /\ Len(u) \in Nat /\ DOMAIN q = 1 .. Len(q)
      /\ DOMAIN (q \o u) = 1 .. Len(q) + Len(u)
      /\ \A i \in 1 .. Len(q) : (q \o u)[i] = q[i]
  BY LenProperties, ConcatProperties
<1>2. \A i \in DOMAIN q : i \in DOMAIN (q \o u) /\ (q \o u)[i] = q[i]
  BY <1>1
<1>3. QED
  BY <1>2 DEF InOrder

(* list_add_tail keeps the order of those already in the list.             *)
LEMMA OrderAppend ==
  ASSUME NEW S, NEW q \in Seq(S), NEW x \in S
  PROVE  InOrder(q, Append(q, x))
<1>1. /\ Len(q) \in Nat /\ DOMAIN q = 1 .. Len(q)
      /\ DOMAIN Append(q, x) = 1 .. Len(q) + 1
      /\ \A i \in 1 .. Len(q) : Append(q, x)[i] = q[i]
  BY LenProperties, AppendProperties
<1>2. \A i \in DOMAIN q : i \in DOMAIN Append(q, x) /\ Append(q, x)[i] = q[i]
  BY <1>1
<1>3. QED
  BY <1>2 DEF InOrder

(* list_add.                                                               *)
LEMMA OrderCons ==
  ASSUME NEW S, NEW q \in Seq(S), NEW x \in S
  PROVE  InOrder(q, << x >> \o q)
<1> DEFINE p == << x >> \o q
<1>1. << x >> \in Seq(S) /\ Len(<< x >>) = 1
  OBVIOUS
<1>2. /\ p \in Seq(S)
      /\ Len(p) = 1 + Len(q)
      /\ \A i \in 1 .. 1 + Len(q) : p[i] = IF i <= 1 THEN << x >>[i] ELSE q[i - 1]
  BY <1>1, ConcatProperties
<1>3. Len(q) \in Nat /\ DOMAIN q = 1 .. Len(q) /\ DOMAIN p = 1 .. Len(q) + 1
  BY <1>2, LenProperties
<1>4. \A i \in DOMAIN q : i + 1 \in DOMAIN p /\ p[i + 1] = q[i]
  BY <1>2, <1>3
<1> HIDE DEF p
<1>5. SUFFICES ASSUME NEW i \in DOMAIN q, NEW j \in DOMAIN q, i < j
               PROVE  \E k, m \in DOMAIN p : k < m /\ p[k] = q[i] /\ p[m] = q[j]
  BY DEF InOrder, p
<1>6. i + 1 < j + 1
  BY <1>3, <1>5
<1>7. QED
  BY <1>4, <1>6

(* list_del_first.                                                         *)
LEMMA OrderTail ==
  ASSUME NEW S, NEW q \in Seq(S), q # << >>, IsInjective(q)
  PROVE  InOrder(q, Tail(q))
<1> DEFINE p == Tail(q)
<1>1. /\ p \in Seq(S)
      /\ Len(p) = Len(q) - 1
      /\ \A i \in 1 .. Len(p) : p[i] = q[i + 1]
  BY HeadTailProperties
<1>2. /\ Len(q) \in Nat /\ Len(q) >= 1
      /\ DOMAIN q = 1 .. Len(q) /\ DOMAIN p = 1 .. Len(q) - 1
  BY <1>1, LenProperties, EmptySeq
<1>3. q[1] \notin Range(p)
  BY TailRange
<1> HIDE DEF p
<1>4. SUFFICES ASSUME NEW i \in DOMAIN q, NEW j \in DOMAIN q, i < j, q[i] \in Range(p)
               PROVE  \E k, m \in DOMAIN p : k < m /\ p[k] = q[i] /\ p[m] = q[j]
  BY DEF InOrder, p
<1>5. i # 1
  BY <1>3, <1>4
<1>6. i - 1 \in DOMAIN p /\ j - 1 \in DOMAIN p /\ i - 1 < j - 1
  BY <1>2, <1>4, <1>5
<1>7. p[i - 1] = q[i] /\ p[j - 1] = q[j]
  BY <1>1, <1>2, <1>4, <1>6
<1>8. QED
  BY <1>6, <1>7

(* A task that goes to the end while the first one leaves.                 *)
LEMMA OrderRotate ==
  ASSUME NEW S, NEW q \in Seq(S), NEW x \in S, IsInjective(q), x \notin Range(q)
  PROVE  InOrder(q, Tail(Append(q, x)))
<1> DEFINE a == Append(q, x)
           p == Tail(a)
<1>1. /\ a \in Seq(S) /\ IsInjective(a)
      /\ Len(q) \in Nat /\ DOMAIN q = 1 .. Len(q) /\ DOMAIN a = 1 .. Len(q) + 1
      /\ \A i \in 1 .. Len(q) : a[i] = q[i]
      /\ a # << >>
  BY AppendRange, LenProperties, AppendProperties
<1> HIDE DEF a
<1>2. InOrder(a, p)
  BY <1>1, OrderTail
<1> HIDE DEF p
<1>3. \A i \in DOMAIN q : i \in DOMAIN a /\ a[i] = q[i]
  BY <1>1
<1>4. InOrder(q, p)
  BY <1>2, <1>3 DEF InOrder
<1>5. QED
  BY <1>4 DEF a, p

-----------------------------------------------------------------------------
(* The kernel.                                                             *)

(* The counters only grow, and no identifier is above them: this is why a  *)
(* new PID or TID is really new.                                           *)
IdsBelowGlobals ==
  /\ global_PID >= 0
  /\ \A t \in Task : PID[t] <= global_PID /\ TID[t] <= global_TID

(* The inductive invariant.                                                *)
Inv ==
  /\ TypeOK
  /\ ListDiscipline
  /\ StateMatchesQueue
  /\ IdleOnlyWhenNothingReady
  /\ UniqueIds
  /\ IdsBelowGlobals
  /\ ContextMatchesState
  /\ SlotsAccountedFor

(* The list heads are distinct, and tasks 0 and 1 exist.                   *)
LEMMA Heads ==
  /\ freequeue \in ListHead
  /\ readyqueue \in ListHead
  /\ freequeue # readyqueue
  /\ freequeue \notin SemIndex /\ readyqueue \notin SemIndex
  /\ \A i \in SemIndex : blocked(i) \in ListHead /\ blocked(i) # freequeue /\ blocked(i) # readyqueue
  /\ \A h \in ListHead : h \in SemIndex \/ h = freequeue \/ h = readyqueue
  /\ idle_task \in Task
  /\ init_task \in Task
  /\ idle_task # init_task
  BY NR_TASKS_Assumption, NUM_SEM_Assumption
  DEF freequeue, readyqueue, blocked, ListHead, SemIndex, Task, idle_task, init_task

(* A task is linked when it is a member of some list.                      *)
LEMMA LinkedMembers ==
  /\ \A t : t \in Linked <=> \E h \in ListHead : t \in Members(lists, h)
  /\ \A t : t \in Linked' <=> \E h \in ListHead : t \in Members(lists', h)
  BY Heads DEF Linked, Ready, Free, Blocked, blocked

(* ListDiscipline in the terms of Disciplined.                             *)
LEMMA DisciplineOfInv ==
  ASSUME Inv
  PROVE  /\ Disciplined(lists, ListHead, Task)
         /\ \A h \in ListHead : running \notin Members(lists, h)
         /\ \A h \in ListHead : idle_task \notin Members(lists, h)
<1>1. Disciplined(lists, ListHead, Task)
  BY DEF Inv, TypeOK, ListDiscipline, Disciplined
<1>2. running \notin Linked /\ idle_task \notin Linked
  BY DEF Inv, ListDiscipline, IdleOnlyWhenNothingReady
<1>3. QED
  BY <1>1, <1>2, LinkedMembers

(* The tasks in the lists are tasks.                                       *)
LEMMA MembersAreTasks ==
  ASSUME NEW L, Disciplined(L, ListHead, Task), NEW h \in ListHead
  PROVE  Members(L, h) \subseteq Task
<1>1. L[h] \in Seq(Task)
  BY DEF Disciplined
<1>2. QED
  BY <1>1, LenProperties, ElementOfSeq DEF Members, Range

(* An empty list has no members.                                           *)
LEMMA EmptyMembers ==
  ASSUME NEW L, Disciplined(L, ListHead, Task), NEW h \in ListHead
  PROVE  list_empty(L, h) <=> Members(L, h) = {}
<1>1. ASSUME list_empty(L, h) PROVE Members(L, h) = {}
  BY <1>1 DEF list_empty, Members, Range
<1>2. ASSUME ~ list_empty(L, h) PROVE Members(L, h) # {}
  BY <1>2, ListDelFirst
<1>3. QED
  BY <1>1, <1>2

(* What sched_next_rr does, in terms of members: the new task is the first *)
(* ready one, or idle_task, and it is taken out of the ready queue.        *)
LEMMA SchedNext ==
  ASSUME TypeOK,
         NEW L, Disciplined(L, ListHead, Task),
         \A h \in ListHead : idle_task \notin Members(L, h),
         NEW st \in [Task -> state_t], NEW path \in Context,
         sched_next_rr(L, st, path)
  PROVE  /\ Disciplined(lists', ListHead, Task)
         /\ running' \in Task
         /\ \A h \in ListHead : Members(lists', h) = Members(L, h) \ {running'}
         /\ \A h \in ListHead : h # readyqueue => lists'[h] = L[h]
         /\ \/ running' = idle_task /\ Members(L, readyqueue) = {}
            \/ running' \in Members(L, readyqueue)
         /\ running' = idle_task \/ running' = L[readyqueue][1]
         /\ state' = [st EXCEPT ![running'] = "ST_RUN"]
         /\ remaining_quantum' = DEFAULT_QUANTUM
         /\ register_esp' = [register_esp EXCEPT ![running] = path]
         /\ fault' \in {"none", "stale_esp"}
         /\ fault' = "stale_esp" => running' = running \/ register_esp[running'] = "zero"
<1>1. /\ remaining_quantum' = DEFAULT_QUANTUM
      /\ register_esp' = [register_esp EXCEPT ![running] = path]
      /\ fault' \in {"none", "stale_esp"}
      /\ fault' = "stale_esp" => running' = running \/ register_esp[running'] = "zero"
      /\ state' = [st EXCEPT ![running'] = "ST_RUN"]
  BY DEF sched_next_rr, task_switch, SwitchResults
<1>2. CASE list_empty(L, readyqueue)
  <2>1. lists' = L /\ running' = idle_task
    BY <1>2 DEF sched_next_rr, task_switch
  <2>2. Members(L, readyqueue) = {}
    BY <1>2, EmptyMembers, Heads
  <2>3. QED
    BY <1>1, <2>1, <2>2, Heads
<1>3. CASE ~ list_empty(L, readyqueue)
  <2>1. lists' = list_del_first(L, readyqueue) /\ running' = list_first(L, readyqueue)
    BY <1>3 DEF sched_next_rr, task_switch
  <2>2. running' = L[readyqueue][1]
    BY <2>1 DEF list_first
  <2>3. /\ Disciplined(lists', ListHead, Task)
        /\ running' \in Task
        /\ \A h \in ListHead : Members(lists', h) = Members(L, h) \ {running'}
        /\ \A h \in ListHead : h # readyqueue => lists'[h] = L[h]
        /\ running' \in Members(L, readyqueue)
    BY <1>3, <2>1, ListDelFirst, Heads
  <2>4. QED
    BY <1>1, <2>2, <2>3
<1>4. QED
  BY <1>2, <1>3

(* The task at the end of a list is the first only if it is alone.         *)
LEMMA FirstIsLast ==
  ASSUME NEW q \in Seq(Task), NEW t, t \notin Range(q), Append(q, t)[1] = t
  PROVE  q = << >>
<1> SUFFICES ASSUME q # << >> PROVE FALSE
  OBVIOUS
<1>1. Len(q) \in Nat /\ Len(q) >= 1
  BY EmptySeq, LenProperties
<1>2. Append(q, t)[1] = q[1]
  BY <1>1
<1>3. QED
  BY <1>1, <1>2, LenProperties DEF Range

(* A step in which the running task links itself in the list home and      *)
(* gives the processor away.  Only a yield may find no other ready task.   *)
LEMMA SwitchAway ==
  ASSUME Inv, fault = "none", running # idle_task,
         NEW home \in ListHead,
         NEW L, Disciplined(L, ListHead, Task),
         \A h \in ListHead : Members(L, h) =
            IF h = home THEN Members(lists, h) \cup {running} ELSE Members(lists, h),
         NEW st \in [Task -> state_t],
         \A t \in Task : t # running => st[t] = state[t],
         NEW path \in Context,
         home = readyqueue => st[running] = "ST_READY" /\ path \in {"clock", "yield"},
         home = readyqueue => /\ L[readyqueue] = Append(lists[readyqueue], running)
                              /\ path = "yield" \/ Ready # {},
         home \in SemIndex => st[running] = "ST_BLOCKED" /\ path = "sem",
         home = freequeue => st[running] = "ST_RUN",
         sched_next_rr(L, st, path),
         sem' \in [SemIndex -> sem_t],
         UNCHANGED << TID, global_PID, global_TID >>,
         \/ PID' = PID
         \/ home = freequeue /\ PID' = [PID EXCEPT ![running] = -1]
  PROVE  Inv'
<1> USE Heads
<1>1. /\ Disciplined(lists, ListHead, Task)
      /\ \A h \in ListHead : running \notin Members(lists, h)
      /\ \A h \in ListHead : idle_task \notin Members(lists, h)
      /\ running \in Task
      /\ TypeOK
  BY DisciplineOfInv DEF Inv, TypeOK
<1>2. \A h \in ListHead : idle_task \notin Members(L, h)
  BY <1>1
<1>3. /\ Disciplined(lists', ListHead, Task)
      /\ running' \in Task
      /\ \A h \in ListHead : Members(lists', h) = Members(L, h) \ {running'}
      /\ \/ running' = idle_task /\ Members(L, readyqueue) = {}
         \/ running' \in Members(L, readyqueue)
      /\ running' = idle_task \/ running' = L[readyqueue][1]
      /\ state' = [st EXCEPT ![running'] = "ST_RUN"]
      /\ remaining_quantum' = DEFAULT_QUANTUM
      /\ register_esp' = [register_esp EXCEPT ![running] = path]
      /\ fault' \in {"none", "stale_esp"}
      /\ fault' = "stale_esp" => running' = running \/ register_esp[running'] = "zero"
  BY <1>1, <1>2, SchedNext
<1>4. \A h \in ListHead : h # readyqueue => running' \notin Members(L, h)
  BY <1>2, <1>3 DEF Disciplined
<1>5. \A h \in ListHead : Members(L, h) \subseteq Task
  BY MembersAreTasks
<1>6. TypeOK'
  <2>1. lists' \in [ListHead -> Seq(Task)]
    BY <1>3 DEF Disciplined
  <2>2. state' \in [Task -> state_t]
    BY <1>3 DEF state_t
  <2>3. PID' \in [Task -> Int]
    BY <1>1 DEF TypeOK
  <2>4. remaining_quantum' \in 1 .. DEFAULT_QUANTUM
    BY <1>3, QuantumAssumption
  <2>5. fault' \in Fault
    BY <1>3 DEF Fault
  <2>6. register_esp' \in [Task -> Context]
    BY <1>1, <1>3 DEF TypeOK
  <2>7. QED
    BY <1>1, <1>3, <2>1, <2>2, <2>3, <2>4, <2>5, <2>6 DEF TypeOK
<1>7. ListDiscipline'
  BY <1>3 DEF ListDiscipline, Disciplined, Linked, Ready, Free, Blocked, blocked
<1>8. StateMatchesQueue'
  BY <1>1, <1>3, <1>4, <1>5 DEF StateMatchesQueue, Inv, Ready, Free, Blocked, blocked
<1>9. IdleOnlyWhenNothingReady'
  BY <1>2, <1>3 DEF IdleOnlyWhenNothingReady, Linked, Ready, Free, Blocked, blocked
<1>10. UniqueIds'
  <2>1. Free' = IF home = freequeue THEN Free \cup {running} ELSE Free
    <3>1. Members(lists', freequeue) = Members(L, freequeue)
      <4>1. running' \notin Members(L, freequeue)
        BY <1>4
      <4>2. Members(lists', freequeue) = Members(L, freequeue) \ {running'}
        BY <1>3
      <4>3. QED
        BY <4>1, <4>2
    <3>2. Members(L, freequeue) =
            IF home = freequeue THEN Members(lists, freequeue) \cup {running}
                                ELSE Members(lists, freequeue)
      OBVIOUS
    <3>3. QED
      BY <3>1, <3>2 DEF Free
  <2>2. ASSUME NEW t \in Task, t \notin Free'
        PROVE  t \notin Free /\ PID'[t] = PID[t] /\ TID'[t] = TID[t]
    BY <1>1, <2>1, <2>2 DEF TypeOK
  <2>3. UniqueIds
    BY DEF Inv
  <2>4. QED
    BY <2>2, <2>3 DEF UniqueIds
<1>11. IdsBelowGlobals'
  <2>1. IdsBelowGlobals /\ global_PID \in Int /\ PID \in [Task -> Int]
    BY <1>1 DEF Inv, TypeOK
  <2>2. \A t \in Task : PID'[t] = PID[t] \/ PID'[t] = -1
    BY <1>1, <2>1
  <2>3. QED
    BY <2>1, <2>2 DEF IdsBelowGlobals
<1>12. ContextMatchesState'
  <2>1. ContextMatchesState /\ register_esp \in [Task -> Context]
    BY DEF Inv, TypeOK
  <2>2. /\ \A t \in Ready' : register_esp'[t] \in {"fork", "thread", "clock", "yield", "sem"}
        /\ \A t \in Blocked' : register_esp'[t] = "sem"
        /\ running' # idle_task => register_esp'[idle_task] = "idle"
    BY <1>1, <1>3, <1>4, <1>5, <2>1 DEF ContextMatchesState, Ready, Blocked, blocked
  <2>3. ASSUME fault' = "stale_esp"
        PROVE  running' # idle_task /\ Ready' = {} /\ register_esp'[running'] = "yield"
    <3>1. running' = running
      <4>1. register_esp[idle_task] # "zero"
        BY <2>1 DEF ContextMatchesState
      <4>2. \A t \in Members(lists, readyqueue) : register_esp[t] # "zero"
        BY <2>1 DEF ContextMatchesState, Ready
      <4>3. QED
        BY <1>3, <2>3, <4>1, <4>2
    <3>2. home = readyqueue
      BY <1>1, <1>3, <3>1
    <3>3. lists[readyqueue] = << >>
      <4>1. Append(lists[readyqueue], running)[1] = running
        BY <1>3, <3>1, <3>2
      <4>2. lists[readyqueue] \in Seq(Task) /\ running \notin Range(lists[readyqueue])
        BY <1>1 DEF TypeOK, Members
      <4>3. QED
        BY <4>1, <4>2, FirstIsLast
    <3>4. Members(lists, readyqueue) = {}
      BY <1>1, <3>3, EmptyMembers DEF list_empty
    <3>5. Ready' = {} /\ path = "yield"
      BY <1>3, <3>1, <3>2, <3>4 DEF Ready
    <3>6. QED
      BY <1>1, <1>3, <2>1, <3>1, <3>5
  <2>4. QED
    BY <2>2, <2>3 DEF ContextMatchesState
<1>13. SlotsAccountedFor'
  <2> SUFFICES ASSUME NEW t \in Task, t # idle_task, t # running'
               PROVE  t \in Linked' \/ state'[t] = "ST_BLOCKED"
    BY DEF SlotsAccountedFor
  <2>1. CASE t = running
    BY <1>3, <2>1, LinkedMembers
  <2>2. CASE t # running /\ t \in Linked
    <3>1. PICK h \in ListHead : t \in Members(lists, h)
      BY <2>2, LinkedMembers
    <3>2. t \in Members(lists', h)
      BY <1>3, <3>1
    <3>3. QED
      BY <3>2, LinkedMembers
  <2>3. CASE t # running /\ t \notin Linked
    <3>1. state[t] = "ST_BLOCKED"
      BY <2>3 DEF Inv, SlotsAccountedFor
    <3>2. QED
      BY <1>3, <2>3, <3>1
  <2>4. QED
    BY <2>1, <2>2, <2>3
<1>14. QED
  BY <1>6, <1>7, <1>8, <1>9, <1>10, <1>11, <1>12, <1>13 DEF Inv

-----------------------------------------------------------------------------
(* Linking the running task in the ready queue is what clock_routine and   *)
(* sys_yield do before they switch.                                        *)
LEMMA ReadyListsMembers ==
  ASSUME Inv
  PROVE  /\ Disciplined(ReadyLists, ListHead, Task)
         /\ \A h \in ListHead : Members(ReadyLists, h) =
               IF h = readyqueue THEN Members(lists, h) \cup {running} ELSE Members(lists, h)
         /\ ReadyLists[readyqueue] = Append(lists[readyqueue], running)
         /\ ReadyStates \in [Task -> state_t]
         /\ ReadyStates[running] = "ST_READY"
         /\ \A t \in Task : t # running => ReadyStates[t] = state[t]
<1>1. ReadyLists = list_add_tail(lists, running, readyqueue)
  BY DEF ReadyLists, Inv, StateMatchesQueue
<1>2. /\ running \in Task
      /\ state \in [Task -> state_t]
      /\ lists \in [ListHead -> Seq(Task)]
  BY DEF Inv, TypeOK
<1>3. ReadyLists[readyqueue] = Append(lists[readyqueue], running)
  BY <1>1, <1>2, Heads DEF list_add_tail
<1>4. QED
  BY <1>1, <1>2, <1>3, DisciplineOfInv, ListAddTail, Heads DEF ReadyStates, state_t

(* A tick switches away from a task that runs, or only counts.             *)
LEMMA ClockInv ==
  ASSUME Inv, Clock
  PROVE  Inv'
<1>1. fault = "none" /\ UNCHANGED << idVars, sem >>
  BY DEF Clock
<1>2. CASE sched_next_rr(ReadyLists, ReadyStates, "clock") /\ ~ list_empty(lists, readyqueue)
  <2>1. running # idle_task
    BY <1>2, DisciplineOfInv, EmptyMembers, Heads DEF Inv, IdleOnlyWhenNothingReady, Ready
  <2>2. sem' \in [SemIndex -> sem_t]
    BY <1>1 DEF Inv, TypeOK
  <2>3. Ready # {}
    BY <1>2, DisciplineOfInv, EmptyMembers, Heads DEF Ready
  <2>4. QED
    BY <1>1, <1>2, <2>1, <2>2, <2>3, ReadyListsMembers, SwitchAway, Heads DEF Context, idVars
<1>3. CASE /\ remaining_quantum' = IF remaining_quantum - 1 = 0 THEN DEFAULT_QUANTUM
                                                               ELSE remaining_quantum - 1
           /\ UNCHANGED << lists, running, state, register_esp, fault >>
  <2>1. remaining_quantum' \in 1 .. DEFAULT_QUANTUM
    BY <1>3, QuantumAssumption DEF Inv, TypeOK
  <2>2. QED
    BY <1>1, <1>3, <2>1
    DEF Inv, TypeOK, ListDiscipline, StateMatchesQueue, IdleOnlyWhenNothingReady, UniqueIds,
        IdsBelowGlobals, ContextMatchesState, SlotsAccountedFor, Linked, Ready, Free, Blocked,
        idVars
<1>4. QED
  BY <1>2, <1>3 DEF Clock, needs_sched_rr, refill

(* yield puts the running task at the end and switches away.               *)
LEMMA YieldInv ==
  ASSUME Inv, sys_yield
  PROVE  Inv'
<1>1. /\ fault = "none"
      /\ running # idle_task
      /\ sched_next_rr(ReadyLists, ReadyStates, "yield")
      /\ UNCHANGED << idVars, sem >>
  BY DEF sys_yield, Syscall
<1>2. sem' \in [SemIndex -> sem_t]
  BY <1>1 DEF Inv, TypeOK
<1>3. QED
  BY <1>1, <1>2, ReadyListsMembers, SwitchAway, Heads DEF Context, idVars

(* A task that ends links itself in the free queue.                        *)
LEMMA ExitListsMembers ==
  ASSUME Inv
  PROVE  /\ Disciplined(ExitLists, ListHead, Task)
         /\ \A h \in ListHead : Members(ExitLists, h) =
               IF h = freequeue THEN Members(lists, h) \cup {running} ELSE Members(lists, h)
<1>1. running \in Task
  BY DEF Inv, TypeOK
<1>2. QED
  BY <1>1, DisciplineOfInv, ListAddTail, Heads DEF ExitLists

(* A task that ends goes to the free queue and switches away.              *)
LEMMA ExitInv ==
  ASSUME Inv, sys_exit \/ sys_threadExit
  PROVE  Inv'
<1>1. /\ fault = "none"
      /\ running # idle_task
      /\ sched_next_rr(ExitLists, state, "exit")
      /\ UNCHANGED << TID, global_PID, global_TID, sem >>
      /\ PID' = PID \/ PID' = [PID EXCEPT ![running] = -1]
  BY DEF sys_exit, sys_threadExit, Syscall, idVars
<1>2. /\ sem' \in [SemIndex -> sem_t]
      /\ state \in [Task -> state_t]
      /\ state[running] = "ST_RUN"
  BY <1>1 DEF Inv, TypeOK, StateMatchesQueue
<1>3. QED
  BY <1>1, <1>2, ExitListsMembers, SwitchAway, Heads DEF Context

-----------------------------------------------------------------------------
(* The task child has left the free queue for the list home, or for no     *)
(* list at all.  Threads may vanish from the queues of the semaphores.     *)
Placed(child, home) ==
  /\ Disciplined(lists', ListHead, Task)
  /\ \A h \in {freequeue, readyqueue} : Members(lists', h) =
        IF h = home THEN Members(lists, h) \cup {child} ELSE Members(lists, h) \ {child}
  /\ \A i \in SemIndex : Members(lists', blocked(i)) \subseteq Members(lists, blocked(i))

(* The task structure of child has been filled in.                         *)
Filled(child, s, c, p, q) ==
  /\ state' = [state EXCEPT ![child] = s]
  /\ register_esp' = [register_esp EXCEPT ![child] = c]
  /\ PID' = [PID EXCEPT ![child] = p]
  /\ TID' = [TID EXCEPT ![child] = q]

(* A step that takes the task child from the free queue, fills it in, and  *)
(* links it in home, or nowhere if the kernel crashes.                     *)
LEMMA CreateTask ==
  ASSUME Inv, fault = "none", running # idle_task,
         NEW child \in Members(lists, freequeue),
         NEW home, NEW s \in state_t, NEW c \in Context, NEW p \in Int, NEW q \in Int,
         Placed(child, home),
         Filled(child, s, c, p, q),
         s # "ST_BLOCKED",
         home = readyqueue => s = "ST_READY" /\ c \in {"fork", "thread"},
         home \in {freequeue, readyqueue} \/ fault' = "page_fault",
         fault' \in Fault, fault' # "stale_esp",
         sem' \in [SemIndex -> sem_t],
         UNCHANGED << running, remaining_quantum >>,
         global_PID' \in Int, global_PID <= global_PID', p <= global_PID',
         global_TID' \in Int, global_TID <= global_TID', q <= global_TID',
         home = freequeue \/ p > global_PID \/ q > global_TID \/ fault' = "page_fault"
  PROVE  Inv'
<1> USE Heads DEF Placed, Filled
<1>1. /\ Disciplined(lists, ListHead, Task)
      /\ \A h \in ListHead : running \notin Members(lists, h)
      /\ \A h \in ListHead : idle_task \notin Members(lists, h)
      /\ running \in Task
      /\ TypeOK
  BY DisciplineOfInv DEF Inv, TypeOK
<1>2. /\ child \in Task
      /\ child # running
      /\ child # idle_task
      /\ child \notin Members(lists, readyqueue)
      /\ \A i \in SemIndex : child \notin Members(lists, blocked(i))
  <2>1. child \in Task /\ child # running /\ child # idle_task
    BY <1>1, MembersAreTasks
  <2>2. \A h \in ListHead : h # freequeue => child \notin Members(lists, h)
    BY <1>1 DEF Disciplined
  <2>3. QED
    BY <2>1, <2>2
<1>3. \A h \in ListHead : Members(lists, h) \subseteq Task
  BY <1>1, MembersAreTasks
<1>4. TypeOK'
  <2>1. lists' \in [ListHead -> Seq(Task)]
    BY DEF Disciplined
  <2>2. state' \in [Task -> state_t] /\ register_esp' \in [Task -> Context]
    BY <1>1 DEF TypeOK
  <2>3. PID' \in [Task -> Int] /\ TID' \in [Task -> Int]
    BY <1>1 DEF TypeOK
  <2>4. QED
    BY <1>1, <2>1, <2>2, <2>3 DEF TypeOK
<1>5. \A h \in ListHead : running' \notin Members(lists', h) /\ idle_task \notin Members(lists', h)
  <2> SUFFICES ASSUME NEW h \in ListHead
               PROVE  running \notin Members(lists', h) /\ idle_task \notin Members(lists', h)
    OBVIOUS
  <2>1. CASE h \in {freequeue, readyqueue}
    BY <1>1, <1>2, <2>1
  <2>2. CASE h \in SemIndex
    BY <1>1, <2>2 DEF blocked
  <2>3. QED
    BY <2>1, <2>2
<1>6. ListDiscipline'
  BY <1>5 DEF ListDiscipline, Disciplined, Linked, Ready, Free, Blocked, blocked
<1>7. StateMatchesQueue'
  <2>1. StateMatchesQueue
    BY DEF Inv
  <2>2. /\ \A t \in Task : t # child => state'[t] = state[t]
        /\ state'[child] = s
    BY <1>1, <1>2 DEF TypeOK
  <2>3. state'[running'] = "ST_RUN"
    BY <1>1, <1>2, <2>1, <2>2 DEF StateMatchesQueue
  <2>4. \A t \in Free' : state'[t] # "ST_BLOCKED"
    BY <1>2, <1>3, <2>1, <2>2 DEF StateMatchesQueue, Free
  <2>5. \A t \in Ready' : state'[t] = "ST_READY"
    BY <1>2, <1>3, <2>1, <2>2 DEF StateMatchesQueue, Ready
  <2>6. \A t \in Blocked' : state'[t] = "ST_BLOCKED"
    BY <1>2, <1>3, <2>1, <2>2 DEF StateMatchesQueue, Blocked, blocked
  <2>7. QED
    BY <2>3, <2>4, <2>5, <2>6 DEF StateMatchesQueue
<1>8. IdleOnlyWhenNothingReady'
  <2>1. idle_task \notin Linked'
    BY <1>5, LinkedMembers
  <2>2. QED
    BY <2>1 DEF IdleOnlyWhenNothingReady
<1>9. UniqueIds'
  <2>1. UniqueIds /\ IdsBelowGlobals
    BY DEF Inv
  <2>2. Free' = IF home = freequeue THEN Free ELSE Free \ {child}
    BY DEF Free
  <2>3. \A t \in Task : t # child => PID'[t] = PID[t] /\ TID'[t] = TID[t]
    BY <1>1 DEF TypeOK
  <2>4. PID'[child] = p /\ TID'[child] = q
    BY <1>1, <1>2 DEF TypeOK
  <2>5. \A t \in Task : /\ PID[t] \in Int /\ PID[t] <= global_PID
                       /\ TID[t] \in Int /\ TID[t] <= global_TID
    BY <1>1, <2>1 DEF TypeOK, IdsBelowGlobals
  <2>6. global_PID \in Int /\ global_TID \in Int
    BY <1>1 DEF TypeOK
  <2>7. CASE home = freequeue
    <3>1. child \in Free'
      BY <2>2, <2>7 DEF Free
    <3>2. QED
      BY <2>1, <2>2, <2>3, <2>7, <3>1 DEF UniqueIds
  <2>8. CASE home # freequeue /\ fault' # "page_fault"
    <3>1. \A t \in Task : << PID[t], TID[t] >> # << p, q >>
      BY <2>5, <2>6, <2>8
    <3>2. QED
      BY <2>1, <2>2, <2>3, <2>4, <2>8, <3>1 DEF UniqueIds
  <2>9. CASE fault' = "page_fault"
    BY <2>9 DEF UniqueIds
  <2>10. QED
    BY <2>7, <2>8, <2>9
<1>10. IdsBelowGlobals'
  <2>1. IdsBelowGlobals
    BY DEF Inv
  <2>2. QED
    BY <1>1, <1>2, <2>1, SMTT(20) DEF IdsBelowGlobals, TypeOK
<1>11. ContextMatchesState'
  <2>1. ContextMatchesState
    BY DEF Inv
  <2>2. /\ register_esp \in [Task -> Context]
        /\ \A t \in Task : t # child => register_esp'[t] = register_esp[t]
        /\ register_esp'[child] = c
    BY <1>1, <1>2 DEF TypeOK
  <2>3. ASSUME NEW t \in Members(lists', readyqueue)
        PROVE  register_esp'[t] \in {"fork", "thread", "clock", "yield", "sem"}
    BY <1>2, <1>3, <2>1, <2>2 DEF ContextMatchesState, Ready
  <2>4. ASSUME NEW i \in SemIndex, NEW t \in Members(lists', blocked(i))
        PROVE  register_esp'[t] = "sem"
    <3>1. t \in Members(lists, blocked(i)) /\ t \in Task /\ t # child
      BY <1>2, <1>3
    <3>2. register_esp[t] = "sem"
      BY <2>1, <3>1 DEF ContextMatchesState, Blocked
    <3>3. QED
      BY <2>2, <3>1, <3>2
  <2>5. register_esp'[idle_task] = "idle"
    BY <1>2, <2>1, <2>2 DEF ContextMatchesState
  <2>6. QED
    BY <2>3, <2>4, <2>5 DEF ContextMatchesState, Ready, Blocked
<1>12. SlotsAccountedFor'
  <2> SUFFICES ASSUME NEW t \in Task, t # idle_task, t # running, fault' # "page_fault"
               PROVE  t \in Linked' \/ state'[t] = "ST_BLOCKED"
    BY DEF SlotsAccountedFor
  <2>1. CASE t = child
    BY <2>1, LinkedMembers
  <2>2. CASE t # child /\ t \in Members(lists, freequeue) \cup Members(lists, readyqueue)
    BY <2>2, LinkedMembers
  <2>3. CASE t # child /\ t \notin Members(lists, freequeue) \cup Members(lists, readyqueue)
    <3>1. state[t] = "ST_BLOCKED"
      BY <2>3
      DEF Inv, StateMatchesQueue, SlotsAccountedFor, Linked, Ready, Free, Blocked, blocked
    <3>2. QED
      BY <1>1, <2>3, <3>1 DEF TypeOK
  <2>4. QED
    BY <2>1, <2>2, <2>3
<1>13. QED
  BY <1>4, <1>6, <1>7, <1>8, <1>9, <1>10, <1>11, <1>12 DEF Inv

(* fork fills in a free structure, or puts it back, having emptied the     *)
(* queues of the semaphores.                                               *)
LEMMA ForkInv ==
  ASSUME Inv, NEW result \in ForkResults, sys_fork(result)
  PROVE  Inv'
<1> USE Heads
<1> DEFINE child == FreeTask
           L == list_del_first(lists, freequeue)
<1>1. /\ fault = "none" /\ running # idle_task
      /\ ~ list_empty(lists, freequeue)
      /\ sem' = [i \in SemIndex |-> NoSem]
      /\ TID' = [TID EXCEPT ![child] = TID[running]]
      /\ UNCHANGED << running, remaining_quantum, global_TID >>
      /\ fault' \in {"none", "page_fault"}
  BY DEF sys_fork, Syscall
<1>2. /\ Disciplined(lists, ListHead, Task)
      /\ TypeOK
      /\ IdsBelowGlobals
  BY DisciplineOfInv DEF Inv
<1>3. /\ Disciplined(L, ListHead, Task)
      /\ child \in Members(lists, freequeue)
      /\ child \in Task
      /\ \A h \in ListHead : Members(L, h) = Members(lists, h) \ {child}
  BY <1>1, <1>2, ListDelFirst DEF FreeTask
<1>4. /\ Disciplined(ForkLists, ListHead, Task)
      /\ \A h \in ListHead : Members(ForkLists, h) = IF h \in SemIndex THEN {} ELSE Members(L, h)
  BY <1>3, InitListHead DEF ForkLists
<1>5. \A h \in ListHead : child \notin Members(ForkLists, h)
  BY <1>3, <1>4
<1>6. ASSUME NEW home \in {freequeue, readyqueue}, lists' = list_add_tail(ForkLists, child, home)
      PROVE  Placed(child, home)
  <2>1. /\ Disciplined(lists', ListHead, Task)
        /\ \A h \in ListHead : Members(lists', h) =
              IF h = home THEN Members(ForkLists, h) \cup {child} ELSE Members(ForkLists, h)
    BY <1>3, <1>4, <1>5, <1>6, ListAddTail
  <2>2. QED
    BY <1>3, <1>4, <2>1 DEF blocked, Placed
<1>7. /\ sem' \in [SemIndex -> sem_t]
      /\ fault' \in Fault
      /\ global_PID \in Int /\ global_TID \in Int /\ running \in Task
      /\ PID[running] \in Int /\ PID[running] <= global_PID
      /\ TID[running] \in Int /\ TID[running] <= global_TID
      /\ state[running] \in state_t /\ state[running] = "ST_RUN"
      /\ register_esp[running] \in Context
  BY <1>1, <1>2 DEF TypeOK, IdsBelowGlobals, NoSem, sem_t, Inv, StateMatchesQueue, Fault
<1> HIDE DEF child, L
<1>8. CASE /\ lists' = list_add_tail(ForkLists, child, readyqueue)
           /\ state' = [state EXCEPT ![child] = "ST_READY"]
           /\ register_esp' = [register_esp EXCEPT ![child] = "fork"]
           /\ global_PID' = global_PID + 1
           /\ PID' = [PID EXCEPT ![child] = global_PID + 1]
  <2>1. /\ "ST_READY" \in state_t
        /\ "fork" \in Context
        /\ global_PID + 1 \in Int
        /\ global_PID <= global_PID'
        /\ global_PID + 1 > global_PID
    BY <1>7, <1>8 DEF state_t, Context
  <2>2. /\ Placed(child, readyqueue)
        /\ Filled(child, "ST_READY", "fork", global_PID + 1, TID[running])
    BY <1>1, <1>6, <1>8 DEF Filled
  <2>3. QED
    BY <1>1, <1>3, <1>7, <1>8, <2>1, <2>2, CreateTask
<1>9. CASE /\ lists' = list_add_tail(ForkLists, child, freequeue)
           /\ state' = [state EXCEPT ![child] = state[running]]
           /\ register_esp' = [register_esp EXCEPT ![child] = register_esp[running]]
           /\ global_PID' = global_PID
           /\ PID' = [PID EXCEPT ![child] = PID[running]]
  <2>1. /\ Placed(child, freequeue)
        /\ Filled(child, state[running], register_esp[running], PID[running], TID[running])
    BY <1>1, <1>6, <1>9 DEF Filled
  <2>2. QED
    BY <1>1, <1>3, <1>7, <1>9, <2>1, CreateTask
<1>10. CASE /\ lists' = ForkLists
            /\ fault' = "page_fault"
            /\ state' = [state EXCEPT ![child] = state[running]]
            /\ register_esp' = [register_esp EXCEPT ![child] = register_esp[running]]
            /\ global_PID' = global_PID
            /\ PID' = [PID EXCEPT ![child] = PID[running]]
  <2> DEFINE nowhere == -3
  <2>1. nowhere # freequeue /\ nowhere # readyqueue
    BY DEF freequeue, readyqueue
  <2> HIDE DEF nowhere
  <2>2. /\ Placed(child, nowhere)
        /\ Filled(child, state[running], register_esp[running], PID[running], TID[running])
    BY <1>1, <1>3, <1>4, <1>10, <2>1 DEF Placed, Filled, blocked
  <2>3. QED
    BY <1>1, <1>3, <1>7, <1>10, <2>1, <2>2, CreateTask
<1>11. QED
  BY <1>8, <1>9, <1>10 DEF sys_fork, child, ForkContext, NewPID

(* threadCreate fills in a free structure, or puts it back.                *)
LEMMA ThreadCreateInv ==
  ASSUME Inv, NEW result \in {"ok", "EAGAIN", "page_fault"}, sys_threadCreate(result)
  PROVE  Inv'
<1> USE Heads
<1> DEFINE child == FreeTask
           L == list_del_first(lists, freequeue)
<1>1. /\ fault = "none" /\ running # idle_task
      /\ ~ list_empty(lists, freequeue)
      /\ global_TID' = global_TID + 1
      /\ TID' = [TID EXCEPT ![child] = global_TID + 1]
      /\ PID' = [PID EXCEPT ![child] = PID[running]]
      /\ state' = [state EXCEPT ![child] = "ST_READY"]
      /\ UNCHANGED << running, remaining_quantum, global_PID, sem >>
  BY DEF sys_threadCreate, Syscall
<1>2. /\ Disciplined(lists, ListHead, Task)
      /\ TypeOK
      /\ IdsBelowGlobals
  BY DisciplineOfInv DEF Inv
<1>3. /\ Disciplined(L, ListHead, Task)
      /\ child \in Members(lists, freequeue)
      /\ child \in Task
      /\ \A h \in ListHead : Members(L, h) = Members(lists, h) \ {child}
  BY <1>1, <1>2, ListDelFirst DEF FreeTask
<1>4. ASSUME NEW home \in {freequeue, readyqueue}, lists' = list_add_tail(L, child, home)
      PROVE  Placed(child, home)
  <2>1. \A h \in ListHead : child \notin Members(L, h)
    BY <1>3
  <2>2. /\ Disciplined(lists', ListHead, Task)
        /\ \A h \in ListHead : Members(lists', h) =
              IF h = home THEN Members(L, h) \cup {child} ELSE Members(L, h)
    BY <1>3, <1>4, <2>1, ListAddTail
  <2>3. QED
    BY <1>3, <2>2 DEF Placed
<1>5. /\ sem' \in [SemIndex -> sem_t]
      /\ global_PID \in Int /\ global_TID \in Int /\ running \in Task
      /\ global_TID + 1 \in Int /\ global_TID + 1 > global_TID /\ global_TID <= global_TID'
      /\ PID[running] \in Int /\ PID[running] <= global_PID
      /\ register_esp[running] \in Context
      /\ "thread" \in Context
      /\ "ST_READY" \in state_t
      /\ "none" \in Fault /\ "page_fault" \in Fault
  BY <1>1, <1>2 DEF TypeOK, IdsBelowGlobals, Context, state_t, Fault
<1> HIDE DEF child, L
<1>6. CASE /\ lists' = list_add_tail(L, child, readyqueue)
           /\ register_esp' = [register_esp EXCEPT ![child] = "thread"]
           /\ fault' = "none"
  <2>1. /\ Placed(child, readyqueue)
        /\ Filled(child, "ST_READY", "thread", PID[running], global_TID + 1)
    BY <1>1, <1>4, <1>6 DEF Filled
  <2>2. QED
    BY <1>1, <1>3, <1>5, <1>6, <2>1, CreateTask
<1>7. CASE /\ lists' = list_add_tail(L, child, freequeue)
           /\ register_esp' = [register_esp EXCEPT ![child] = register_esp[running]]
           /\ fault' = "none"
  <2>1. /\ Placed(child, freequeue)
        /\ Filled(child, "ST_READY", register_esp[running], PID[running], global_TID + 1)
    BY <1>1, <1>4, <1>7 DEF Filled
  <2>2. QED
    BY <1>1, <1>3, <1>5, <1>7, <2>1, CreateTask
<1>8. CASE /\ lists' = L
           /\ register_esp' = [register_esp EXCEPT ![child] = register_esp[running]]
           /\ fault' = "page_fault"
  <2> DEFINE nowhere == -3
  <2>1. nowhere # freequeue /\ nowhere # readyqueue
    BY DEF freequeue, readyqueue
  <2> HIDE DEF nowhere
  <2>2. /\ Placed(child, nowhere)
        /\ Filled(child, "ST_READY", register_esp[running], PID[running], global_TID + 1)
    BY <1>1, <1>3, <1>8, <2>1 DEF Placed, Filled
  <2>3. QED
    BY <1>1, <1>3, <1>5, <1>8, <2>1, <2>2, CreateTask
<1>9. QED
  BY <1>6, <1>7, <1>8 DEF sys_threadCreate, child, L

-----------------------------------------------------------------------------
(* The blocked threads in W have been moved to the ready queue.  Others    *)
(* may vanish from the queues of the semaphores.                           *)
Woken(W) ==
  /\ Disciplined(lists', ListHead, Task)
  /\ Members(lists', freequeue) = Members(lists, freequeue)
  /\ Members(lists', readyqueue) = Members(lists, readyqueue) \cup W
  /\ \A i \in SemIndex : Members(lists', blocked(i)) \subseteq Members(lists, blocked(i)) \ W
  /\ state' = [t \in Task |-> IF t \in W THEN "ST_READY" ELSE state[t]]

(* A step that wakes threads and keeps the processor.                      *)
LEMMA WakeThreads ==
  ASSUME Inv, fault = "none", running # idle_task,
         NEW W \in SUBSET Blocked, Woken(W),
         fault' \in Fault, fault' # "stale_esp",
         sem' \in [SemIndex -> sem_t],
         UNCHANGED << running, register_esp, remaining_quantum, idVars >>
  PROVE  Inv'
<1> USE Heads DEF Woken, idVars
<1>1. /\ Disciplined(lists, ListHead, Task)
      /\ \A h \in ListHead : running \notin Members(lists, h)
      /\ \A h \in ListHead : idle_task \notin Members(lists, h)
      /\ running \in Task
      /\ TypeOK
  BY DisciplineOfInv DEF Inv, TypeOK
<1>2. \A h \in ListHead : Members(lists, h) \subseteq Task
  BY <1>1, MembersAreTasks
<1>3. /\ W \subseteq Task /\ running \notin W /\ idle_task \notin W
      /\ \A t \in W : state[t] = "ST_BLOCKED" /\ register_esp[t] = "sem"
  BY <1>1, <1>2 DEF Inv, StateMatchesQueue, ContextMatchesState, Blocked
<1>4. TypeOK'
  <2>1. lists' \in [ListHead -> Seq(Task)]
    BY DEF Disciplined
  <2>2. state' \in [Task -> state_t]
    BY <1>1 DEF TypeOK, state_t
  <2>3. QED
    BY <1>1, <2>1, <2>2 DEF TypeOK
<1>5. \A h \in ListHead : running' \notin Members(lists', h) /\ idle_task \notin Members(lists', h)
  <2> SUFFICES ASSUME NEW h \in ListHead
               PROVE  running \notin Members(lists', h) /\ idle_task \notin Members(lists', h)
    OBVIOUS
  <2>1. CASE h \in {freequeue, readyqueue}
    BY <1>1, <1>3, <2>1
  <2>2. CASE h \in SemIndex
    BY <1>1, <2>2 DEF blocked
  <2>3. QED
    BY <2>1, <2>2
<1>6. ListDiscipline'
  BY <1>5 DEF ListDiscipline, Disciplined, Linked, Ready, Free, Blocked, blocked
<1>7. StateMatchesQueue'
  <2>1. StateMatchesQueue
    BY DEF Inv
  <2>2. QED
    BY <1>1, <1>2, <1>3, <2>1 DEF StateMatchesQueue, Ready, Free, Blocked
<1>8. IdleOnlyWhenNothingReady'
  <2>1. idle_task \notin Linked'
    BY <1>5, LinkedMembers
  <2>2. QED
    BY <2>1 DEF IdleOnlyWhenNothingReady
<1>9. UniqueIds' /\ IdsBelowGlobals'
  BY DEF Inv, UniqueIds, IdsBelowGlobals, Free
<1>10. ContextMatchesState'
  <2>1. ContextMatchesState
    BY DEF Inv
  <2>2. QED
    BY <1>3, <2>1 DEF ContextMatchesState, Ready, Blocked
<1>11. SlotsAccountedFor'
  <2> SUFFICES ASSUME NEW t \in Task, t # idle_task, t # running
               PROVE  t \in Linked' \/ state'[t] = "ST_BLOCKED"
    BY DEF SlotsAccountedFor
  <2>1. CASE t \in W
    BY <2>1, LinkedMembers
  <2>2. CASE t \in Members(lists, freequeue) \cup Members(lists, readyqueue)
    BY <2>2, LinkedMembers
  <2>3. CASE t \notin W \cup Members(lists, freequeue) \cup Members(lists, readyqueue)
    <3>1. state[t] = "ST_BLOCKED"
      BY <2>3
      DEF Inv, StateMatchesQueue, SlotsAccountedFor, Linked, Ready, Free, Blocked
    <3>2. QED
      BY <2>3, <3>1
  <2>4. QED
    BY <2>1, <2>2, <2>3
<1>12. QED
  BY <1>4, <1>6, <1>7, <1>8, <1>9, <1>10, <1>11 DEF Inv

(* When lists and states stay the same nobody was woken.                   *)
LEMMA NobodyWoken ==
  ASSUME Inv, UNCHANGED << lists, state >>
  PROVE  Woken({})
<1>1. state \in [Task -> state_t] /\ Disciplined(lists, ListHead, Task)
  BY DisciplineOfInv DEF Inv, TypeOK
<1>2. state' = [t \in Task |-> IF t \in {} THEN "ST_READY" ELSE state[t]]
  BY <1>1
<1>3. QED
  BY <1>1, <1>2 DEF Woken

(* semCreate initializes the queue of a semaphore not in use.              *)
LEMMA SemCreateInv ==
  ASSUME Inv, NEW value \in SemValues, sys_semCreate(value)
  PROVE  Inv'
<1> USE Heads
<1>1. PICK i \in SemIndex :
        /\ sem' = [sem EXCEPT ![i] = [semid |-> i, count |-> value, PID |-> PID[running],
                                      value |-> value]]
        /\ lists' = INIT_LIST_HEAD(lists, {blocked(i)})
  BY DEF sys_semCreate
<1>2. /\ fault = "none" /\ running # idle_task
      /\ UNCHANGED << running, state, register_esp, remaining_quantum, idVars, fault >>
  BY DEF sys_semCreate, Syscall
<1>3. TypeOK /\ Disciplined(lists, ListHead, Task)
  BY DisciplineOfInv DEF Inv
<1>4. sem' \in [SemIndex -> sem_t] /\ fault' \in Fault
  BY <1>1, <1>2, <1>3, InputAssumption DEF TypeOK, sem_t, SemIndex
<1>5. Woken({})
  <2>1. /\ Disciplined(lists', ListHead, Task)
        /\ \A g \in ListHead : Members(lists', g) =
              IF g \in {blocked(i)} THEN {} ELSE Members(lists, g)
    BY <1>1, <1>3, InitListHead
  <2>2. state' = [t \in Task |-> IF t \in {} THEN "ST_READY" ELSE state[t]]
    BY <1>2, <1>3 DEF TypeOK
  <2>3. QED
    BY <2>1, <2>2 DEF Woken
<1>6. QED
  BY <1>2, <1>4, <1>5, WakeThreads

(* The number beyond the array stops the kernel and changes nothing else.  *)
LEMMA UseBeyondArrayInv ==
  ASSUME Inv, NEW semID \in SemIds, UseBeyondArray(semID)
  PROVE  Inv'
<1>1. /\ fault = "none" /\ running # idle_task
      /\ fault' = "sem_index"
      /\ UNCHANGED << lists, state, running, register_esp, remaining_quantum, idVars, sem >>
  BY DEF UseBeyondArray, Syscall, schedVars
<1>2. sem' \in [SemIndex -> sem_t] /\ fault' \in Fault
  BY <1>1 DEF Inv, TypeOK, Fault
<1>3. QED
  BY <1>1, <1>2, NobodyWoken, WakeThreads

(* Raising or lowering one counter keeps the array well typed.             *)
LEMMA CountType ==
  ASSUME Inv, NEW semID \in SemIndex, NEW n \in {-1, 1},
         sem' = [sem EXCEPT ![semID].count = @ + n]
  PROVE  sem' \in [SemIndex -> sem_t]
<1>1. sem \in [SemIndex -> sem_t]
  BY DEF Inv, TypeOK
<1>2. QED
  BY <1>1 DEF sem_t

(* semWait takes a permit, or blocks the running task and switches away.   *)
LEMMA SemWaitInv ==
  ASSUME Inv, NEW semID \in SemIds, sys_semWait(semID)
  PROVE  Inv'
<1> USE Heads
<1>1. /\ fault = "none" /\ running # idle_task
      /\ semID \in SemIndex
      /\ UNCHANGED idVars
  BY DEF sys_semWait, Syscall, Usable
<1>2. sem' \in [SemIndex -> sem_t]
  <2>1. sem \in [SemIndex -> sem_t]
    BY DEF Inv, TypeOK
  <2>2. QED
    BY <1>1, <2>1 DEF sys_semWait, sem_t
<1>3. CASE sched_next_rr(BlockLists(semID), [state EXCEPT ![running] = "ST_BLOCKED"], "sem")
  <2> DEFINE L == list_add(lists, running, blocked(semID))
             st == [state EXCEPT ![running] = "ST_BLOCKED"]
  <2>1. running \in Task /\ state \in [Task -> state_t]
    BY DEF Inv, TypeOK
  <2>2. /\ Disciplined(L, ListHead, Task)
        /\ \A h \in ListHead : Members(L, h) =
              IF h = blocked(semID) THEN Members(lists, h) \cup {running} ELSE Members(lists, h)
    BY <1>1, <2>1, DisciplineOfInv, ListAdd
  <2>3. /\ st \in [Task -> state_t]
        /\ st[running] = "ST_BLOCKED"
        /\ \A t \in Task : t # running => st[t] = state[t]
    BY <2>1 DEF state_t
  <2>4. "sem" \in Context
    BY DEF Context
  <2> HIDE DEF L, st
  <2>5. sched_next_rr(L, st, "sem")
    BY <1>3 DEF L, st, BlockLists
  <2>6. QED
    BY <1>1, <1>2, <2>2, <2>3, <2>4, <2>5, SwitchAway DEF idVars
<1>4. CASE UNCHANGED << schedVars, fault >>
  <2>1. fault' \in Fault
    BY <1>4 DEF Inv, TypeOK
  <2>2. QED
    BY <1>1, <1>2, <1>4, <2>1, NobodyWoken, WakeThreads DEF schedVars
<1>5. QED
  BY <1>3, <1>4 DEF sys_semWait

(* semSignal adds a permit, or wakes the first thread of the queue.        *)
LEMMA SemSignalInv ==
  ASSUME Inv, NEW semID \in SemIds, sys_semSignal(semID)
  PROVE  Inv'
<1> USE Heads
<1>1. /\ fault = "none" /\ running # idle_task
      /\ semID \in SemIndex
      /\ UNCHANGED << running, register_esp, remaining_quantum, idVars >>
  BY DEF sys_semSignal, Syscall, Usable
<1>2. sem' \in [SemIndex -> sem_t]
  <2>1. sem \in [SemIndex -> sem_t]
    BY DEF Inv, TypeOK
  <2>2. QED
    BY <1>1, <2>1 DEF sys_semSignal, sem_t
<1>3. "none" \in Fault /\ "empty_wakeup" \in Fault
  BY DEF Fault
<1> DEFINE l == list_first(lists, blocked(semID))
           L == list_del_first(lists, blocked(semID))
<1>4. CASE /\ ~ list_empty(lists, blocked(semID))
           /\ lists' = list_add(L, l, readyqueue)
           /\ state' = [state EXCEPT ![l] = "ST_READY"]
           /\ fault' = "none"
  <2>1. Disciplined(lists, ListHead, Task) /\ state \in [Task -> state_t]
    BY DisciplineOfInv DEF Inv, TypeOK
  <2>2. /\ Disciplined(L, ListHead, Task)
        /\ l \in Members(lists, blocked(semID))
        /\ l \in Task
        /\ \A h \in ListHead : l \notin Members(L, h)
        /\ \A h \in ListHead : Members(L, h) = Members(lists, h) \ {l}
    BY <1>1, <1>4, <2>1, ListDelFirst
  <2> HIDE DEF l, L
  <2>3. /\ Disciplined(lists', ListHead, Task)
        /\ \A h \in ListHead : Members(lists', h) =
              IF h = readyqueue THEN Members(L, h) \cup {l} ELSE Members(L, h)
    BY <1>4, <2>2, ListAdd
  <2>4. l \notin Members(lists, freequeue) /\ l \notin Members(lists, readyqueue)
    BY <1>1, <2>1, <2>2 DEF Disciplined
  <2>5. state' = [t \in Task |-> IF t \in {l} THEN "ST_READY" ELSE state[t]]
    BY <1>4, <2>1, <2>2
  <2>6. Woken({l})
    <3>1. /\ Members(lists', freequeue) = Members(lists, freequeue)
          /\ Members(lists', readyqueue) = Members(lists, readyqueue) \cup {l}
      <4>1. /\ Members(lists', freequeue) = Members(lists, freequeue) \ {l}
            /\ Members(lists', readyqueue) = (Members(lists, readyqueue) \ {l}) \cup {l}
        BY <2>2, <2>3
      <4>2. QED
        BY <2>4, <4>1
    <3>2. \A i \in SemIndex : Members(lists', blocked(i)) = Members(lists, blocked(i)) \ {l}
      BY <2>2, <2>3
    <3>3. QED
      BY <2>3, <2>5, <3>1, <3>2 DEF Woken
  <2>7. {l} \in SUBSET Blocked
    BY <1>1, <2>2 DEF Blocked
  <2>8. QED
    BY <1>1, <1>2, <1>3, <1>4, <2>6, <2>7, WakeThreads
<1>5. CASE UNCHANGED << lists, state >> /\ fault' \in {"none", "empty_wakeup"}
  BY <1>1, <1>2, <1>3, <1>5, NobodyWoken, WakeThreads
<1>6. QED
  BY <1>1, <1>4, <1>5 DEF sys_semSignal

(* semDestroy moves the blocked threads to the ready queue.                *)
LEMMA SemDestroyInv ==
  ASSUME Inv, NEW semID \in SemIds, sys_semDestroy(semID)
  PROVE  Inv'
<1> USE Heads
<1>1. /\ fault = "none" /\ running # idle_task
      /\ semID \in SemIndex
      /\ lists' = list_move_all(lists, blocked(semID), readyqueue)
      /\ state' = [t \in Task |-> IF t \in Members(lists, blocked(semID)) THEN "ST_READY"
                                                                          ELSE state[t]]
      /\ UNCHANGED << running, register_esp, remaining_quantum, idVars, fault >>
  BY DEF sys_semDestroy, Syscall, Usable
<1>2. sem' \in [SemIndex -> sem_t] /\ fault' \in Fault
  <2>1. sem \in [SemIndex -> sem_t] /\ fault \in Fault
    BY DEF Inv, TypeOK
  <2>2. QED
    BY <1>1, <2>1 DEF sys_semDestroy, sem_t, NoSem
<1>3. Disciplined(lists, ListHead, Task)
  BY DisciplineOfInv
<1>4. /\ Disciplined(lists', ListHead, Task)
      /\ \A g \in ListHead : Members(lists', g) =
            IF g = blocked(semID) THEN {}
            ELSE IF g = readyqueue
                 THEN Members(lists, readyqueue) \cup Members(lists, blocked(semID))
            ELSE Members(lists, g)
  <2>1. /\ blocked(semID) \in ListHead
        /\ readyqueue \in ListHead
        /\ blocked(semID) # readyqueue
    BY <1>1
  <2> DEFINE M == list_move_all(lists, blocked(semID), readyqueue)
  <2>2. /\ Disciplined(M, ListHead, Task)
        /\ \A g \in ListHead : Members(M, g) =
              IF g = blocked(semID) THEN {}
              ELSE IF g = readyqueue
                   THEN Members(lists, readyqueue) \cup Members(lists, blocked(semID))
              ELSE Members(lists, g)
    BY ONLY <1>3, <2>1, ListMoveAll
  <2>3. QED
    BY <1>1, <2>2
<1>5. Woken(Members(lists, blocked(semID)))
  <2>1. \A i \in SemIndex : Members(lists', blocked(i)) \subseteq
           Members(lists, blocked(i)) \ Members(lists, blocked(semID))
    BY <1>1, <1>3, <1>4 DEF Disciplined, blocked
  <2>2. QED
    BY <1>1, <1>4, <2>1 DEF Woken
<1>6. Members(lists, blocked(semID)) \in SUBSET Blocked
  BY <1>1 DEF Blocked
<1>7. QED
  BY <1>1, <1>2, <1>5, <1>6, WakeThreads

-----------------------------------------------------------------------------
(* The state after init_sched, init_idle and init_task1 satisfies the      *)
(* invariant.                                                              *)
LEMMA InitInv ==
  ASSUME Init
  PROVE  Inv
<1> USE Heads
<1> DEFINE s == [i \in 1 .. NR_TASKS - 2 |-> i + 1]
<1>1. /\ s \in Seq(Task)
      /\ IsInjective(s)
      /\ Range(s) = 2 .. NR_TASKS - 1
  <2>1. \A i \in 1 .. NR_TASKS - 2 : i + 1 \in Task
    BY NR_TASKS_Assumption DEF Task
  <2>2. NR_TASKS - 2 \in Nat
    BY NR_TASKS_Assumption
  <2>3. s \in Seq(Task)
    BY <2>1, <2>2, SeqDef
  <2>4. IsInjective(s)
    BY <2>2 DEF IsInjective
  <2>5. Range(s) = 2 .. NR_TASKS - 1
    <3>1. \A j \in 2 .. NR_TASKS - 1 : j - 1 \in 1 .. NR_TASKS - 2 /\ s[j - 1] = j
      BY NR_TASKS_Assumption
    <3>2. QED
      BY <2>2, <3>1, NR_TASKS_Assumption DEF Range
  <2>6. QED
    BY <2>3, <2>4, <2>5
<1>2. << >> \in Seq(Task) /\ IsInjective(<< >>) /\ Range(<< >>) = {}
  BY EmptySeq DEF IsInjective, Range
<1>3. /\ lists = [h \in ListHead |-> IF h = freequeue THEN s ELSE << >>]
      /\ running = init_task
      /\ state = [t \in Task |-> "ST_RUN"]
      /\ PID = [t \in Task |-> IF t \in {idle_task, init_task} THEN t ELSE -1]
      /\ TID = [t \in Task |-> IF t \in {idle_task, init_task} THEN t ELSE 0]
      /\ register_esp = [t \in Task |-> IF t = idle_task THEN "idle" ELSE "zero"]
      /\ remaining_quantum = DEFAULT_QUANTUM
      /\ sem = [i \in SemIndex |-> NoSem]
      /\ global_PID = 1000
      /\ global_TID = 1000
      /\ fault = "none"
  BY DEF Init
<1> HIDE DEF s
<1>4. /\ Free = 2 .. NR_TASKS - 1
      /\ Ready = {}
      /\ \A i \in SemIndex : Members(lists, blocked(i)) = {}
  BY <1>1, <1>2, <1>3 DEF Free, Ready, Members
<1>5. Blocked = {} /\ Linked = Free
  BY <1>4 DEF Blocked, Linked
<1>6. TypeOK
  <2>1. lists \in [ListHead -> Seq(Task)]
    BY <1>1, <1>2, <1>3
  <2>2. PID \in [Task -> Int] /\ TID \in [Task -> Int]
    BY <1>3, NR_TASKS_Assumption DEF Task
  <2>3. remaining_quantum \in 1 .. DEFAULT_QUANTUM
    BY <1>3, QuantumAssumption
  <2>4. state \in [Task -> state_t] /\ register_esp \in [Task -> Context] /\ fault \in Fault
    BY <1>3 DEF state_t, Context, Fault
  <2>5. sem \in [SemIndex -> sem_t]
    BY <1>3 DEF NoSem, sem_t
  <2>6. QED
    BY <1>3, <2>1, <2>2, <2>3, <2>4, <2>5 DEF TypeOK
<1>7. ListDiscipline
  <2>1. \A h \in ListHead : IsInjective(lists[h])
    BY <1>1, <1>2, <1>3
  <2>2. \A h \in ListHead : h # freequeue => Members(lists, h) = {}
    BY <1>2, <1>3 DEF Members
  <2>3. running \notin Linked
    BY <1>3, <1>4, <1>5 DEF init_task
  <2>4. QED
    BY <2>1, <2>2, <2>3 DEF ListDiscipline
<1>8. StateMatchesQueue
  <2>1. Free \subseteq Task
    BY <1>4, NR_TASKS_Assumption DEF Task
  <2>2. QED
    BY <1>3, <1>4, <1>5, <2>1 DEF StateMatchesQueue
<1>9. IdleOnlyWhenNothingReady
  BY <1>3, <1>4, <1>5 DEF IdleOnlyWhenNothingReady, idle_task
<1>10. \A t \in Task \ Free : t = idle_task \/ t = init_task
  BY <1>4, NR_TASKS_Assumption DEF Task, idle_task, init_task
<1>11. UniqueIds
  BY <1>3, <1>10 DEF UniqueIds
<1>12. IdsBelowGlobals
  BY <1>3 DEF IdsBelowGlobals, idle_task, init_task
<1>13. ContextMatchesState
  BY <1>3, <1>4, <1>5 DEF ContextMatchesState
<1>14. SlotsAccountedFor
  BY <1>3, <1>5, <1>10 DEF SlotsAccountedFor
<1>15. QED
  BY <1>6, <1>7, <1>8, <1>9, <1>11, <1>12, <1>13, <1>14 DEF Inv

(* Every step keeps the invariant.                                         *)
LEMMA NextInv ==
  ASSUME Inv, [Next]_vars
  PROVE  Inv'
<1>1. CASE Clock
  BY <1>1, ClockInv
<1>2. CASE sys_yield
  BY <1>2, YieldInv
<1>3. CASE \E result \in ForkResults : sys_fork(result)
  BY <1>3, ForkInv
<1>4. CASE \E result \in {"ok", "EAGAIN", "page_fault"} : sys_threadCreate(result)
  BY <1>4, ThreadCreateInv
<1>5. CASE sys_exit \/ sys_threadExit
  BY <1>5, ExitInv
<1>6. CASE \E value \in SemValues : sys_semCreate(value)
  BY <1>6, SemCreateInv
<1>7. CASE \E semID \in SemIds : UseBeyondArray(semID)
  BY <1>7, UseBeyondArrayInv
<1>8. CASE \E semID \in SemIds : sys_semWait(semID)
  BY <1>8, SemWaitInv
<1>9. CASE \E semID \in SemIds : sys_semSignal(semID)
  BY <1>9, SemSignalInv
<1>10. CASE \E semID \in SemIds : sys_semDestroy(semID)
  BY <1>10, SemDestroyInv
<1>11. CASE UNCHANGED vars
  BY <1>11
  DEF vars, schedVars, idVars, Inv, TypeOK, ListDiscipline, StateMatchesQueue,
      IdleOnlyWhenNothingReady, UniqueIds, IdsBelowGlobals, ContextMatchesState,
      SlotsAccountedFor, Linked, Ready, Free, Blocked
<1>12. QED
  BY <1>1, <1>2, <1>3, <1>4, <1>5, <1>6, <1>7, <1>8, <1>9, <1>10, <1>11 DEF Next

(* The inductive invariant holds in every reachable state.                 *)
THEOREM InvHolds == Spec => []Inv
  BY InitInv, NextInv, PTL DEF Spec

(* The variables keep their types, and between two handlers the running    *)
(* task always has between one tick and a whole quantum left.              *)
THEOREM TypeCorrect == Spec => []TypeOK
<1>1. Inv => TypeOK
  BY DEF Inv
<1>2. QED
  BY <1>1, InvHolds, PTL

(* No task_struct is ever linked twice and the running one never is:       *)
(* list_add and list_add_tail never tie two queues of the kernel together. *)
THEOREM ListsDisciplined == Spec => []ListDiscipline
<1>1. Inv => ListDiscipline
  BY DEF Inv
<1>2. QED
  BY <1>1, InvHolds, PTL

(* The field state always tells the queue a task is in, so the list_del of *)
(* update_process_state_rr is never reached with an unlinked node.         *)
THEOREM StatesMatchQueues == Spec => []StateMatchesQueue
<1>1. Inv => StateMatchesQueue
  BY DEF Inv
<1>2. QED
  BY <1>1, InvHolds, PTL

(* idle_task is in no queue and runs only when the ready queue is empty.   *)
THEOREM IdleIsLast == Spec => []IdleOnlyWhenNothingReady
<1>1. Inv => IdleOnlyWhenNothingReady
  BY DEF Inv
<1>2. QED
  BY <1>1, InvHolds, PTL

(* A pair of PID and TID names at most one task in use.                    *)
THEOREM IdsUnique == Spec => []UniqueIds
<1>1. Inv => UniqueIds
  BY DEF Inv
<1>2. QED
  BY <1>1, InvHolds, PTL

(* Every task that will be switched to has a stack prepared for it.        *)
THEOREM ContextsMatchStates == Spec => []ContextMatchesState
<1>1. Inv => ContextMatchesState
  BY DEF Inv
<1>2. QED
  BY <1>1, InvHolds, PTL

(* Task structures are not lost, fork over blocked threads apart.          *)
THEOREM NoSlotLost == Spec => []SlotsAccountedFor
<1>1. Inv => SlotsAccountedFor
  BY DEF Inv
<1>2. QED
  BY <1>1, InvHolds, PTL

(* Once idle_task runs no other task ever runs again.                      *)
THEOREM IdleForEver == Spec => IdleIsFinal
<1>1. ASSUME Inv, [Next]_vars, running = idle_task
      PROVE  running' = idle_task
  <2>1. list_empty(lists, readyqueue)
    BY <1>1, DisciplineOfInv, EmptyMembers, Heads DEF Inv, IdleOnlyWhenNothingReady, Ready
  <2>2. CASE Clock
    BY <1>1, <2>1, <2>2 DEF Clock, needs_sched_rr
  <2>3. CASE UNCHANGED vars
    BY <1>1, <2>3 DEF vars, schedVars
  <2>4. QED
    BY <1>1, <2>2, <2>3
    DEF Next, Syscall, sys_yield, sys_fork, sys_threadCreate, sys_exit, sys_threadExit,
        sys_semCreate, UseBeyondArray, sys_semWait, sys_semSignal, sys_semDestroy
<1>2. Inv /\ [Next]_vars => [running = idle_task => running' = idle_task]_vars
  BY <1>1
<1>3. QED
  BY <1>2, InvHolds, PTL DEF Spec, IdleIsFinal
-----------------------------------------------------------------------------
(* The ready queue after a task switch.                                    *)
LEMMA SwitchOrder ==
  ASSUME NEW L, NEW st, NEW path, sched_next_rr(L, st, path), L \in [ListHead -> Seq(Task)]
  PROVE  lists'[readyqueue] = IF L[readyqueue] = << >> THEN << >> ELSE Tail(L[readyqueue])
  BY Heads DEF sched_next_rr, list_empty, list_del_first

(* One step of the kernel.                                                 *)
LEMMA StepInOrder ==
  ASSUME Inv, [Next]_vars
  PROVE  InOrder(lists[readyqueue], lists'[readyqueue])
<1> USE Heads
<1> DEFINE q == lists[readyqueue]
<1>1. /\ q \in Seq(Task) /\ IsInjective(q) /\ running \in Task /\ running \notin Range(q)
      /\ Disciplined(lists, ListHead, Task) /\ lists \in [ListHead -> Seq(Task)]
  BY DisciplineOfInv DEF Inv, TypeOK, Disciplined, Members
<1>2. CASE lists'[readyqueue] = q
  BY <1>1, <1>2, OrderSame
<1>3. ASSUME NEW path, sched_next_rr(ReadyLists, ReadyStates, path)
      PROVE  InOrder(q, lists'[readyqueue])
  <2>1. ReadyLists = list_add_tail(lists, running, readyqueue)
    BY DEF ReadyLists, Inv, StateMatchesQueue
  <2>2. ReadyLists \in [ListHead -> Seq(Task)] /\ ReadyLists[readyqueue] = Append(q, running)
    BY <1>1, <2>1, ReadyListsMembers DEF list_add_tail, Disciplined
  <2>3. Append(q, running) # << >>
    BY <1>1
  <2>4. lists'[readyqueue] = Tail(Append(q, running))
    BY <1>3, <2>2, <2>3, SwitchOrder
  <2>5. QED
    BY <1>1, <2>4, OrderRotate
<1>4. ASSUME NEW L, NEW st, NEW path, sched_next_rr(L, st, path),
             L \in [ListHead -> Seq(Task)], L[readyqueue] = q
      PROVE  InOrder(q, lists'[readyqueue])
  <2>1. lists'[readyqueue] = IF q = << >> THEN << >> ELSE Tail(q)
    BY <1>4, SwitchOrder
  <2>2. QED
    BY <1>1, <2>1, OrderSame, OrderTail
<1>5. CASE Clock \/ sys_yield
  BY <1>2, <1>3, <1>5 DEF Clock, sys_yield
<1>6. CASE sys_exit \/ sys_threadExit
  <2>1. sched_next_rr(ExitLists, state, "exit")
    BY <1>6 DEF sys_exit, sys_threadExit
  <2>2. ExitLists \in [ListHead -> Seq(Task)] /\ ExitLists[readyqueue] = q
    BY <1>1, ExitListsMembers DEF ExitLists, list_add_tail, Disciplined
  <2>3. QED
    BY <1>4, <2>1, <2>2
<1>7. CASE \E semID \in SemIds : sys_semWait(semID)
  <2>1. PICK semID \in SemIds : sys_semWait(semID)
    BY <1>7
  <2>2. semID \in SemIndex
    BY <2>1 DEF sys_semWait, Usable
  <2>3. BlockLists(semID) \in [ListHead -> Seq(Task)] /\ BlockLists(semID)[readyqueue] = q
    <3>1. Disciplined(BlockLists(semID), ListHead, Task)
      BY <1>1, <2>2, DisciplineOfInv, ListAdd DEF BlockLists
    <3>2. QED
      BY <1>1, <2>2, <3>1 DEF BlockLists, list_add, Disciplined
  <2>4. QED
    BY <1>2, <1>4, <2>1, <2>3 DEF sys_semWait, schedVars
<1>8. CASE \/ \E result \in ForkResults : sys_fork(result)
           \/ \E result \in {"ok", "EAGAIN", "page_fault"} : sys_threadCreate(result)
  <2>1. PICK result : sys_fork(result) \/ sys_threadCreate(result)
    BY <1>8
  <2>2. ~ list_empty(lists, freequeue)
    BY <2>1 DEF sys_fork, sys_threadCreate
  <2>3. FreeTask \in Task
    BY <1>1, <2>2, ListDelFirst DEF FreeTask
  <2>4. ASSUME NEW M \in {ForkLists, list_del_first(lists, freequeue)}
        PROVE  /\ readyqueue \in DOMAIN M /\ M[readyqueue] = q
               /\ list_add_tail(M, FreeTask, readyqueue)[readyqueue] = Append(q, FreeTask)
               /\ list_add_tail(M, FreeTask, freequeue)[readyqueue] = q
    BY <1>1 DEF ForkLists, INIT_LIST_HEAD, list_del_first, list_add_tail
  <2>5. lists'[readyqueue] \in {q, Append(q, FreeTask)}
    BY <2>1, <2>4 DEF sys_fork, sys_threadCreate
  <2>6. InOrder(q, Append(q, FreeTask))
    BY <1>1, <2>3, OrderAppend
  <2>7. QED
    BY <1>2, <2>5, <2>6
<1>9. CASE \E value \in SemValues : sys_semCreate(value)
  BY <1>1, <1>2, <1>9 DEF sys_semCreate, INIT_LIST_HEAD
<1>10. CASE \E semID \in SemIds : UseBeyondArray(semID)
  BY <1>2, <1>10 DEF UseBeyondArray, schedVars
<1>11. CASE \E semID \in SemIds : sys_semSignal(semID)
  <2>1. PICK semID \in SemIds : sys_semSignal(semID)
    BY <1>11
  <2>2. semID \in SemIndex
    BY <2>1 DEF sys_semSignal, Usable
  <2>3. CASE ~ list_empty(lists, blocked(semID)) /\ ~ UNCHANGED lists
    <3> DEFINE l == list_first(lists, blocked(semID))
    <3>1. l \in Task
      BY <1>1, <2>2, <2>3, ListDelFirst
    <3>2. lists'[readyqueue] = << l >> \o q
      BY <1>1, <2>1, <2>2, <2>3 DEF sys_semSignal, list_add, list_del_first
    <3>3. QED
      BY <1>1, <3>1, <3>2, OrderCons
  <2>4. QED
    BY <1>2, <2>1, <2>3 DEF sys_semSignal
<1>12. CASE \E semID \in SemIds : sys_semDestroy(semID)
  <2>1. PICK semID \in SemIds : sys_semDestroy(semID)
    BY <1>12
  <2>2. semID \in SemIndex /\ lists' = list_move_all(lists, blocked(semID), readyqueue)
    BY <2>1 DEF sys_semDestroy, Usable
  <2>3. lists'[readyqueue] = q \o lists[blocked(semID)] /\ lists[blocked(semID)] \in Seq(Task)
    BY <1>1, <2>2 DEF list_move_all
  <2>4. QED
    BY <1>1, <2>3, OrderConcat
<1>13. CASE UNCHANGED vars
  BY <1>2, <1>13 DEF vars, schedVars
<1>14. QED
  BY <1>5, <1>6, <1>7, <1>8, <1>9, <1>10, <1>11, <1>12, <1>13 DEF Next

(* A ready task is never overtaken by another that is behind it in the     *)
(* ready queue: preempted tasks and new ones go to the end, and those that *)
(* semaphores wake are not behind anybody before.                          *)
THEOREM NobodyOvertaken == Spec => NoOvertaking
<1>1. ASSUME Inv, [Next]_vars
      PROVE  \A i, j \in DOMAIN lists[readyqueue] :
               LET t == lists[readyqueue][i]
                   u == lists[readyqueue][j]
               IN i < j /\ t \in Range(lists[readyqueue]')
                    => \E k, m \in DOMAIN lists[readyqueue]' :
                          k < m /\ lists[readyqueue]'[k] = t /\ lists[readyqueue]'[m] = u
  BY <1>1, StepInOrder DEF InOrder, readyqueue
<1>2. QED
  BY <1>1, InvHolds, PTL DEF Spec, NoOvertaking

-----------------------------------------------------------------------------
(* The semaphores.  The proofs use the inductive invariant above, and that *)
(* a counter that started below zero never passes the value it started     *)
(* with while the kernel lives: the signal that raises it wakes somebody   *)
(* who is not there.                                                       *)
DebtKept ==
  \A i \in SemIndex : fault = "none" /\ sem[i].value < 0 => sem[i].count <= sem[i].value

(* What counter and debt of a semaphore have to do with each other.        *)
LEMMA DebtFacts ==
  ASSUME Inv, DebtKept, fault = "none", NEW i \in SemIndex
  PROVE  /\ sem[i].count \in Int /\ sem[i].value \in Int
         /\ Debt(i) \in Int /\ Debt(i) <= 0
         /\ Debt(i) < 0 => Debt(i) = sem[i].value /\ sem[i].count <= Debt(i)
<1>1. sem[i].count \in Int /\ sem[i].value \in Int
  BY DEF Inv, TypeOK, sem_t
<1>2. QED
  BY <1>1 DEF DebtKept, Debt

(* A step that leaves alone the semaphores, their queues and the PIDs of   *)
(* the threads in them.                                                    *)
SemFrame ==
  /\ sem' = sem
  /\ \A i \in SemIndex : lists'[blocked(i)] = lists[blocked(i)]
  /\ \A i \in SemIndex : \A t \in Members(lists, blocked(i)) : PID'[t] = PID[t]

(* A step that touches no semaphore and no thread blocked on one keeps     *)
(* counters and queues in agreement.                                       *)
LEMMA FrameKeeps ==
  ASSUME SemFrame, SemCountMatchesBlocked
  PROVE  SemCountMatchesBlocked'
<1>1. \A i \in SemIndex : Members(lists', blocked(i)) = Members(lists, blocked(i))
  BY DEF SemFrame, Members
<1>2. QED
  BY <1>1 DEF SemFrame, SemCountMatchesBlocked, Debt

(* The threads blocked on semaphores are other tasks than the running one  *)
(* and the first free one.                                                 *)
LEMMA BlockedOthers ==
  ASSUME Inv, NEW i \in SemIndex, NEW t \in Members(lists, blocked(i))
  PROVE  /\ t \in Task
         /\ t # running
         /\ t \notin Members(lists, freequeue)
  BY DisciplineOfInv, MembersAreTasks, Heads DEF Disciplined

(* A task switch in which the running task goes to a list that is not the  *)
(* queue of a semaphore.                                                   *)
LEMMA SwitchFrame ==
  ASSUME Inv, running # idle_task, NEW home \in {freequeue, readyqueue},
         NEW st \in [Task -> state_t], NEW path \in Context,
         sched_next_rr(list_add_tail(lists, running, home), st, path),
         sem' = sem,
         \A t \in Task : t # running => PID'[t] = PID[t]
  PROVE  SemFrame
<1> USE Heads
<1> DEFINE L == list_add_tail(lists, running, home)
<1>1. /\ Disciplined(lists, ListHead, Task)
      /\ \A h \in ListHead : running \notin Members(lists, h)
      /\ \A h \in ListHead : idle_task \notin Members(lists, h)
      /\ running \in Task
      /\ TypeOK
      /\ home \in ListHead
  BY DisciplineOfInv DEF Inv, TypeOK
<1>2. /\ Disciplined(L, ListHead, Task)
      /\ \A g \in ListHead : g # home => L[g] = lists[g]
      /\ \A g \in ListHead : Members(L, g) =
            IF g = home THEN Members(lists, g) \cup {running} ELSE Members(lists, g)
  BY <1>1, ListAddTail
<1>3. sched_next_rr(L, st, path)
  OBVIOUS
<1> HIDE DEF L
<1>4. \A h \in ListHead : idle_task \notin Members(L, h)
  BY <1>1, <1>2
<1>5. \A h \in ListHead : h # readyqueue => lists'[h] = L[h]
  BY <1>1, <1>2, <1>3, <1>4, SchedNext
<1>6. \A i \in SemIndex : lists'[blocked(i)] = lists[blocked(i)]
  BY <1>2, <1>5
<1>7. QED
  BY <1>6, BlockedOthers DEF SemFrame

(* The clock touches no semaphore.                                         *)
LEMMA ClockFrame ==
  ASSUME Inv, Clock
  PROVE  SemFrame
<1>1. /\ UNCHANGED << PID, sem >>
      /\ state \in [Task -> state_t]
      /\ running \in Task
      /\ ReadyLists = list_add_tail(lists, running, readyqueue)
  BY DEF Clock, idVars, Inv, TypeOK, StateMatchesQueue, ReadyLists
<1>2. CASE sched_next_rr(ReadyLists, ReadyStates, "clock") /\ ~ list_empty(lists, readyqueue)
  <2>1. running # idle_task
    BY <1>2, DisciplineOfInv, EmptyMembers, Heads DEF Inv, IdleOnlyWhenNothingReady, Ready
  <2>2. ReadyStates \in [Task -> state_t] /\ "clock" \in Context
    BY <1>1 DEF ReadyStates, state_t, Context
  <2>3. QED
    BY <1>1, <1>2, <2>1, <2>2, SwitchFrame
<1>3. CASE UNCHANGED lists
  BY <1>1, <1>3 DEF SemFrame
<1>4. QED
  BY <1>2, <1>3 DEF Clock, needs_sched_rr

(* yield touches no semaphore.                                             *)
LEMMA YieldFrame ==
  ASSUME Inv, sys_yield
  PROVE  SemFrame
<1>1. /\ UNCHANGED << PID, sem >>
      /\ running # idle_task
      /\ sched_next_rr(list_add_tail(lists, running, readyqueue), ReadyStates, "yield")
      /\ ReadyStates \in [Task -> state_t]
      /\ "yield" \in Context
  BY DEF sys_yield, Syscall, idVars, Inv, TypeOK, StateMatchesQueue, ReadyLists, ReadyStates,
         state_t, Context
<1>2. QED
  BY <1>1, SwitchFrame

(* The end of a task touches no semaphore: who runs is not blocked.        *)
LEMMA ExitFrame ==
  ASSUME Inv, sys_exit \/ sys_threadExit
  PROVE  SemFrame
<1>1. /\ sem' = sem
      /\ running # idle_task
      /\ sched_next_rr(list_add_tail(lists, running, freequeue), state, "exit")
      /\ state \in [Task -> state_t]
      /\ "exit" \in Context
  BY DEF sys_exit, sys_threadExit, Syscall, idVars, Inv, TypeOK, ExitLists, Context
<1>2. \A t \in Task : t # running => PID'[t] = PID[t]
  BY DEF sys_exit, sys_threadExit, idVars, Inv, TypeOK
<1>3. QED
  BY <1>1, <1>2, SwitchFrame

(* threadCreate touches no semaphore: a free structure is not blocked.     *)
LEMMA ThreadCreateFrame ==
  ASSUME Inv, NEW result, sys_threadCreate(result)
  PROVE  SemFrame
<1> USE Heads
<1>1. /\ sem' = sem
      /\ PID' = [PID EXCEPT ![FreeTask] = PID[running]]
      /\ ~ list_empty(lists, freequeue)
      /\ PID \in [Task -> Int]
      /\ Disciplined(lists, ListHead, Task)
  BY DisciplineOfInv DEF sys_threadCreate, Inv, TypeOK
<1>2. FreeTask \in Members(lists, freequeue)
  BY <1>1, ListDelFirst DEF FreeTask
<1>3. \A i \in SemIndex : lists'[blocked(i)] = lists[blocked(i)]
  BY <1>1 DEF sys_threadCreate, list_add_tail, list_del_first, Disciplined
<1>4. QED
  BY <1>1, <1>2, <1>3, BlockedOthers DEF SemFrame

-----------------------------------------------------------------------------
(* A step on the semaphore k only.                                         *)
OnlySem(k) ==
  /\ \A i \in SemIndex \ {k} : sem'[i] = sem[i] /\ lists'[blocked(i)] = lists[blocked(i)]
  /\ PID' = PID

(* A step that touches one semaphore has to be looked at for that one      *)
(* only.                                                                   *)
LEMMA OnlySemKeeps ==
  ASSUME NEW k \in SemIndex, OnlySem(k), SemCountMatchesBlocked,
         sem'[k] = NoSem \/ sem'[k].semid = k,
         sem'[k].count < Debt(k)' => Len(lists'[blocked(k)]) = Debt(k)' - sem'[k].count,
         sem'[k].count >= Debt(k)' => lists'[blocked(k)] = << >>,
         \A t \in Members(lists', blocked(k)) : PID[t] = sem'[k].PID
  PROVE  SemCountMatchesBlocked'
<1> SUFFICES ASSUME NEW i \in SemIndex
             PROVE  /\ sem'[i] = NoSem \/ sem'[i].semid = i
                    /\ sem'[i].count < Debt(i)'
                          => Len(lists'[blocked(i)]) = Debt(i)' - sem'[i].count
                    /\ sem'[i].count >= Debt(i)' => lists'[blocked(i)] = << >>
                    /\ \A t \in Members(lists', blocked(i)) : PID'[t] = sem'[i].PID
  BY DEF SemCountMatchesBlocked
<1>1. CASE i = k
  BY <1>1 DEF OnlySem
<1>2. CASE i # k
  BY <1>2 DEF OnlySem, SemCountMatchesBlocked, Members, Debt
<1>3. QED
  BY <1>1, <1>2

(* Nothing is a member of an empty queue.                                  *)
LEMMA NoMembers ==
  ASSUME NEW L, NEW h, L[h] = << >>
  PROVE  Members(L, h) = {}
  BY DEF Members, Range

(* A new semaphore owes nothing beyond its debt and has an empty queue.    *)
LEMMA SemCreateCount ==
  ASSUME Inv, SemCountMatchesBlocked, NEW value \in SemValues, sys_semCreate(value)
  PROVE  SemCountMatchesBlocked'
<1> USE Heads
<1>1. PICK k \in SemIndex :
        /\ sem' = [sem EXCEPT ![k] = [semid |-> k, count |-> value, PID |-> PID[running],
                                      value |-> value]]
        /\ lists' = INIT_LIST_HEAD(lists, {blocked(k)})
  BY DEF sys_semCreate
<1>2. /\ UNCHANGED idVars
      /\ Disciplined(lists, ListHead, Task)
      /\ sem \in [SemIndex -> sem_t]
      /\ value \in Int
  BY DisciplineOfInv, InputAssumption DEF sys_semCreate, Inv, TypeOK
<1>3. \A g \in ListHead : lists'[g] = IF g \in {blocked(k)} THEN << >> ELSE lists[g]
  BY <1>1, <1>2, InitListHead
<1>4. sem'[k].count = value /\ sem'[k].semid = k /\ sem'[k].count >= Debt(k)'
  <2>1. sem'[k].count = value /\ sem'[k].semid = k /\ sem'[k].value = value
    BY <1>1, <1>2
  <2>2. QED
    BY <1>2, <2>1 DEF Debt
<1>5. \A i \in SemIndex \ {k} : sem'[i] = sem[i] /\ lists'[blocked(i)] = lists[blocked(i)]
  BY <1>1, <1>2, <1>3 DEF blocked
<1>6. OnlySem(k)
  BY <1>2, <1>5 DEF OnlySem, idVars
<1>7. lists'[blocked(k)] = << >>
  BY <1>3
<1>8. Members(lists', blocked(k)) = {}
  BY <1>7, NoMembers
<1>9. Debt(k)' \in Int
  BY <1>1, <1>2 DEF Debt
<1>10. QED
  BY <1>2, <1>4, <1>6, <1>7, <1>8, <1>9, OnlySemKeeps

(* semWait blocks exactly when it makes the counter negative.              *)
LEMMA SemWaitCount ==
  ASSUME Inv, SemCountMatchesBlocked, DebtKept, NEW semID \in SemIds, sys_semWait(semID)
  PROVE  SemCountMatchesBlocked'
<1> USE Heads
<1>1. /\ running # idle_task /\ fault = "none"
      /\ semID \in SemIndex
      /\ sem[semID].PID = PID[running]
      /\ sem[semID].semid = semID
      /\ PID' = PID
  BY DEF sys_semWait, Syscall, Usable, idVars
<1>2. /\ sem \in [SemIndex -> sem_t]
      /\ running \in Task
      /\ TypeOK
      /\ Disciplined(lists, ListHead, Task)
      /\ state \in [Task -> state_t]
  BY DisciplineOfInv DEF Inv, TypeOK
<1>3. /\ sem[semID].count \in Int
      /\ sem'[semID].count = sem[semID].count - 1
      /\ sem'[semID].PID = PID[running]
      /\ sem'[semID].semid = semID
      /\ sem'[semID].value = sem[semID].value
      /\ \A i \in SemIndex \ {semID} : sem'[i] = sem[i]
  BY <1>1, <1>2 DEF sys_semWait, sem_t
<1> DEFINE d == Debt(semID)
<1>4. Debt(semID)' = d
  BY <1>3 DEF Debt
<1>5. d \in Int /\ d <= 0 /\ (d < 0 => sem[semID].count <= d)
  BY <1>1, DebtFacts
<1>6. /\ sem[semID].count < d => Len(lists[blocked(semID)]) = d - sem[semID].count
      /\ sem[semID].count >= d => lists[blocked(semID)] = << >>
      /\ \A t \in Members(lists, blocked(semID)) : PID[t] = sem[semID].PID
  BY <1>1 DEF SemCountMatchesBlocked
<1> HIDE DEF d
<1>7. CASE /\ sem'[semID].count < 0
           /\ sched_next_rr(BlockLists(semID), [state EXCEPT ![running] = "ST_BLOCKED"], "sem")
  <2> DEFINE L == list_add(lists, running, blocked(semID))
             st == [state EXCEPT ![running] = "ST_BLOCKED"]
  <2>1. /\ Disciplined(L, ListHead, Task)
        /\ \A g \in ListHead : g # blocked(semID) => L[g] = lists[g]
        /\ Len(L[blocked(semID)]) = Len(lists[blocked(semID)]) + 1
        /\ \A h \in ListHead : Members(L, h) =
              IF h = blocked(semID) THEN Members(lists, h) \cup {running} ELSE Members(lists, h)
    BY <1>1, <1>2, DisciplineOfInv, ListAdd
  <2>2. st \in [Task -> state_t] /\ "sem" \in Context
    BY <1>2 DEF state_t, Context
  <2>3. sched_next_rr(L, st, "sem")
    BY <1>7 DEF BlockLists
  <2> HIDE DEF L, st
  <2>4. \A h \in ListHead : idle_task \notin Members(L, h)
    BY <1>1, <2>1, DisciplineOfInv
  <2>5. \A h \in ListHead : h # readyqueue => lists'[h] = L[h]
    BY <1>2, <2>1, <2>2, <2>3, <2>4, SchedNext
  <2>6. lists'[blocked(semID)] = L[blocked(semID)]
    BY <1>1, <2>5
  <2>7. OnlySem(semID)
    <3>1. \A i \in SemIndex \ {semID} : lists'[blocked(i)] = lists[blocked(i)]
      BY <2>1, <2>5 DEF blocked
    <3>2. QED
      BY <1>1, <1>3, <3>1 DEF OnlySem
  <2>8. sem'[semID].count < d /\ Len(lists'[blocked(semID)]) = d - sem'[semID].count
    <3>1. CASE sem[semID].count < d
      BY <1>3, <1>6, <1>5, <2>1, <2>6, <3>1
    <3>2. CASE sem[semID].count >= d
      <4>1. sem[semID].count = d
        BY <1>3, <1>7, <1>5, <3>2
      <4>2. Len(lists[blocked(semID)]) = 0
        BY <1>6, <3>2
      <4>3. Len(lists'[blocked(semID)]) = 1
        BY <2>1, <2>6, <4>2
      <4>4. QED
        BY <1>3, <1>5, <4>1, <4>3
    <3>3. QED
      BY <1>3, <1>5, <3>1, <3>2
  <2>9. \A t \in Members(lists', blocked(semID)) : PID[t] = sem'[semID].PID
    BY <1>1, <1>3, <1>6, <2>1, <2>6 DEF Members
  <2>10. QED
    BY <1>1, <1>3, <1>4, <1>5, <2>7, <2>8, <2>9, OnlySemKeeps
<1>8. CASE sem'[semID].count >= 0 /\ UNCHANGED << schedVars, fault >>
  <2>1. OnlySem(semID)
    BY <1>1, <1>3, <1>8 DEF OnlySem, schedVars
  <2>2. lists'[blocked(semID)] = << >>
    BY <1>3, <1>6, <1>8, <1>5 DEF schedVars
  <2>3. Members(lists', blocked(semID)) = {}
    BY <2>2, NoMembers
  <2>4. sem'[semID].count >= d
    BY <1>3, <1>8, <1>5
  <2>5. QED
    BY <1>1, <1>3, <1>4, <1>5, <2>1, <2>2, <2>3, <2>4, OnlySemKeeps
<1>9. QED
  BY <1>3, <1>7, <1>8 DEF sys_semWait, MustBlock

(* The counter says that somebody is blocked only when somebody is, so a   *)
(* wake-up from an empty queue only happens when the counter rises above   *)
(* the negative value it started with.                                     *)
LEMMA SemSignalCount ==
  ASSUME Inv, SemCountMatchesBlocked, DebtKept, NEW semID \in SemIds, sys_semSignal(semID)
  PROVE  /\ SemCountMatchesBlocked'
         /\ semID \in SemIndex
         /\ \/ /\ fault' = "none"
               /\ sem[semID].value < 0 => sem'[semID].count <= sem[semID].value
            \/ sem[semID].value < 0 /\ sem'[semID].count = sem[semID].value + 1
<1> USE Heads
<1>1. /\ fault = "none"
      /\ semID \in SemIndex
      /\ sem[semID].PID = PID[running]
      /\ sem[semID].semid = semID
      /\ PID' = PID
  BY DEF sys_semSignal, Syscall, Usable, idVars
<1>2. /\ sem \in [SemIndex -> sem_t]
      /\ Disciplined(lists, ListHead, Task)
  BY DisciplineOfInv DEF Inv, TypeOK
<1>3. /\ sem[semID].count \in Int
      /\ sem'[semID].count = sem[semID].count + 1
      /\ sem'[semID].PID = sem[semID].PID
      /\ sem'[semID].semid = semID
      /\ sem'[semID].value = sem[semID].value
      /\ \A i \in SemIndex \ {semID} : sem'[i] = sem[i]
  BY <1>1, <1>2 DEF sys_semSignal, sem_t
<1> DEFINE d == Debt(semID)
           c == sem[semID].count
<1>4. Debt(semID)' = d
  BY <1>3 DEF Debt
<1>5. /\ d \in Int /\ d <= 0
      /\ d < 0 => d = sem[semID].value /\ c <= d
      /\ sem[semID].value < 0 => d = sem[semID].value
  BY <1>1, DebtFacts DEF Debt
<1>6. /\ c < d => Len(lists[blocked(semID)]) = d - c
      /\ c >= d => lists[blocked(semID)] = << >>
      /\ \A t \in Members(lists, blocked(semID)) : PID[t] = sem[semID].PID
  BY <1>1 DEF SemCountMatchesBlocked
<1>7. c \in Int /\ sem'[semID].count = c + 1
  BY <1>3
<1> HIDE DEF d, c
<1>8. CASE c + 1 <= 0 /\ ~ list_empty(lists, blocked(semID))
  <2> DEFINE l == list_first(lists, blocked(semID))
             L == list_del_first(lists, blocked(semID))
  <2>1. c < d /\ Len(lists[blocked(semID)]) = d - c
    BY <1>5, <1>6, <1>7, <1>8 DEF list_empty
  <2>2. lists' = list_add(L, l, readyqueue) /\ fault' = "none"
    BY <1>8 DEF sys_semSignal, MustWake, c
  <2>3. /\ Disciplined(L, ListHead, Task)
        /\ l \in Task
        /\ \A h \in ListHead : l \notin Members(L, h)
        /\ Len(L[blocked(semID)]) = Len(lists[blocked(semID)]) - 1
        /\ \A h \in ListHead : h # blocked(semID) => L[h] = lists[h]
        /\ \A h \in ListHead : Members(L, h) = Members(lists, h) \ {l}
    BY <1>1, <1>2, <1>8, ListDelFirst
  <2> HIDE DEF l, L
  <2>4. /\ Disciplined(lists', ListHead, Task)
        /\ \A h \in ListHead : h # readyqueue => lists'[h] = L[h]
    BY <2>2, <2>3, ListAdd
  <2>5. lists'[blocked(semID)] = L[blocked(semID)] /\ lists'[blocked(semID)] \in Seq(Task)
    BY <1>1, <2>4 DEF Disciplined
  <2>6. OnlySem(semID)
    <3>1. \A i \in SemIndex \ {semID} : lists'[blocked(i)] = lists[blocked(i)]
      BY <2>3, <2>4 DEF blocked
    <3>2. QED
      BY <1>1, <1>3, <3>1 DEF OnlySem
  <2>7. Len(lists'[blocked(semID)]) = d - sem'[semID].count
    <3>1. Len(lists'[blocked(semID)]) = Len(lists[blocked(semID)]) - 1
      BY <2>3, <2>5
    <3>2. QED
      BY <1>5, <1>7, <2>1, <3>1
  <2>8. sem'[semID].count <= d
    BY <1>5, <1>7, <2>1
  <2>9. sem'[semID].count >= d => lists'[blocked(semID)] = << >>
    <3>1. ASSUME sem'[semID].count >= d PROVE Len(lists'[blocked(semID)]) = 0
      BY <1>5, <1>7, <2>7, <2>8, <3>1
    <3>2. QED
      BY <2>5, <3>1, EmptySeq
  <2>10. \A t \in Members(lists', blocked(semID)) : PID[t] = sem'[semID].PID
    BY <1>1, <1>3, <1>6, <2>3, <2>5 DEF Members
  <2>11. SemCountMatchesBlocked'
    BY <1>1, <1>3, <1>4, <2>6, <2>7, <2>9, <2>10, OnlySemKeeps
  <2>12. QED
    BY <1>1, <1>5, <2>2, <2>8, <2>11
<1>9. CASE ~ (c + 1 <= 0 /\ ~ list_empty(lists, blocked(semID)))
  <2>1. UNCHANGED lists
    BY <1>7, <1>9 DEF sys_semSignal, MustWake, c
  <2>2. OnlySem(semID)
    BY <1>1, <1>3, <2>1 DEF OnlySem
  <2>3. c >= d /\ lists[blocked(semID)] = << >>
    <3>1. CASE c + 1 > 0
      BY <1>5, <1>6, <1>7, <3>1
    <3>2. CASE list_empty(lists, blocked(semID))
      <4>1. Len(lists[blocked(semID)]) = 0
        BY <3>2 DEF list_empty
      <4>2. QED
        BY <1>5, <1>6, <1>7, <3>2, <4>1 DEF list_empty
    <3>3. QED
      BY <1>7, <1>9, <3>1, <3>2
  <2>4. lists'[blocked(semID)] = << >> /\ Members(lists', blocked(semID)) = {}
    BY <2>1, <2>3, NoMembers
  <2>5. sem'[semID].count >= d /\ sem'[semID].count \in Int
    BY <1>5, <1>7, <2>3
  <2>6. SemCountMatchesBlocked'
    BY <1>1, <1>3, <1>4, <1>5, <2>2, <2>4, <2>5, OnlySemKeeps
  <2>7. CASE c + 1 > 0
    <3>1. fault' = "none"
      BY <1>1, <1>7, <2>7 DEF sys_semSignal, MustWake, c
    <3>2. ~ (sem[semID].value < 0)
      BY <1>5, <1>7, <2>7
    <3>3. QED
      BY <1>1, <2>6, <3>1, <3>2
  <2>8. CASE c + 1 <= 0
    <3>1. d < 0
      BY <1>5, <1>7, <2>3, <2>8
    <3>2. d = sem[semID].value /\ c = d
      BY <1>5, <1>7, <2>3, <3>1
    <3>3. QED
      BY <1>1, <1>7, <2>6, <3>1, <3>2
  <2>9. QED
    BY <1>7, <2>7, <2>8
<1>10. QED
  BY <1>8, <1>9

(* A semaphore that has been destroyed has nobody in its queue.            *)
LEMMA SemDestroyCount ==
  ASSUME Inv, SemCountMatchesBlocked, NEW semID \in SemIds, sys_semDestroy(semID)
  PROVE  SemCountMatchesBlocked'
<1> USE Heads
<1>1. /\ semID \in SemIndex
      /\ lists' = list_move_all(lists, blocked(semID), readyqueue)
      /\ sem' = [sem EXCEPT ![semID] = NoSem]
      /\ PID' = PID
  BY DEF sys_semDestroy, Usable, idVars
<1>2. /\ sem \in [SemIndex -> sem_t]
      /\ Disciplined(lists, ListHead, Task)
      /\ blocked(semID) \in ListHead
      /\ blocked(semID) # readyqueue
  BY <1>1, DisciplineOfInv DEF Inv, TypeOK
<1>3. /\ lists'[blocked(semID)] = << >>
      /\ \A g \in ListHead : g \notin {blocked(semID), readyqueue} => lists'[g] = lists[g]
  <2> DEFINE M == list_move_all(lists, blocked(semID), readyqueue)
  <2>1. /\ M[blocked(semID)] = << >>
        /\ \A g \in ListHead : g \notin {blocked(semID), readyqueue} => M[g] = lists[g]
    BY ONLY <1>2, Heads, ListMoveAll
  <2>2. QED
    BY <1>1, <2>1
<1>4. OnlySem(semID)
  <2>1. \A i \in SemIndex \ {semID} : sem'[i] = sem[i]
    BY <1>1, <1>2
  <2>2. \A i \in SemIndex \ {semID} : lists'[blocked(i)] = lists[blocked(i)]
    BY <1>3 DEF blocked
  <2>3. QED
    BY <1>1, <2>1, <2>2 DEF OnlySem
<1>5. Members(lists', blocked(semID)) = {}
  BY <1>3, NoMembers
<1>6. sem'[semID] = NoSem /\ sem'[semID].count = 0 /\ Debt(semID)' = 0
  BY <1>1, <1>2 DEF NoSem, Debt
<1>7. QED
  BY <1>1, <1>3, <1>4, <1>5, <1>6, OnlySemKeeps

(* sys_fork leaves no semaphore and no queue of one.                       *)
LEMMA ForkCount ==
  ASSUME Inv, NEW result, sys_fork(result)
  PROVE  SemCountMatchesBlocked'
<1> USE Heads
<1>1. /\ sem' = [i \in SemIndex |-> NoSem]
      /\ \/ \E home \in {freequeue, readyqueue} : lists' = list_add_tail(ForkLists, FreeTask, home)
         \/ lists' = ForkLists
      /\ lists \in [ListHead -> Seq(Task)]
  BY DEF sys_fork, Inv, TypeOK
<1>2. \A i \in SemIndex : lists'[blocked(i)] = << >>
  BY <1>1 DEF ForkLists, INIT_LIST_HEAD, list_del_first, list_add_tail, blocked
<1>3. \A i \in SemIndex : Members(lists', blocked(i)) = {}
  BY <1>2, NoMembers
<1>4. \A i \in SemIndex : sem'[i] = NoSem /\ sem'[i].count = 0 /\ Debt(i)' = 0
  BY <1>1 DEF NoSem, Debt
<1>5. QED
  BY <1>2, <1>3, <1>4 DEF SemCountMatchesBlocked

(* Every step keeps counters and queues in agreement.                      *)
LEMMA NextCount ==
  ASSUME Inv, SemCountMatchesBlocked, DebtKept, [Next]_vars
  PROVE  SemCountMatchesBlocked'
<1>1. CASE Clock
  BY <1>1, ClockFrame, FrameKeeps
<1>2. CASE sys_yield
  BY <1>2, YieldFrame, FrameKeeps
<1>3. CASE \E result \in ForkResults : sys_fork(result)
  BY <1>3, ForkCount
<1>4. CASE \E result \in {"ok", "EAGAIN", "page_fault"} : sys_threadCreate(result)
  BY <1>4, ThreadCreateFrame, FrameKeeps
<1>5. CASE sys_exit \/ sys_threadExit
  BY <1>5, ExitFrame, FrameKeeps
<1>6. CASE \E value \in SemValues : sys_semCreate(value)
  BY <1>6, SemCreateCount
<1>7. CASE \E semID \in SemIds : UseBeyondArray(semID)
  <2>1. SemFrame
    BY <1>7 DEF UseBeyondArray, schedVars, idVars, SemFrame
  <2>2. QED
    BY <2>1, FrameKeeps
<1>8. CASE \E semID \in SemIds : sys_semWait(semID)
  BY <1>8, SemWaitCount
<1>9. CASE \E semID \in SemIds : sys_semSignal(semID)
  BY <1>9, SemSignalCount
<1>10. CASE \E semID \in SemIds : sys_semDestroy(semID)
  BY <1>10, SemDestroyCount
<1>11. CASE UNCHANGED vars
  <2>1. SemFrame
    BY <1>11 DEF vars, schedVars, idVars, SemFrame
  <2>2. QED
    BY <2>1, FrameKeeps
<1>12. QED
  BY <1>1, <1>2, <1>3, <1>4, <1>5, <1>6, <1>7, <1>8, <1>9, <1>10, <1>11 DEF Next

(* Every step of a living kernel keeps a debt.                             *)
LEMMA NextDebt ==
  ASSUME Inv, SemCountMatchesBlocked, DebtKept, [Next]_vars
  PROVE  DebtKept'
<1> SUFFICES ASSUME fault' = "none", NEW i \in SemIndex, sem'[i].value < 0
             PROVE  sem'[i].count <= sem'[i].value
  BY DEF DebtKept
<1>1. sem \in [SemIndex -> sem_t]
  BY DEF Inv, TypeOK
<1>2. ASSUME sem'[i] = sem[i], fault = "none" PROVE sem'[i].count <= sem'[i].value
  BY <1>2 DEF DebtKept
<1>3. CASE UNCHANGED sem /\ fault = "none"
  BY <1>2, <1>3
<1>4. CASE \E result \in ForkResults : sys_fork(result)
  BY <1>4 DEF sys_fork, NoSem
<1>5. CASE \E value \in SemValues : sys_semCreate(value)
  <2>1. PICK value \in SemValues, k \in SemIndex :
          /\ fault = "none"
          /\ sem' = [sem EXCEPT ![k] = [semid |-> k, count |-> value, PID |-> PID[running],
                                        value |-> value]]
    BY <1>5 DEF sys_semCreate, Syscall
  <2>2. CASE i = k
    BY <1>1, <2>1, <2>2, InputAssumption
  <2>3. CASE i # k
    BY <1>1, <1>2, <2>1, <2>3
  <2>4. QED
    BY <2>2, <2>3
<1>6. CASE \E semID \in SemIds : sys_semWait(semID)
  <2>1. PICK semID \in SemIds : sys_semWait(semID)
    BY <1>6
  <2>2. semID \in SemIndex /\ fault = "none" /\ sem' = [sem EXCEPT ![semID].count = @ - 1]
    BY <2>1 DEF sys_semWait, Syscall, Usable
  <2>3. sem[i].count \in Int /\ sem[i].value \in Int
    BY <1>1 DEF sem_t
  <2>4. /\ sem'[i].value = sem[i].value
        /\ sem'[i].count = sem[i].count \/ sem'[i].count = sem[i].count - 1
    BY <1>1, <2>2 DEF sem_t
  <2>5. QED
    BY <2>2, <2>3, <2>4 DEF DebtKept
<1>7. CASE \E semID \in SemIds : sys_semSignal(semID)
  <2>1. PICK semID \in SemIds : sys_semSignal(semID)
    BY <1>7
  <2>2. /\ semID \in SemIndex /\ fault = "none"
        /\ sem' = [sem EXCEPT ![semID].count = @ + 1]
    BY <2>1 DEF sys_semSignal, Syscall, Usable
  <2>3. sem[semID].count \in Int /\ sem[semID].value \in Int
    BY <1>1, <2>2 DEF sem_t
  <2>4. /\ sem'[semID].value = sem[semID].value
        /\ sem'[semID].count = sem[semID].count + 1
        /\ i # semID => sem'[i] = sem[i]
    BY <1>1, <2>2 DEF sem_t
  <2>5. CASE i # semID
    BY <1>2, <2>2, <2>4, <2>5
  <2>6. CASE i = semID
    <3>1. CASE sem[semID].value < 0 => sem'[semID].count <= sem[semID].value
      BY <2>4, <2>6, <3>1
    <3>2. CASE sem[semID].value < 0 /\ sem'[semID].count = sem[semID].value + 1
      <4>1. sem[semID].count = sem[semID].value /\ Debt(semID) = sem[semID].value
        BY <2>3, <2>4, <3>2 DEF Debt
      <4>2. lists[blocked(semID)] = << >>
        BY <2>2, <2>3, <4>1 DEF SemCountMatchesBlocked
      <4>3. sem[semID].count + 1 <= 0
        BY <2>3, <3>2, <4>1
      <4>4. fault' = "empty_wakeup"
        BY <2>1, <4>2, <4>3 DEF sys_semSignal, MustWake, list_empty
      <4>5. QED
        BY <4>4
    <3>3. QED
      BY <2>1, <3>1, <3>2, SemSignalCount
  <2>7. QED
    BY <2>5, <2>6
<1>8. CASE \E semID \in SemIds : sys_semDestroy(semID)
  <2>1. PICK semID \in SemIndex : fault = "none" /\ sem' = [sem EXCEPT ![semID] = NoSem]
    BY <1>8 DEF sys_semDestroy, Usable, Syscall
  <2>2. CASE i = semID
    BY <1>1, <2>1, <2>2 DEF NoSem
  <2>3. CASE i # semID
    BY <1>1, <1>2, <2>1, <2>3
  <2>4. QED
    BY <2>2, <2>3
<1>9. QED
  BY <1>3, <1>4, <1>5, <1>6, <1>7, <1>8
  DEF Next, Clock, sys_yield, sys_threadCreate, sys_exit, sys_threadExit, UseBeyondArray,
      Syscall, vars

(* Counters and debts over a whole run.                                    *)
LEMMA CountsAndDebts == Spec => [](SemCountMatchesBlocked /\ DebtKept)
<1>1. ASSUME Init PROVE SemCountMatchesBlocked /\ DebtKept
  <2>1. /\ \A i \in SemIndex : lists[blocked(i)] = << >>
        /\ \A i \in SemIndex : /\ sem[i] = NoSem /\ sem[i].count = 0
                                /\ sem[i].value = 0 /\ Debt(i) = 0
    BY <1>1, Heads DEF Init, NoSem, Debt
  <2>2. \A i \in SemIndex : Members(lists, blocked(i)) = {}
    BY <2>1, NoMembers
  <2>3. QED
    BY <2>1, <2>2 DEF SemCountMatchesBlocked, DebtKept
<1>2. /\ Inv /\ SemCountMatchesBlocked /\ DebtKept /\ [Next]_vars
      => (SemCountMatchesBlocked /\ DebtKept)'
  BY NextCount, NextDebt
<1>3. QED
  BY <1>1, <1>2, InvHolds, PTL DEF Spec

(* The counter of a semaphore and the length of its queue agree for ever,  *)
(* however many threads wait, signal, create and destroy, and whatever     *)
(* value a semaphore is created with.                                      *)
THEOREM CountsMatchBlocked == Spec => []SemCountMatchesBlocked
  BY CountsAndDebts, PTL

(* sys_semSignal always finds the thread its comment promises: it takes    *)
(* the list head of an empty queue for a task only when the semaphore was  *)
(* created with a negative value and rises above it.                       *)
THEOREM SignalSafe == Spec => []SignalFindsThread
<1>1. Init => SignalFindsThread
  BY DEF Init, SignalFindsThread
<1>2. ASSUME Inv, SemCountMatchesBlocked, DebtKept, SignalFindsThread, [Next]_vars
      PROVE  SignalFindsThread'
  <2>1. CASE \E semID \in SemIds : sys_semSignal(semID)
    <3>1. PICK semID \in SemIds : sys_semSignal(semID)
      BY <2>1
    <3>2. semID \in SemIndex /\ sem \in [SemIndex -> sem_t]
      BY <1>2, <3>1 DEF sys_semSignal, Usable, Inv, TypeOK
    <3>3. sem'[semID].value = sem[semID].value
      BY <3>1, <3>2 DEF sys_semSignal, sem_t
    <3>4. \/ fault' = "none"
          \/ sem[semID].value < 0 /\ sem'[semID].count = sem[semID].value + 1
      BY <1>2, <3>1, SemSignalCount
    <3>5. QED
      BY <3>2, <3>3, <3>4 DEF SignalFindsThread
  <2>2. CASE UNCHANGED vars
    BY <1>2, <2>2 DEF vars, SignalFindsThread
  <2>3. CASE [Next]_vars /\ ~ (UNCHANGED vars) /\ ~ \E semID \in SemIds : sys_semSignal(semID)
    BY <1>2, <2>3
    DEF Next, Clock, sys_yield, sys_fork, sys_threadCreate, sys_exit, sys_threadExit,
        sys_semCreate, UseBeyondArray, sys_semWait, sys_semDestroy, sched_next_rr, task_switch,
        SwitchResults, SignalFindsThread, Syscall
  <2>4. QED
    BY <1>2, <2>1, <2>2, <2>3
<1>3. QED
  BY <1>1, <1>2, InvHolds, CountsAndDebts, PTL DEF Spec
-----------------------------------------------------------------------------
(* Who ran or hung from a list runs or hangs from a list.                  *)
TasksKept == (Linked \cup {running}) \ {idle_task} \subseteq Linked' \cup {running'}

(* A task switch loses nobody.                                             *)
LEMMA SwitchLosesNone ==
  ASSUME Inv, running # idle_task,
         NEW home \in ListHead,
         NEW L, Disciplined(L, ListHead, Task),
         \A h \in ListHead : Members(L, h) =
            IF h = home THEN Members(lists, h) \cup {running} ELSE Members(lists, h),
         NEW st \in [Task -> state_t], NEW path \in Context,
         sched_next_rr(L, st, path)
  PROVE  /\ TasksKept
         /\ \A t \in Task : state'[t] = st[t] \/ state'[t] = "ST_RUN"
<1>1. TypeOK /\ \A h \in ListHead : idle_task \notin Members(L, h)
  BY DisciplineOfInv DEF Inv
<1>2. /\ \A h \in ListHead : Members(lists', h) = Members(L, h) \ {running'}
      /\ state' = [st EXCEPT ![running'] = "ST_RUN"]
  BY <1>1, SchedNext
<1>3. QED
  BY <1>2, LinkedMembers DEF TasksKept

(* The clock, and the calls that give the processor away.                  *)
LEMMA GiveAway ==
  ASSUME Inv, Clock \/ sys_yield \/ sys_exit \/ sys_threadExit
              \/ \E semID \in SemIds : sys_semWait(semID)
  PROVE  /\ TasksKept
         /\ \A t \in Task : state[t] = "ST_BLOCKED" => state'[t] # "ST_READY"
<1> USE Heads
<1>1. /\ running \in Task /\ state \in [Task -> state_t] /\ state[running] = "ST_RUN"
      /\ {"clock", "yield", "exit", "sem"} \subseteq Context
  BY DEF Inv, TypeOK, StateMatchesQueue, Context
<1>2. ASSUME NEW path \in Context, sched_next_rr(ReadyLists, ReadyStates, path),
             running # idle_task
      PROVE  TasksKept /\ \A t \in Task : state[t] = "ST_BLOCKED" => state'[t] # "ST_READY"
  <2>1. /\ Disciplined(ReadyLists, ListHead, Task)
        /\ \A h \in ListHead : Members(ReadyLists, h) =
              IF h = readyqueue THEN Members(lists, h) \cup {running} ELSE Members(lists, h)
        /\ ReadyStates \in [Task -> state_t]
        /\ \A t \in Task : t # running => ReadyStates[t] = state[t]
    BY ReadyListsMembers
  <2>2. TasksKept /\ \A t \in Task : state'[t] = ReadyStates[t] \/ state'[t] = "ST_RUN"
    BY <1>2, <2>1, SwitchLosesNone
  <2>3. QED
    BY <1>1, <2>1, <2>2
<1>3. CASE sys_yield
  BY <1>1, <1>2, <1>3 DEF sys_yield, Syscall
<1>4. CASE Clock
  <2>1. ~ list_empty(lists, readyqueue) => running # idle_task
    BY DisciplineOfInv, EmptyMembers DEF Inv, IdleOnlyWhenNothingReady, Ready
  <2>2. CASE UNCHANGED << lists, running, state >>
    BY <1>1, <2>2 DEF TasksKept, Linked, Ready, Free, Blocked
  <2>3. CASE sched_next_rr(ReadyLists, ReadyStates, "clock") /\ ~ list_empty(lists, readyqueue)
    BY <1>1, <1>2, <2>1, <2>3
  <2>4. QED
    BY <1>4, <2>2, <2>3 DEF Clock, needs_sched_rr
<1>5. CASE sys_exit \/ sys_threadExit
  <2>1. sched_next_rr(ExitLists, state, "exit") /\ running # idle_task
    BY <1>5 DEF sys_exit, sys_threadExit, Syscall
  <2>2. TasksKept /\ \A t \in Task : state'[t] = state[t] \/ state'[t] = "ST_RUN"
    BY <1>1, <2>1, ExitListsMembers, SwitchLosesNone
  <2>3. QED
    BY <2>2
<1>6. CASE \E semID \in SemIds : sys_semWait(semID)
  <2>1. PICK semID \in SemIds : sys_semWait(semID)
    BY <1>6
  <2> DEFINE L == BlockLists(semID)
             st == [state EXCEPT ![running] = "ST_BLOCKED"]
  <2>2. running # idle_task /\ semID \in SemIndex
    BY <2>1 DEF sys_semWait, Syscall, Usable
  <2>3. CASE sched_next_rr(L, st, "sem")
    <3>1. st \in [Task -> state_t] /\ \A t \in Task : st[t] = state[t] \/ st[t] = "ST_BLOCKED"
      BY <1>1 DEF state_t
    <3>2. /\ Disciplined(L, ListHead, Task)
          /\ \A h \in ListHead : Members(L, h) =
                IF h = blocked(semID) THEN Members(lists, h) \cup {running} ELSE Members(lists, h)
      BY <1>1, <2>2, DisciplineOfInv, ListAdd DEF BlockLists
    <3> HIDE DEF L, st
    <3>3. blocked(semID) \in ListHead
      BY <2>2
    <3>4. TasksKept /\ \A t \in Task : state'[t] = st[t] \/ state'[t] = "ST_RUN"
      BY <1>1, <2>2, <2>3, <3>1, <3>2, <3>3, SwitchLosesNone
    <3>5. QED
      BY <3>1, <3>4
  <2>4. CASE UNCHANGED schedVars
    BY <2>4 DEF schedVars, TasksKept, Linked, Ready, Free, Blocked
  <2>5. QED
    BY <2>1, <2>3, <2>4 DEF sys_semWait
<1>7. QED
  BY <1>3, <1>4, <1>5, <1>6

(* sys_fork and sys_threadCreate move one task, which is not blocked.      *)
LEMMA CreateKeepsTasks ==
  ASSUME Inv, NEW result, sys_fork(result) \/ sys_threadCreate(result)
  PROVE  /\ \A t \in Linked \cup {running} :
               \/ t \in Linked' \cup {running'}
               \/ t \in Blocked /\ \A i \in SemIndex : sem'[i] = NoSem
               \/ fault' = "page_fault"
         /\ \A t \in Task : state[t] = "ST_BLOCKED" => state'[t] # "ST_READY"
<1> USE Heads
<1> DEFINE child == FreeTask
           L == list_del_first(lists, freequeue)
<1>1. ~ list_empty(lists, freequeue) /\ running' = running
  BY DEF sys_fork, sys_threadCreate
<1>2. /\ Disciplined(L, ListHead, Task)
      /\ child \in Task /\ child \in Members(lists, freequeue)
      /\ \A h \in ListHead : Members(L, h) = Members(lists, h) \ {child}
  BY <1>1, DisciplineOfInv, ListDelFirst DEF FreeTask
<1>3. state \in [Task -> state_t] /\ state[child] # "ST_BLOCKED"
  BY <1>2 DEF Inv, TypeOK, StateMatchesQueue, Free
<1>4. \A t \in Task : t # child => state'[t] = state[t]
  BY <1>2, <1>3 DEF sys_fork, sys_threadCreate
<1>5. ASSUME NEW M, Disciplined(M, ListHead, Task),
             \A h \in ListHead : child \notin Members(M, h),
             NEW h \in {freequeue, readyqueue}, lists' = list_add_tail(M, child, h)
      PROVE  \A g \in ListHead : Members(lists', g) =
                IF g = h THEN Members(M, g) \cup {child} ELSE Members(M, g)
  BY <1>2, <1>5, ListAddTail
<1>6. CASE sys_fork(result)
  <2>1. /\ Disciplined(ForkLists, ListHead, Task)
        /\ \A h \in ListHead : Members(ForkLists, h) = IF h \in SemIndex THEN {} ELSE Members(L, h)
    BY <1>2, InitListHead DEF ForkLists
  <2>2. \A i \in SemIndex : sem'[i] = NoSem
    BY <1>6 DEF sys_fork
  <2>3. \/ fault' = "page_fault"
        \/ \E h \in {freequeue, readyqueue} : lists' = list_add_tail(ForkLists, child, h)
    BY <1>6 DEF sys_fork
  <2>4. \A t \in Linked : t \in Linked' \/ t \in Blocked \/ fault' = "page_fault"
    <3>1. SUFFICES ASSUME NEW h \in {freequeue, readyqueue},
                          lists' = list_add_tail(ForkLists, child, h),
                          NEW t \in Linked, t \notin Blocked
                   PROVE  t \in Linked'
      BY <2>3
    <3>2. \A g \in ListHead : Members(lists', g) =
             IF g = h THEN Members(ForkLists, g) \cup {child} ELSE Members(ForkLists, g)
      BY <1>2, <1>5, <2>1, <3>1
    <3>3. t \in Members(lists, freequeue) \/ t \in Members(lists, readyqueue)
      BY <3>1 DEF Linked, Ready, Free
    <3>4. QED
      BY <1>2, <2>1, <3>2, <3>3, LinkedMembers
  <2>5. QED
    BY <1>1, <1>3, <1>4, <2>2, <2>4
<1>7. CASE sys_threadCreate(result)
  <2>1. \/ fault' = "page_fault"
        \/ \E h \in {freequeue, readyqueue} : lists' = list_add_tail(L, child, h)
    BY <1>7 DEF sys_threadCreate
  <2>2. \A t \in Linked : t \in Linked' \/ fault' = "page_fault"
    <3>1. SUFFICES ASSUME NEW h \in {freequeue, readyqueue},
                          lists' = list_add_tail(L, child, h),
                          NEW t \in Linked
                   PROVE  t \in Linked'
      BY <2>1
    <3>2. \A g \in ListHead : Members(lists', g) =
             IF g = h THEN Members(L, g) \cup {child} ELSE Members(L, g)
      BY <1>2, <1>5, <3>1
    <3>3. QED
      BY <1>2, <3>2, LinkedMembers
  <2>3. QED
    BY <1>1, <1>3, <1>4, <2>2
<1>8. QED
  BY <1>6, <1>7

(* The calls on semaphores that keep the processor: who is woken is a      *)
(* thread of the same process.                                             *)
LEMMA SemCallKeepsTasks ==
  ASSUME Inv, SemCountMatchesBlocked,
         \/ \E value \in SemValues : sys_semCreate(value)
         \/ \E semID \in SemIds : \/ UseBeyondArray(semID)
                                  \/ sys_semSignal(semID)
                                  \/ sys_semDestroy(semID)
  PROVE  /\ TasksKept
         /\ \A t \in Task : state[t] = "ST_BLOCKED" /\ state'[t] = "ST_READY"
                               => PID[t] = PID[running]
<1> USE Heads
<1>1. /\ Disciplined(lists, ListHead, Task)
      /\ lists \in [ListHead -> Seq(Task)]
      /\ state \in [Task -> state_t]
  BY DisciplineOfInv DEF Inv, TypeOK
<1>2. CASE \E value \in SemValues : sys_semCreate(value)
  <2>1. PICK i \in SemIndex : sem[i].semid = -1 /\ lists' = INIT_LIST_HEAD(lists, {blocked(i)})
    BY <1>2 DEF sys_semCreate
  <2>2. UNCHANGED << running, state >>
    BY <1>2 DEF sys_semCreate
  <2>3. lists[blocked(i)] = << >>
    <3>1. sem[i] = NoSem
      BY <2>1 DEF SemCountMatchesBlocked, SemIndex
    <3>2. sem[i].count >= Debt(i)
      BY <3>1 DEF NoSem, Debt
    <3>3. QED
      BY <3>2 DEF SemCountMatchesBlocked
  <2>4. Members(lists, blocked(i)) = {}
    BY <2>3, NoMembers
  <2>5. \A g \in ListHead : Members(lists', g) = IF g \in {blocked(i)} THEN {} ELSE Members(lists, g)
    BY <1>1, <2>1, InitListHead
  <2>6. QED
    BY <2>2, <2>4, <2>5, LinkedMembers DEF TasksKept
<1>3. CASE \E semID \in SemIds : UseBeyondArray(semID)
  BY <1>3 DEF UseBeyondArray, schedVars, TasksKept, Linked, Ready, Free, Blocked
<1>4. CASE \E semID \in SemIds : sys_semSignal(semID)
  <2>1. PICK semID \in SemIds : sys_semSignal(semID)
    BY <1>4
  <2>2. /\ running' = running /\ semID \in SemIndex /\ sem[semID].PID = PID[running]
    BY <2>1 DEF sys_semSignal, Usable
  <2>3. CASE UNCHANGED << lists, state >>
    BY <2>2, <2>3 DEF TasksKept, Linked, Ready, Free, Blocked
  <2>4. CASE ~ list_empty(lists, blocked(semID)) /\ ~ UNCHANGED << lists, state >>
    <3> DEFINE l == list_first(lists, blocked(semID))
               L == list_del_first(lists, blocked(semID))
    <3>1. lists' = list_add(L, l, readyqueue) /\ state' = [state EXCEPT ![l] = "ST_READY"]
      BY <2>1, <2>4 DEF sys_semSignal
    <3>2. /\ Disciplined(L, ListHead, Task)
          /\ l \in Task /\ l \in Members(lists, blocked(semID))
          /\ \A h \in ListHead : l \notin Members(L, h)
          /\ \A h \in ListHead : Members(L, h) = Members(lists, h) \ {l}
      BY <1>1, <2>2, <2>4, ListDelFirst
    <3> HIDE DEF l, L
    <3>3. \A g \in ListHead : Members(lists', g) =
             IF g = readyqueue THEN Members(L, g) \cup {l} ELSE Members(L, g)
      BY <3>1, <3>2, ListAdd
    <3>4. PID[l] = PID[running]
      BY <2>2, <3>2 DEF SemCountMatchesBlocked
    <3>5. \A t \in Task : t # l => state'[t] = state[t]
      BY <1>1, <3>1
    <3>6. QED
      BY <2>2, <3>2, <3>3, <3>4, <3>5, LinkedMembers DEF TasksKept
  <2>5. QED
    BY <2>1, <2>3, <2>4 DEF sys_semSignal
<1>5. CASE \E semID \in SemIds : sys_semDestroy(semID)
  <2>1. PICK semID \in SemIds : sys_semDestroy(semID)
    BY <1>5
  <2>2. /\ running' = running /\ semID \in SemIndex /\ sem[semID].PID = PID[running]
        /\ lists' = list_move_all(lists, blocked(semID), readyqueue)
        /\ \A t \in Task : t \notin Members(lists, blocked(semID)) => state'[t] = state[t]
    BY <2>1 DEF sys_semDestroy, Usable
  <2> DEFINE M == list_move_all(lists, blocked(semID), readyqueue)
  <2>3. blocked(semID) \in ListHead /\ blocked(semID) # readyqueue
    BY <2>2
  <2>4. \A g \in ListHead : Members(M, g) =
           IF g = blocked(semID) THEN {}
           ELSE IF g = readyqueue THEN Members(lists, readyqueue) \cup Members(lists, blocked(semID))
           ELSE Members(lists, g)
    BY ONLY <1>1, <2>3, Heads, ListMoveAll, SMTT(20)
  <2>5. lists' = M
    BY <2>2
  <2> HIDE DEF M
  <2>6. \A t \in Members(lists, blocked(semID)) : PID[t] = PID[running]
    BY <2>2 DEF SemCountMatchesBlocked
  <2>7. QED
    BY <2>2, <2>3, <2>4, <2>5, <2>6, LinkedMembers DEF TasksKept
<1>6. QED
  BY <1>2, <1>3, <1>4, <1>5

(* One step of the kernel.                                                 *)
LEMMA StepKeepsTasks ==
  ASSUME Inv, SemCountMatchesBlocked, [Next]_vars
  PROVE  /\ \A t \in (Linked \cup {running}) \ {idle_task} :
               \/ t \in Linked' \cup {running'}
               \/ t \in Blocked /\ \A i \in SemIndex : sem'[i] = NoSem
               \/ fault' = "page_fault"
         /\ \A t \in Task : state[t] = "ST_BLOCKED" /\ state'[t] = "ST_READY"
                               => PID[t] = PID[running]
<1>1. CASE Clock \/ sys_yield \/ sys_exit \/ sys_threadExit
           \/ \E semID \in SemIds : sys_semWait(semID)
  <2>1. TasksKept /\ \A t \in Task : state[t] = "ST_BLOCKED" => state'[t] # "ST_READY"
    BY <1>1, GiveAway
  <2>2. QED
    BY <2>1 DEF TasksKept
<1>2. CASE \/ \E result \in ForkResults : sys_fork(result)
           \/ \E result \in {"ok", "EAGAIN", "page_fault"} : sys_threadCreate(result)
  <2>1. PICK result : sys_fork(result) \/ sys_threadCreate(result)
    BY <1>2
  <2>2. QED
    BY <2>1, CreateKeepsTasks
<1>3. CASE \/ \E value \in SemValues : sys_semCreate(value)
           \/ \E semID \in SemIds : \/ UseBeyondArray(semID)
                                    \/ sys_semSignal(semID)
                                    \/ sys_semDestroy(semID)
  <2>1. /\ TasksKept
        /\ \A t \in Task : state[t] = "ST_BLOCKED" /\ state'[t] = "ST_READY"
                              => PID[t] = PID[running]
    BY <1>3, SemCallKeepsTasks
  <2>2. QED
    BY <2>1 DEF TasksKept
<1>4. CASE UNCHANGED vars
  BY <1>4 DEF vars, schedVars, Linked, Ready, Free, Blocked
<1>5. QED
  BY <1>1, <1>2, <1>3, <1>4 DEF Next

(* No step loses a task: who ran or hung from a list still does, except    *)
(* the threads blocked when sys_fork re-initializes the semaphores and a   *)
(* crash while a task is created.                                          *)
THEOREM NobodyLost == Spec => NoTaskLost
<1> DEFINE A == \A t \in (Linked \cup {running}) \ {idle_task} :
                   \/ t \in Linked' \cup {running'}
                   \/ t \in Blocked /\ \A i \in SemIndex : sem'[i] = NoSem
                   \/ fault' = "page_fault"
<1>1. Inv /\ SemCountMatchesBlocked /\ [Next]_vars => [A]_vars
  BY StepKeepsTasks
<1>2. QED
  BY <1>1, InvHolds, CountsMatchBlocked, PTL DEF Spec, NoTaskLost

(* A thread that waits for a semaphore is only ever made ready by a thread *)
(* of its own process.                                                     *)
THEOREM OwnProcessWakes == Spec => WokenByOwnProcess
<1> DEFINE A == \A t \in Task : state[t] = "ST_BLOCKED" /\ state'[t] = "ST_READY"
                                   => PID[t] = PID[running]
<1>1. Inv /\ SemCountMatchesBlocked /\ [Next]_vars => [A]_vars
  BY StepKeepsTasks
<1>2. QED
  BY <1>1, InvHolds, CountsMatchBlocked, PTL DEF Spec, WokenByOwnProcess
=============================================================================
