--------------------------- MODULE KeyboardProofs ---------------------------
(***************************************************************************)
(* The indices of the keyboard ring stay inside the array and agree with   *)
(* the counter, for every size of the ring and every width of the counter  *)
(* that is a multiple of it, and the ring implements the queue of KeyQueue. *)
(***************************************************************************)
EXTENDS Keyboard, BasicFacts, SequenceTheorems

-----------------------------------------------------------------------------
Inv == TypeOK /\ IndicesAgree

(* The constants, as the lemmas on remainders want them.                           *)
LEMMA Sizes ==
  /\ CBUFFER_SIZE \in Nat \ {0}
  /\ COUNTER_RANGE \in Nat \ {0}
  /\ COUNTER_RANGE % CBUFFER_SIZE = 0
  BY SizeAssumption, RangeAssumption

(* The empty ring satisfies the invariant.                                 *)
LEMMA InitInv == Init => Inv
<1> SUFFICES ASSUME Init PROVE Inv
  OBVIOUS
<1>1. 0 \in Place
  BY Sizes DEF Place
<1>2. (0 + 0) % CBUFFER_SIZE = 0
  BY Sizes
<1> QED
  BY <1>1, <1>2, Sizes DEF Init, Inv, TypeOK, IndicesAgree, Chars

(* A character written is one of the map; the place and the count stay in  *)
(* range.                                                                  *)
LEMMA KeyboardInv ==
  ASSUME Inv, NEW c \in Scancodes, keyboard_routine(c), c - 128 \in DOMAIN char_map
  PROVE Inv'
<1> USE DEF Inv, keyboard_routine, NextPlace, Unsigned
<1>1. rpointer \in Int /\ wpointer \in Int /\ Bwritten \in Int
  BY Sizes DEF TypeOK, Place
<1>2. wpointer' \in Place
  BY <1>1, ModRange, Sizes DEF Place
<1>3. Bwritten' \in 0 .. COUNTER_RANGE - 1
  BY <1>1, ModRange, Sizes
<1>4. char_map[c - 128] \in Chars
  BY DEF Chars, Range
<1>5. buffer' \in [Place -> Chars]
  BY <1>4 DEF TypeOK
<1>6. overrun' \in BOOLEAN
  OBVIOUS
<1>7. TypeOK'
  BY <1>2, <1>3, <1>5, <1>6 DEF TypeOK
<1>8. wpointer' = (rpointer' + Bwritten') % CBUFFER_SIZE
  <2>1. (wpointer + 1) % CBUFFER_SIZE = ((rpointer + Bwritten) + 1) % CBUFFER_SIZE
    <3>1. wpointer = (rpointer + Bwritten) % CBUFFER_SIZE /\ rpointer + Bwritten \in Int
      BY <1>1 DEF IndicesAgree
    <3>2. 1 \in Int
      OBVIOUS
    <3> QED
      BY ONLY <3>1, <3>2, Sizes, ModSum
  <2>2. (rpointer + Bwritten) + 1 = rpointer + (Bwritten + 1)
    BY <1>1
  <2>3. (rpointer + Bwritten') % CBUFFER_SIZE = (rpointer + (Bwritten + 1)) % CBUFFER_SIZE
    <3>1. /\ Bwritten' = (Bwritten + 1) % COUNTER_RANGE
          /\ Bwritten + 1 \in Int
          /\ Bwritten' \in Int
          /\ rpointer \in Int
      BY <1>1, <1>3
    <3> QED
      BY ONLY <3>1, Sizes, ModCounter
  <2> QED
    BY <2>1, <2>2, <2>3
<1> QED
  BY <1>7, <1>8 DEF IndicesAgree

(* Taking a key moves the read index and the counter together.             *)
LEMMA GetKeyInv ==
  ASSUME Inv, sys_getKey
  PROVE Inv'
<1> USE DEF Inv
<1>1. rpointer \in Int /\ wpointer \in Place /\ Bwritten \in Int
  BY Sizes DEF TypeOK, Place
<1>2. CASE Bwritten = 0
  BY <1>2 DEF sys_getKey, TypeOK, IndicesAgree
<1>3. CASE Bwritten # 0
  <2> USE <1>3 DEF sys_getKey, NextPlace, Unsigned
  <2>1. rpointer' \in Place
    BY <1>1, ModRange, Sizes DEF Place
  <2>2. Bwritten' \in 0 .. COUNTER_RANGE - 1
    BY <1>1, ModRange, Sizes
  <2>3. delivered' \in {<< key >> : key \in Chars}
    BY DEF TypeOK
  <2>4. overrun' \in BOOLEAN
    OBVIOUS
  <2>5. TypeOK'
    BY <2>1, <2>2, <2>3, <2>4 DEF TypeOK
  <2>6. (rpointer' + Bwritten') % CBUFFER_SIZE = wpointer
    <3>1. /\ rpointer' = (rpointer + 1) % CBUFFER_SIZE
          /\ Bwritten' = (Bwritten - 1) % COUNTER_RANGE
          /\ rpointer + 1 \in Int
          /\ Bwritten - 1 \in Int
          /\ Bwritten' \in Int
      BY <1>1, <2>2
    <3>2. (rpointer' + Bwritten') % CBUFFER_SIZE = ((rpointer + 1) + Bwritten') % CBUFFER_SIZE
      BY ONLY <3>1, Sizes, ModSum
    <3>3. ((rpointer + 1) + Bwritten') % CBUFFER_SIZE
          = ((rpointer + 1) + (Bwritten - 1)) % CBUFFER_SIZE
      BY ONLY <3>1, Sizes, ModCounter
    <3>4. (rpointer + 1) + (Bwritten - 1) = rpointer + Bwritten
      BY <1>1
    <3> QED
      BY <3>2, <3>3, <3>4 DEF IndicesAgree
  <2> QED
    BY <2>5, <2>6 DEF IndicesAgree
<1> QED
  BY <1>2, <1>3

(* Inductive.                                                              *)
LEMMA NextInv == Inv /\ [Next]_vars => Inv'
<1> SUFFICES ASSUME Inv, [Next]_vars PROVE Inv'
  OBVIOUS
<1>1. ASSUME NEW c \in Scancodes, keyboard_routine(c) PROVE Inv'
  <2>1. c - 128 \in DOMAIN char_map
    BY <1>1, ScancodeAssumption DEF keyboard_routine
  <2> QED
    BY <1>1, <2>1, KeyboardInv
<1>2. CASE sys_getKey
  BY <1>2, GetKeyInv
<1>3. CASE UNCHANGED vars
  BY <1>3 DEF vars, Inv, TypeOK, IndicesAgree
<1> QED
  BY <1>1, <1>2, <1>3 DEF Next

(* Both indices stay inside the array, whatever is typed and read.         *)
THEOREM TypeCorrect == Spec => []TypeOK
<1>1. Inv => TypeOK
  BY DEF Inv
<1> QED
  BY <1>1, InitInv, NextInv, PTL DEF Spec

(* The counter of keyboard_routine and sys_getKey agrees with the two      *)
(* indices for ever, overruns and wrap-round of the counter included.      *)
THEOREM IndicesAlwaysAgree == Spec => []IndicesAgree
<1>1. Inv => IndicesAgree
  BY DEF Inv
<1> QED
  BY <1>1, InitInv, NextInv, PTL DEF Spec
-----------------------------------------------------------------------------
(* The ring implements the queue of module KeyQueue.  Until an overrun the *)
(* counter is no more than the size, and after one it is not zero.         *)
QInv ==
  /\ Inv
  /\ ~ overrun => Bwritten <= CBUFFER_SIZE
  /\ overrun => Bwritten # 0

Ring(n) == n % CBUFFER_SIZE
Waiting == [i \in 1 .. Bwritten |-> buffer[Ring(rpointer + i - 1)]]

(* An index is a place of the ring, and adding before or after the         *)
(* remainder is taken makes no difference.                                 *)
LEMMA RingFacts ==
  ASSUME NEW a \in Int, NEW b \in Int
  PROVE  /\ Ring(a) \in Place
         /\ Ring(Ring(a) + b) = Ring(a + b)
<1>1. Ring(a) \in Place
  BY ModRange, Sizes DEF Ring, Place
<1>2. ((a % CBUFFER_SIZE) + b) % CBUFFER_SIZE = (a + b) % CBUFFER_SIZE
  BY Sizes, ModSumBoth, Zenon
<1>3. QED
  BY <1>1, <1>2, Zenon DEF Ring

(* Places less than a round apart are different.                           *)
LEMMA RingApart ==
  ASSUME NEW a \in Int, NEW b \in Int, a < b, b < a + CBUFFER_SIZE
  PROVE  Ring(a) # Ring(b)
<1>1. PICK p \in Int : a = p * CBUFFER_SIZE + (a % CBUFFER_SIZE)
  BY Sizes, ModQuotient, Zenon
<1>2. PICK q \in Int : b = q * CBUFFER_SIZE + (b % CBUFFER_SIZE)
  BY Sizes, ModQuotient, Zenon
<1>3. SUFFICES ASSUME a % CBUFFER_SIZE = b % CBUFFER_SIZE
               PROVE  FALSE
  BY DEF Ring
<1>4. PICK r \in Int : r = a % CBUFFER_SIZE
  BY Sizes, ModRange
<1>5. a = p * CBUFFER_SIZE + r /\ b = q * CBUFFER_SIZE + r
  BY <1>1, <1>2, <1>3, <1>4, Zenon
<1>6. b - a = (q - p) * CBUFFER_SIZE
  BY ONLY <1>5, Sizes, p \in Int, q \in Int, r \in Int
<1>7. PICK k \in Int : k = q - p
  OBVIOUS
<1>8. k * CBUFFER_SIZE = b - a
  BY <1>6, <1>7, Zenon
<1>9. 0 < k * CBUFFER_SIZE /\ k * CBUFFER_SIZE < CBUFFER_SIZE
  BY <1>8, Sizes
<1>10. QED
  <2>1. k <= 0 => k * CBUFFER_SIZE <= 0
    BY ONLY Sizes, k \in Int
  <2>2. k >= 1 => k * CBUFFER_SIZE >= CBUFFER_SIZE
    BY ONLY Sizes, k \in Int
  <2>3. k * CBUFFER_SIZE \in Int /\ CBUFFER_SIZE \in Int
    BY Sizes
  <2>4. QED
    BY <1>9, <2>1, <2>2, <2>3

(* The counter does not wrap unless it is at the end of its range.         *)
LEMMA Counting ==
  ASSUME NEW n \in 0 .. COUNTER_RANGE - 1
  PROVE  /\ Unsigned(n + 1) = IF n + 1 = COUNTER_RANGE THEN 0 ELSE n + 1
         /\ n # 0 => Unsigned(n - 1) = n - 1
<1>1. n \in Int /\ COUNTER_RANGE \in Nat \ {0}
  BY Sizes
<1>2. ASSUME NEW m \in 0 .. COUNTER_RANGE - 1 PROVE m % COUNTER_RANGE = m
  BY <1>1
<1>3. COUNTER_RANGE % COUNTER_RANGE = 0
  BY <1>1
<1>4. n + 1 # COUNTER_RANGE => n + 1 \in 0 .. COUNTER_RANGE - 1
  BY <1>1
<1>5. n # 0 => n - 1 \in 0 .. COUNTER_RANGE - 1
  BY <1>1
<1>6. QED
  BY <1>2, <1>3, <1>4, <1>5 DEF Unsigned

(* As long as the indices agree, the keys that wait are the places from    *)
(* the read index on, in order.                                            *)
LEMMA WaitingSeq ==
  ASSUME Inv
  PROVE  /\ Bwritten \in Nat /\ rpointer \in Int /\ CBUFFER_SIZE \in Nat
         /\ Waiting \in Seq(Chars) /\ Len(Waiting) = Bwritten
         /\ \A i \in 1 .. Bwritten : Waiting[i] = buffer[Ring(rpointer + i - 1)]
<1>1. Bwritten \in Nat /\ rpointer \in Int /\ CBUFFER_SIZE \in Nat
  BY Sizes DEF Inv, TypeOK, Place
<1>2. \A i \in 1 .. Bwritten : buffer[Ring(rpointer + i - 1)] \in Chars
  <2>1. SUFFICES ASSUME NEW i \in 1 .. Bwritten PROVE Ring(rpointer + i - 1) \in Place
    BY DEF Inv, TypeOK
  <2>2. rpointer + i - 1 \in Int
    BY <1>1
  <2>3. QED
    BY <2>2, RingFacts
<1>3. QED
  BY <1>1, <1>2 DEF Waiting

(* The empty ring has not been overrun.                                    *)
LEMMA QInitInv == Init => QInv
  BY InitInv, Sizes DEF QInv, Init

(* Every step keeps what the refinement needs: without an overrun the      *)
(* counter is at most the size of the ring.                                *)
LEMMA QNextInv ==
  ASSUME QInv, [Next]_vars
  PROVE  QInv'
<1>1. Inv' /\ Inv
  BY NextInv DEF QInv
<1>2. Bwritten \in Int /\ Bwritten' \in Int /\ CBUFFER_SIZE \in Int
  BY <1>1, Sizes DEF Inv, TypeOK
<1>3. CASE \E c \in Scancodes : keyboard_routine(c)
  <2>1. overrun' = (Bwritten' # 0 /\ (overrun \/ Bwritten' > CBUFFER_SIZE))
    BY <1>3 DEF keyboard_routine
  <2>2. (Bwritten' > CBUFFER_SIZE \/ Bwritten' <= CBUFFER_SIZE)
        /\ (Bwritten' = 0 => Bwritten' <= CBUFFER_SIZE)
    BY <1>2, Sizes
  <2>3. QED
    BY <1>1, <2>1, <2>2, Zenon DEF QInv
<1>4. CASE sys_getKey
  <2>1. CASE Bwritten = 0
    BY <1>1, <1>4, <2>1 DEF QInv, sys_getKey
  <2>2. CASE Bwritten # 0
    <3>1. Bwritten' = Bwritten - 1
      BY <1>1, <1>4, <2>2, Counting DEF sys_getKey, Inv, TypeOK
    <3>2. overrun' = (overrun /\ Bwritten' # 0)
      BY <1>4, <2>2 DEF sys_getKey
    <3>3. /\ Bwritten <= CBUFFER_SIZE => Bwritten' <= CBUFFER_SIZE
          /\ Bwritten' = 0 => Bwritten' <= CBUFFER_SIZE
      BY <1>2, <3>1, Sizes
    <3>4. QED
      BY <1>1, <3>2, <3>3, Zenon DEF QInv
  <2>3. QED
    BY <2>1, <2>2
<1>5. CASE UNCHANGED vars
  BY <1>1, <1>5 DEF vars, QInv
<1>6. QED
  BY <1>3, <1>4, <1>5 DEF Next

(* The queue and the number of unknown keys, as the mapping has them.      *)
Queue == IF overrun THEN << >>
         ELSE [i \in 1 .. Bwritten |-> buffer[(rpointer + i - 1) % CBUFFER_SIZE]]
Unknown == IF overrun THEN Bwritten ELSE 0

(* A key that fits is appended: its place is none of those that are read   *)
(* before it.                                                              *)
LEMMA KeyAppended ==
  ASSUME QInv, Inv', NEW c \in Scancodes, keyboard_routine(c), Bwritten < CBUFFER_SIZE,
         Bwritten' = Bwritten + 1
  PROVE  Waiting' = Append(Waiting, char_map[c - 128])
<1> DEFINE key == char_map[c - 128]
<1>1. /\ Bwritten \in Nat /\ rpointer \in Int /\ CBUFFER_SIZE \in Nat
      /\ Waiting \in Seq(Chars) /\ Len(Waiting) = Bwritten
      /\ \A i \in 1 .. Bwritten : Waiting[i] = buffer[Ring(rpointer + i - 1)]
  BY WaitingSeq DEF QInv
<1>2. key \in Chars
  BY ScancodeAssumption DEF Chars, Range, keyboard_routine
<1>3. /\ rpointer' = rpointer /\ buffer' = [buffer EXCEPT ![wpointer] = key]
      /\ buffer \in [Place -> Chars] /\ wpointer \in Place
  BY DEF keyboard_routine, QInv, Inv, TypeOK
<1>4. wpointer = Ring(rpointer + Bwritten)
  BY DEF QInv, Inv, IndicesAgree, Ring
<1>5. Waiting' = [i \in 1 .. Bwritten + 1 |-> buffer'[Ring(rpointer + i - 1)]]
  BY <1>3 DEF Waiting, Ring
<1> HIDE DEF key
<1>6. ASSUME NEW i \in 1 .. Bwritten
      PROVE  buffer'[Ring(rpointer + i - 1)] = Waiting[i]
  <2>1. /\ rpointer + i - 1 \in Int /\ rpointer + Bwritten \in Int
        /\ rpointer + i - 1 < rpointer + Bwritten
        /\ rpointer + Bwritten < (rpointer + i - 1) + CBUFFER_SIZE
    BY <1>1
  <2>2. Ring(rpointer + i - 1) # wpointer /\ Ring(rpointer + i - 1) \in Place
    BY <1>4, <2>1, RingApart, RingFacts
  <2>3. QED
    BY <1>1, <1>3, <2>2
<1>7. buffer'[Ring(rpointer + (Bwritten + 1) - 1)] = key
  <2>1. rpointer + (Bwritten + 1) - 1 = rpointer + Bwritten
    BY <1>1
  <2>2. QED
    BY <1>3, <1>4, <2>1
<1>8. Waiting' = [i \in 1 .. Len(Waiting) + 1 |-> IF i <= Len(Waiting) THEN Waiting[i] ELSE key]
  <2>1. SUFFICES ASSUME NEW i \in 1 .. Bwritten + 1
                 PROVE  buffer'[Ring(rpointer + i - 1)] = IF i <= Bwritten THEN Waiting[i] ELSE key
    BY <1>1, <1>5
  <2>2. CASE i <= Bwritten
    BY <1>1, <1>6, <2>2
  <2>3. CASE i = Bwritten + 1
    BY <1>1, <1>7, <2>3
  <2>4. QED
    BY <1>1, <2>2, <2>3
<1>9. Append(Waiting, key)
        = [i \in 1 .. Len(Waiting) + 1 |-> IF i <= Len(Waiting) THEN Waiting[i] ELSE key]
  <2>1. /\ Append(Waiting, key) \in Seq(Chars)
        /\ Len(Append(Waiting, key)) = Len(Waiting) + 1
        /\ \A i \in 1 .. Len(Waiting) : Append(Waiting, key)[i] = Waiting[i]
        /\ Append(Waiting, key)[Len(Waiting) + 1] = key
    BY <1>1, <1>2, AppendProperties
  <2>2. Append(Waiting, key) = [i \in 1 .. Len(Waiting) + 1 |-> Append(Waiting, key)[i]]
    BY <2>1, LenProperties
  <2>3. \A i \in 1 .. Len(Waiting) + 1 :
           Append(Waiting, key)[i] = IF i <= Len(Waiting) THEN Waiting[i] ELSE key
    BY <1>1, <2>1
  <2>4. QED
    BY <2>2, <2>3
<1>10. QED
  BY <1>8, <1>9 DEF key

(* The key that is read is the first, and the others move up.              *)
LEMMA KeyRemoved ==
  ASSUME QInv, sys_getKey, Bwritten # 0, Bwritten' = Bwritten - 1
  PROVE  /\ Waiting # << >>
         /\ delivered' = << Head(Waiting) >>
         /\ Waiting' = Tail(Waiting)
<1>1. /\ Bwritten \in Nat /\ rpointer \in Int /\ CBUFFER_SIZE \in Nat
      /\ Waiting \in Seq(Chars) /\ Len(Waiting) = Bwritten
      /\ \A i \in 1 .. Bwritten : Waiting[i] = buffer[Ring(rpointer + i - 1)]
  BY WaitingSeq DEF QInv
<1>2. /\ rpointer \in Place /\ buffer' = buffer
      /\ delivered' = << buffer[rpointer] >> /\ rpointer' = Ring(rpointer + 1)
  BY DEF sys_getKey, QInv, Inv, TypeOK, NextPlace, Ring
<1>3. Waiting # << >> /\ Head(Waiting) = Waiting[1]
  BY <1>1
<1>4. Waiting[1] = buffer[rpointer]
  <2>1. rpointer + 1 - 1 = rpointer
    BY <1>1
  <2>2. Ring(rpointer) = rpointer
    BY <1>2, Sizes DEF Ring, Place
  <2>3. QED
    BY <1>1, <2>1, <2>2
<1>5. Waiting' = [i \in 1 .. Bwritten - 1 |-> buffer[Ring(rpointer' + i - 1)]]
  BY <1>2 DEF Waiting, Ring
<1>6. Waiting' = [i \in 1 .. Len(Waiting) - 1 |-> Waiting[i + 1]]
  <2>1. SUFFICES ASSUME NEW i \in 1 .. Bwritten - 1
                 PROVE  buffer[Ring(rpointer' + i - 1)] = Waiting[i + 1]
    BY <1>1, <1>5
  <2>2. i \in Int /\ i + 1 \in 1 .. Bwritten
    BY <1>1
  <2>3. rpointer' \in Int
    BY <1>1, <1>2, RingFacts, Sizes DEF Place
  <2>4. rpointer' + i - 1 = rpointer' + (i - 1)
    BY <2>2, <2>3
  <2>5. Ring(rpointer' + (i - 1)) = Ring((rpointer + 1) + (i - 1))
    BY <1>1, <1>2, <2>2, RingFacts
  <2>6. (rpointer + 1) + (i - 1) = rpointer + (i + 1) - 1
    BY <1>1, <2>2
  <2>7. QED
    BY <1>1, <2>2, <2>4, <2>5, <2>6
<1>7. Tail(Waiting) = [i \in 1 .. Len(Waiting) - 1 |-> Waiting[i + 1]]
  <2>1. /\ Tail(Waiting) \in Seq(Chars)
        /\ Len(Tail(Waiting)) = Len(Waiting) - 1
        /\ \A i \in 1 .. Len(Waiting) - 1 : Tail(Waiting)[i] = Waiting[i + 1]
    BY <1>1, <1>3, HeadTailProperties
  <2>2. Tail(Waiting) = [i \in 1 .. Len(Waiting) - 1 |-> Tail(Waiting)[i]]
    BY <2>1, LenProperties
  <2>3. QED
    BY <2>1, <2>2
<1>8. QED
  BY <1>2, <1>3, <1>4, <1>6, <1>7

(* A step of the ring is a step of the queue, or leaves it as it is.       *)
LEMMA StepOfQueue ==
  ASSUME QInv, QInv', [Next]_vars
  PROVE  [KQ!QNext]_(KQ!qvars)
<1> USE DEF KQ!QNext, KQ!Arrive, KQ!Overrun, KQ!ArriveUnknown, KQ!Deliver, KQ!DeliverUnknown,
            KQ!DeliverNothing
<1>1. /\ Inv /\ Inv'
      /\ Bwritten \in 0 .. COUNTER_RANGE - 1 /\ Bwritten \in Nat
      /\ CBUFFER_SIZE \in Nat \ {0} /\ COUNTER_RANGE \in Nat
      /\ COUNTER_RANGE > CBUFFER_SIZE + 1
  BY SizeAssumption, RangeAssumption DEF QInv, Inv, TypeOK
<1>2. ASSUME NEW c \in Scancodes, keyboard_routine(c)
      PROVE  KQ!QNext
  <2>1. /\ delivered' = delivered
        /\ overrun' = (Bwritten' # 0 /\ (overrun \/ Bwritten' > CBUFFER_SIZE))
        /\ Bwritten' = IF Bwritten + 1 = COUNTER_RANGE THEN 0 ELSE Bwritten + 1
    BY <1>1, <1>2, Counting DEF keyboard_routine
  <2>2. CASE ~ overrun /\ Bwritten < CBUFFER_SIZE
    <3>1. Bwritten' = Bwritten + 1 /\ ~ (Bwritten' > CBUFFER_SIZE)
      BY <1>1, <2>1, <2>2
    <3>2. ~ overrun'
      BY <2>1, <2>2, <3>1, Zenon
    <3>3. Waiting' = Append(Waiting, char_map[c - 128]) /\ Len(Waiting) = Bwritten
      BY <1>1, <1>2, <2>2, <3>1, KeyAppended, WaitingSeq
    <3>4. char_map[c - 128] \in Chars
      BY <1>2, ScancodeAssumption DEF Chars, Range, keyboard_routine
    <3>5. Queue' = Append(Queue, char_map[c - 128]) /\ Unknown' = 0 /\ Unknown = 0
          /\ Len(Queue) < CBUFFER_SIZE
      BY <2>2, <3>2, <3>3 DEF Queue, Unknown, Waiting, Ring
    <3>6. KQ!Arrive(char_map[c - 128])
      BY <2>1, <3>5 DEF Queue, Unknown
    <3>7. QED
      BY <3>4, <3>6
  <2>3. CASE ~ overrun /\ Bwritten = CBUFFER_SIZE
    <3>1. Bwritten' = CBUFFER_SIZE + 1 /\ Bwritten' # 0 /\ Bwritten' > CBUFFER_SIZE
      BY <1>1, <2>1, <2>3
    <3>2. overrun'
      BY <2>1, <3>1, Zenon
    <3>3. Len(Waiting) = CBUFFER_SIZE
      BY <1>1, <2>3, WaitingSeq
    <3>4. Queue' = << >> /\ Unknown' = CBUFFER_SIZE + 1 /\ Unknown = 0 /\ Len(Queue) = CBUFFER_SIZE
      BY <2>3, <3>1, <3>2, <3>3 DEF Queue, Unknown, Waiting, Ring
    <3>5. KQ!Overrun
      BY <2>1, <3>4 DEF Queue, Unknown
    <3>6. QED
      BY <3>5
  <2>4. CASE overrun
    <3>1. Unknown = Bwritten /\ Queue = << >> /\ Bwritten > 0
      BY <1>1, <2>4 DEF QInv, Queue, Unknown
    <3>2. CASE Bwritten' = 0
      <4>1. ~ overrun'
        BY <2>1, <3>2, Zenon
      <4>2. Unknown' = 0 /\ Queue' = << >>
        BY <3>2, <4>1 DEF Queue, Unknown
      <4>3. KQ!ArriveUnknown
        BY <2>1, <3>1, <4>2 DEF Queue, Unknown
      <4>4. QED
        BY <4>3
    <3>3. CASE Bwritten' = Bwritten + 1
      <4>1. overrun'
        <5>1. Bwritten' # 0
          BY <1>1, <3>3
        <5>2. QED
          BY <2>1, <2>4, <5>1, Zenon
      <4>2. Unknown' = Unknown + 1 /\ Queue' = << >>
        BY <3>1, <3>3, <4>1 DEF Queue, Unknown
      <4>3. KQ!ArriveUnknown
        BY <2>1, <3>1, <4>2 DEF Queue, Unknown
      <4>4. QED
        BY <4>3
    <3>4. QED
      BY <2>1, <3>2, <3>3
  <2>5. ~ overrun => Bwritten <= CBUFFER_SIZE
    BY DEF QInv
  <2>6. Bwritten <= CBUFFER_SIZE => Bwritten < CBUFFER_SIZE \/ Bwritten = CBUFFER_SIZE
    BY <1>1
  <2>7. QED
    BY <2>2, <2>3, <2>4, <2>5, <2>6, Zenon
<1>3. CASE sys_getKey
  <2>1. CASE Bwritten = 0
    <3>1. ~ overrun /\ ~ overrun' /\ Bwritten' = 0 /\ delivered' = << >>
      BY <1>3, <2>1 DEF sys_getKey, QInv
    <3>2. Queue = << >> /\ Queue' = << >> /\ Unknown = 0 /\ Unknown' = 0
      BY <2>1, <3>1 DEF Queue, Unknown
    <3>3. KQ!DeliverNothing
      BY <3>1, <3>2 DEF Queue, Unknown
    <3>4. QED
      BY <3>3
  <2>2. CASE Bwritten # 0
    <3>1. /\ Bwritten' = Bwritten - 1
          /\ overrun' = (overrun /\ Bwritten' # 0)
          /\ delivered' = << buffer[rpointer] >>
      BY <1>1, <1>3, <2>2, Counting DEF sys_getKey
    <3>2. CASE ~ overrun
      <4>1. ~ overrun'
        BY <3>1, <3>2, Zenon
      <4>2. /\ Waiting # << >>
            /\ delivered' = << Head(Waiting) >>
            /\ Waiting' = Tail(Waiting)
        BY <1>3, <2>2, <3>1, KeyRemoved
      <4>3. /\ Queue # << >> /\ delivered' = << Head(Queue) >> /\ Queue' = Tail(Queue)
            /\ Unknown' = Unknown
        BY <3>2, <4>1, <4>2 DEF Queue, Unknown, Waiting, Ring
      <4>4. KQ!Deliver
        BY <4>3 DEF Queue, Unknown
      <4>5. QED
        BY <4>4
    <3>3. CASE overrun
      <4>1. Unknown = Bwritten /\ Queue = << >> /\ Bwritten > 0
        BY <1>1, <2>2, <3>3 DEF Queue, Unknown
      <4>2. Unknown' = Bwritten - 1 /\ Queue' = << >>
        <5>1. CASE Bwritten' = 0
          <6>1. ~ overrun'
            BY <3>1, <5>1, Zenon
          <6>2. Unknown' = 0 /\ Queue' = << >>
            BY <5>1, <6>1 DEF Queue, Unknown
          <6>3. Bwritten - 1 = 0
            BY <3>1, <5>1
          <6>4. QED
            BY <6>2, <6>3
        <5>2. CASE Bwritten' # 0
          <6>1. overrun'
            BY <3>1, <3>3, <5>2, Zenon
          <6>2. QED
            BY <3>1, <6>1 DEF Queue, Unknown
        <5>3. QED
          BY <5>1, <5>2
      <4>3. buffer[rpointer] \in Chars
        BY <1>1 DEF Inv, TypeOK
      <4>4. KQ!DeliverUnknown
        BY <3>1, <4>1, <4>2, <4>3 DEF Queue, Unknown
      <4>5. QED
        BY <4>4
    <3>4. QED
      BY <3>2, <3>3
  <2>3. QED
    BY <2>1, <2>2
<1>4. CASE UNCHANGED vars
  <2>1. UNCHANGED KQ!qvars
    BY <1>4 DEF vars, KQ!qvars
  <2>2. QED
    BY <2>1
<1>5. QED
  BY <1>2, <1>3, <1>4 DEF Next

(* The ring delivers every key once and in order, for every size of the    *)
(* ring, until a key arrives at a full ring, and again once keyboard and   *)
(* reader have met at an empty one.                                        *)
THEOREM RingImplementsQueue == Spec => ImplementsQueue
<1>1. Init => KQ!QInit
  BY DEF Init, KQ!QInit
<1>2. QInv /\ QInv' /\ [Next]_vars => [KQ!QNext]_(KQ!qvars)
  BY StepOfQueue
<1>3. QInv /\ [Next]_vars => QInv'
  BY QNextInv
<1>4. QED
  BY <1>1, <1>2, <1>3, QInitInv, PTL DEF Spec, ImplementsQueue, KQ!QSpec
=============================================================================
