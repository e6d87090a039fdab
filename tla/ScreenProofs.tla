---------------------------- MODULE ScreenProofs ----------------------------
(***************************************************************************)
(* The screen, module Screen, for every size of screen, buffer, word and   *)
(* page, every string, sprite and number. A call is a single action and    *)
(* all that it needs of the state before it is that the cursor is on the   *)
(* screen, so that the inductive invariant ScreenInv is the conjunction of *)
(* the properties; what is to be shown is what the loops of a call         *)
(* compute.                                                                *)
(*                                                                         *)
(* Strings are printed by folds and numbers are taken apart by a recursive *)
(* function. Facts about them are proved by induction on sets of numbers,  *)
(* SetInduction and BoundedInduction of BasicFacts: the lengths for which  *)
(* a fold stays in a set, say, contain zero and with each length the next  *)
(* one.                                                                    *)
(***************************************************************************)
EXTENDS Screen, BasicFacts, SequenceTheorems

(* A set that each character of a string keeps is kept by printing the     *)
(* string.                                                                 *)
LEMMA PrintkStays ==
  ASSUME NEW S, NEW p \in S, NEW n \in Nat, NEW string, DOMAIN string = 1 .. n,
         \A q \in S, k \in 1 .. n : printc(q, string[k]) \in S
  PROVE  printk(p, string) \in S
<1> DEFINE Eq(f) == f = [s \in SUBSET (1 .. n) |->
                           IF s = {} THEN p ELSE printc(f[s \ {Max(s)}], string[Max(s)])]
           iter == CHOOSE f : Eq(f)
           step == [k \in 1 .. n |-> [q \in S |-> printc(q, string[k])]]
<1>1. printk(p, string) = iter[1 .. n]
  BY DEF printk, FoldLeft, MapThenFoldSet
<1>2. step \in [1 .. n -> [S -> S]]
  OBVIOUS
<1>3. PICK g \in [SUBSET (1 .. n) -> S] : FoldStep(n, step, p, g)
  <2> HIDE DEF step
  <2> QED
    BY <1>2, FoldExists
<1>4. Eq(g)
  <2>1. ASSUME NEW s \in SUBSET (1 .. n), s # {}
        PROVE  step[Max(s)][g[s \ {Max(s)}]] = printc(g[s \ {Max(s)}], string[Max(s)])
    <3>1. Max(s) \in 1 .. n /\ g[s \ {Max(s)}] \in S
      BY <2>1, LastPlace
    <3> QED
      BY <3>1
  <2> QED
    BY <1>3, <2>1 DEF FoldStep
<1>5. Eq(iter)
  BY <1>4
<1> DEFINE T == {k \in 0 .. n : iter[1 .. k] \in S}
<1> HIDE DEF iter
<1>6. 0 \in T
  BY <1>5
<1>7. ASSUME NEW k \in 0 .. n - 1, k \in T
      PROVE  k + 1 \in T
  <2>1. Max(1 .. k + 1) = k + 1 /\ (1 .. k + 1) \ {k + 1} = 1 .. k /\ 1 .. k + 1 # {}
    BY Places
  <2>2. 1 .. k + 1 \in SUBSET (1 .. n)
    OBVIOUS
  <2>3. iter[1 .. k + 1] = printc(iter[1 .. k], string[k + 1])
    BY <1>5, <2>1, <2>2
  <2> QED
    BY <1>7, <2>3
<1> HIDE DEF T
<1>8. 0 .. n \subseteq T
  BY <1>6, <1>7, BoundedInduction
<1> QED
  BY <1>1, <1>8 DEF T

-----------------------------------------------------------------------------
(* Positions: a cursor on the screen, and cells of the video memory.       *)

Pos == [x : 0 .. NUM_COLUMNS - 1, y : 0 .. NUM_ROWS - 1, cells : SUBSET Cells]

(* The cell of a row and a column is in the video memory.                  *)
LEMMA CellIn ==
  ASSUME NEW r \in 0 .. NUM_ROWS - 1, NEW c \in 0 .. NUM_COLUMNS - 1
  PROVE  r * NUM_COLUMNS + c \in Cells
<1>1. NUM_ROWS \in Nat \ {0} /\ NUM_COLUMNS \in Nat \ {0}
  BY ScreenAssumption
<1>2. r * NUM_COLUMNS \in Nat
  BY <1>1
<1>3. (r + 1) * NUM_COLUMNS <= NUM_ROWS * NUM_COLUMNS
  BY <1>1
<1>4. (r + 1) * NUM_COLUMNS = r * NUM_COLUMNS + NUM_COLUMNS
  BY <1>1
<1>5. NUM_ROWS * NUM_COLUMNS \in Nat
  BY <1>1
<1> QED
  BY <1>1, <1>2, <1>3, <1>4, <1>5 DEF Cells

(* The cells of the screen are among those of two screens.                 *)
LEMMA CellsTwice ==
  Cells \subseteq 0 .. 2 * NUM_ROWS * NUM_COLUMNS - 1
<1>1. NUM_ROWS \in Nat \ {0} /\ NUM_COLUMNS \in Nat \ {0}
  BY ScreenAssumption
<1>2. NUM_ROWS * NUM_COLUMNS \in Nat
  BY <1>1
<1>3. 2 * NUM_ROWS * NUM_COLUMNS = 2 * (NUM_ROWS * NUM_COLUMNS)
  BY <1>1
<1> QED
  BY <1>2, <1>3 DEF Cells

(* A character leaves the cursor on the screen and goes to a cell of it.   *)
LEMMA PrintcPos ==
  ASSUME NEW p \in Pos, NEW c
  PROVE  printc(p, c) \in Pos
<1>1. NUM_ROWS \in Nat \ {0} /\ NUM_COLUMNS \in Nat \ {0}
  BY ScreenAssumption
<1>2. /\ p.x \in 0 .. NUM_COLUMNS - 1 /\ p.y \in 0 .. NUM_ROWS - 1
      /\ p.cells \in SUBSET Cells
  BY DEF Pos
<1>3. (p.y + 1) % NUM_ROWS \in 0 .. NUM_ROWS - 1
  <2>1. p.y + 1 \in Int
    BY <1>1, <1>2
  <2> QED
    BY <1>1, <2>1, ModRange
<1>4. p.y * NUM_COLUMNS + p.x \in Cells
  BY <1>2, CellIn
<1>5. 0 \in 0 .. NUM_COLUMNS - 1
  BY <1>1
<1>6. NewLine(p) \in Pos
  BY <1>2, <1>3, <1>5 DEF NewLine, Pos
<1> DEFINE q == [p EXCEPT !.x = @ + 1, !.cells = @ \cup {p.y * NUM_COLUMNS + p.x}]
<1>7. /\ q \in [x : 0 .. NUM_COLUMNS, y : 0 .. NUM_ROWS - 1, cells : SUBSET Cells]
      /\ q.x = p.x + 1 /\ q.y = p.y
  <2>1. p.x + 1 \in 0 .. NUM_COLUMNS /\ p.cells \cup {p.y * NUM_COLUMNS + p.x} \in SUBSET Cells
    BY <1>1, <1>2, <1>4
  <2> QED
    BY <1>2, <2>1 DEF Pos
<1>8. printc(p, c) = IF c = "\n" THEN NewLine(p) ELSE Wrap(q)
  BY DEF printc
<1> HIDE DEF q
<1>9. CASE q.x >= NUM_COLUMNS
  <2>1. NewLine(q) \in Pos
    BY <1>3, <1>5, <1>7 DEF NewLine, Pos
  <2> QED
    BY <1>6, <1>8, <1>9, <2>1 DEF Wrap
<1>10. CASE ~ q.x >= NUM_COLUMNS
  <2>1. q \in Pos
    BY <1>1, <1>7, <1>10 DEF Pos
  <2> QED
    BY <1>6, <1>8, <1>10, <2>1 DEF Wrap
<1> QED
  BY <1>9, <1>10

(* So does a string.                                                       *)
LEMMA PrintkPos ==
  ASSUME NEW p \in Pos, NEW n \in Nat, NEW string, DOMAIN string = 1 .. n
  PROVE  printk(p, string) \in Pos
  BY PrintcPos, PrintkStays

-----------------------------------------------------------------------------
(* Copies and chunks.                                                      *)

(* The bytes of a block.                                                   *)
Run(start, n) == [i \in 1 .. n |-> start + i - 1]

(* Blocks one after the other.                                             *)
LEMMA RunsJoin ==
  ASSUME NEW start \in Int, NEW m \in Nat, NEW n \in Nat
  PROVE  Run(start, m) \o Run(start + m, n) = Run(start, m + n)
<1>1. Run(start, m) \in Seq(Int) /\ Run(start + m, n) \in Seq(Int) /\ Run(start, m + n) \in Seq(Int)
  BY DEF Run
<1>2. Len(Run(start, m)) = m /\ Len(Run(start + m, n)) = n /\ Len(Run(start, m + n)) = m + n
  BY DEF Run
<1> DEFINE both == Run(start, m) \o Run(start + m, n)
<1>3. both \in Seq(Int) /\ Len(both) = m + n
  BY <1>1, <1>2, ConcatProperties
<1>4. ASSUME NEW i \in 1 .. m + n
      PROVE  both[i] = Run(start, m + n)[i]
  <2>1. both[i] = IF i <= m THEN Run(start, m)[i] ELSE Run(start + m, n)[i - m]
    BY <1>1, <1>2, <1>4, ConcatProperties, SMTT(20)
  <2> HIDE DEF both
  <2>2. CASE i <= m
    BY <2>1, <2>2 DEF Run
  <2>3. CASE i > m
    <3>1. i - m \in 1 .. n
      BY <2>3
    <3> QED
      BY <2>1, <2>3, <3>1 DEF Run
  <2> QED
    BY <2>2, <2>3
<1> HIDE DEF both
<1>5. both = Run(start, m + n)
  BY <1>1, <1>2, <1>3, <1>4, SeqEqual
<1> QED
  BY <1>5 DEF both

(* A copy moves the block, whatever part of it goes in words.              *)
LEMMA CopyIsRun ==
  ASSUME NEW start \in Int, NEW size \in Nat
  PROVE  copy_from_user(start, size) = Run(start, size)
<1>1. InWords(size) \in 0 .. size
  <2>1. WORD \in Nat \ {0}
    BY AddressAssumption
  <2>2. CASE size > WORD
    <3>1. PICK q \in Int : q = (size - 1) \div WORD
      BY <2>1
    <3>2. /\ size - 1 = q * WORD + ((size - 1) % WORD)
          /\ (size - 1) % WORD \in 0 .. WORD - 1
      BY <2>1, <3>1
    <3>3. q * WORD \in Int /\ q * WORD <= size - 1 /\ q * WORD > size - 1 - WORD
      BY <2>1, <3>2
    <3> QED
      BY <2>1, <2>2, <3>1, <3>3 DEF InWords
  <2>3. CASE ~ size > WORD
    BY <2>3 DEF InWords
  <2> QED
    BY <2>2, <2>3
<1>2. copy_data(start, size) = Run(start, InWords(size)) \o Run(start + InWords(size), size - InWords(size))
  BY <1>1 DEF copy_data, Run
<1>3. PICK w \in 0 .. size : w = InWords(size)
  BY <1>1
<1>4. w \in Nat /\ size - w \in Nat /\ w + (size - w) = size
  OBVIOUS
<1>5. Run(start, w) \o Run(start + w, size - w) = Run(start, size)
  BY ONLY <1>4, start \in Int, RunsJoin
<1> QED
  BY <1>2, <1>3, <1>5 DEF copy_from_user

(* What flattening evaluates.                                              *)
Flattens(n, seqs, h) ==
  /\ h[1] = seqs[1]
  /\ \A i \in 1 .. n - 1 : h[i + 1] = h[i] \o seqs[i + 1]
  /\ FlattenSeq(seqs) = h[n]

(* What FlattenSeq computes, step by step: the first sequence, and each    *)
(* following one appended.                                                 *)
LEMMA FlattenSteps ==
  ASSUME NEW S, NEW n \in Nat \ {0}, NEW seqs \in [1 .. n -> Seq(S)]
  PROVE  \E h \in [1 .. n -> Seq(S)] : Flattens(n, seqs, h)
<1> DEFINE Eq(f) == f = [i \in 1 .. n |-> IF i = 1 THEN seqs[i] ELSE f[i - 1] \o seqs[i]]
           iter == CHOOSE f : Eq(f)
           step == [i \in 1 .. n |-> [s \in Seq(S) |-> IF i = 1 THEN seqs[i] ELSE s \o seqs[i]]]
<1>1. Len(seqs) = n
  OBVIOUS
<1>2. FlattenSeq(seqs) = iter[n]
  BY <1>1 DEF FlattenSeq
<1>3. step \in [1 .. n -> [Seq(S) -> Seq(S)]]
  OBVIOUS
<1>4. PICK g \in [0 .. n -> Seq(S)] : Recursion(n, step, << >>, g)
  <2> DEFINE SS == Seq(S)
             none == << >>
  <2>1. n \in Nat /\ none \in SS /\ step \in [1 .. n -> [SS -> SS]]
    BY <1>3
  <2>2. \E g \in [0 .. n -> SS] : Recursion(n, step, none, g)
    <3> HIDE DEF step, SS, none
    <3> QED
      BY ONLY <2>1, RecursionExists
  <2> QED
    BY <2>2
<1> DEFINE f == [i \in 1 .. n |-> g[i]]
<1>5. Eq(f)
  <2>1. ASSUME NEW i \in 1 .. n
        PROVE  g[i] = IF i = 1 THEN seqs[i] ELSE g[i - 1] \o seqs[i]
    <3>1. i - 1 \in 0 .. n
      OBVIOUS
    <3>2. g[i - 1] \in Seq(S) /\ g[i] = step[i][g[i - 1]]
      BY <1>4, <3>1, Zenon DEF Recursion
    <3> QED
      BY <3>2, Zenon
  <2>2. ASSUME NEW i \in 1 .. n
        PROVE  f[i] = IF i = 1 THEN seqs[i] ELSE f[i - 1] \o seqs[i]
    <3>1. i # 1 => i - 1 \in 1 .. n
      OBVIOUS
    <3> QED
      BY <2>1, <3>1, Zenon
  <2> QED
    BY <2>2, Zenon
<1>6. Eq(iter)
  <2> HIDE DEF f
  <2> QED
    BY <1>5
<1> DEFINE T == {k \in 0 .. n : k # 0 => iter[k] \in Seq(S)}
<1> HIDE DEF iter, f
<1>7. 0 \in T
  OBVIOUS
<1>8. ASSUME NEW k \in 0 .. n - 1, k \in T
      PROVE  k + 1 \in T
  <2>1. iter[k + 1] = IF k + 1 = 1 THEN seqs[k + 1] ELSE iter[k] \o seqs[k + 1]
    <3>1. k + 1 \in 1 .. n /\ (k + 1) - 1 = k
      OBVIOUS
    <3>2. iter[k + 1] = IF k + 1 = 1 THEN seqs[k + 1] ELSE iter[(k + 1) - 1] \o seqs[k + 1]
      BY <1>6, <3>1, Zenon
    <3> QED
      BY <3>1, <3>2, Zenon
  <2>2. seqs[k + 1] \in Seq(S)
    OBVIOUS
  <2>3. k + 1 \in 0 .. n /\ (k + 1 # 1 => k # 0)
    OBVIOUS
  <2>4. iter[k + 1] \in Seq(S)
    BY <1>8, <2>1, <2>2, <2>3
  <2> QED
    BY <2>3, <2>4
<1>9. \A i \in 1 .. n : iter[i] \in Seq(S)
  <2>1. 0 .. n \subseteq T
    <3> HIDE DEF T
    <3> QED
      BY <1>7, <1>8, BoundedInduction
  <2> QED
    BY <2>1
<1>10. DOMAIN iter = 1 .. n /\ iter \in [1 .. n -> Seq(S)]
  BY <1>6, <1>9
<1>11. iter[1] = seqs[1] /\ \A i \in 1 .. n - 1 : iter[i + 1] = iter[i] \o seqs[i + 1]
  <2>1. 1 \in 1 .. n /\ \A i \in 1 .. n - 1 : i + 1 \in 1 .. n /\ i + 1 # 1 /\ (i + 1) - 1 = i
    OBVIOUS
  <2>2. \A i \in 1 .. n : iter[i] = IF i = 1 THEN seqs[i] ELSE iter[i - 1] \o seqs[i]
    BY <1>6, Zenon
  <2> QED
    BY <2>1, <2>2, Zenon
<1>12. Flattens(n, seqs, iter)
  BY <1>2, <1>11 DEF Flattens
<1> QED
  BY <1>10, <1>12

(* How many chunks a block of n bytes is cut into, and where they start.   *)
ChunkCount(n) == (n + TAM_BUFFER - 1) \div TAM_BUFFER
Offset(i) == (i - 1) * TAM_BUFFER
ChunkSize(n, i) == IF i * TAM_BUFFER < n THEN TAM_BUFFER ELSE n - (i - 1) * TAM_BUFFER

(* The chunks start in the block, one after the other, and the last one    *)
(* reaches its end.                                                        *)
LEMMA ChunkPlaces ==
  ASSUME NEW n \in Nat
  PROVE  /\ ChunkCount(n) \in Nat /\ (ChunkCount(n) = 0 <=> n = 0)
         /\ n <= TAM_BUFFER => ChunkCount(n) <= 1
         /\ Offset(1) = 0
         /\ \A i \in 1 .. ChunkCount(n) :
              /\ Offset(i) \in 0 .. n - 1
              /\ Offset(i + 1) = Offset(i) + TAM_BUFFER
              /\ i < ChunkCount(n) => Offset(i + 1) < n
              /\ i = ChunkCount(n) => Offset(i + 1) >= n
<1>1. TAM_BUFFER \in Nat \ {0}
  BY ScreenAssumption
<1>2. PICK m \in Int : m = ChunkCount(n)
  BY <1>1 DEF ChunkCount
<1>3. PICK r \in 0 .. TAM_BUFFER - 1 : n + TAM_BUFFER - 1 = m * TAM_BUFFER + r
  <2>1. n + TAM_BUFFER - 1 = m * TAM_BUFFER + ((n + TAM_BUFFER - 1) % TAM_BUFFER)
    BY <1>1, <1>2 DEF ChunkCount
  <2>2. (n + TAM_BUFFER - 1) % TAM_BUFFER \in 0 .. TAM_BUFFER - 1
    BY <1>1, ModRange
  <2> QED
    BY <2>1, <2>2
<1>4. m * TAM_BUFFER \in Int /\ m * TAM_BUFFER >= n /\ m * TAM_BUFFER - TAM_BUFFER < n
  BY <1>1, <1>3
<1>5. m >= 0
  <2>1. ASSUME m < 0 PROVE m * TAM_BUFFER < 0
    BY <1>1, <2>1
  <2> QED
    BY <1>4, <2>1
<1>6. m = 0 <=> n = 0
  <2>1. ASSUME m >= 1 PROVE m * TAM_BUFFER >= TAM_BUFFER
    BY <1>1, <2>1
  <2>2. m = 0 => m * TAM_BUFFER = 0
    BY <1>1
  <2> QED
    BY <1>1, <1>4, <1>5, <2>1, <2>2
<1>7. n <= TAM_BUFFER => m <= 1
  <2>1. ASSUME m >= 2 PROVE m * TAM_BUFFER >= 2 * TAM_BUFFER
    BY <1>1, <2>1
  <2> QED
    BY <1>1, <1>4, <1>5, <2>1
<1>8. ASSUME NEW i \in 1 .. m
      PROVE  /\ Offset(i) \in 0 .. n - 1
             /\ Offset(i + 1) = Offset(i) + TAM_BUFFER
             /\ i < m => Offset(i + 1) < n
             /\ i = m => Offset(i + 1) >= n
  <2>1. i \in Int /\ i >= 1 /\ i <= m
    BY <1>2
  <2>2. Offset(i) = i * TAM_BUFFER - TAM_BUFFER /\ Offset(i + 1) = i * TAM_BUFFER /\ i * TAM_BUFFER \in Int
    BY <1>1, <2>1 DEF Offset
  <2>3. i * TAM_BUFFER >= TAM_BUFFER
    BY <1>1, <2>1
  <2>4. i * TAM_BUFFER <= m * TAM_BUFFER
    BY <1>1, <1>2, <2>1
  <2>5. ASSUME i < m PROVE i * TAM_BUFFER <= m * TAM_BUFFER - TAM_BUFFER
    <3>1. (i + 1) * TAM_BUFFER <= m * TAM_BUFFER
      BY <1>1, <1>2, <2>1, <2>5
    <3>2. (i + 1) * TAM_BUFFER = i * TAM_BUFFER + TAM_BUFFER
      BY <1>1, <2>1
    <3> QED
      BY <1>1, <1>4, <2>2, <3>1, <3>2
  <2> QED
    BY <1>1, <1>2, <1>4, <2>1, <2>2, <2>3, <2>4, <2>5
<1>9. Offset(1) = 0
  BY <1>1 DEF Offset
<1> QED
  BY <1>2, <1>5, <1>6, <1>7, <1>8, <1>9

(* Every chunk is a block of its own.                                      *)
LEMMA ChunksAreRuns ==
  ASSUME NEW addr \in Int, NEW n \in Nat, NEW stride \in Int
  PROVE  /\ Chunks(addr, n, stride) =
              [i \in 1 .. ChunkCount(n) |-> Run(addr + (i - 1) * stride, ChunkSize(n, i))]
         /\ \A i \in 1 .. ChunkCount(n) : ChunkSize(n, i) \in Nat /\ addr + (i - 1) * stride \in Int
         /\ Chunks(addr, n, stride) \in [1 .. ChunkCount(n) -> Seq(Int)]
<1>1. TAM_BUFFER \in Nat \ {0}
  BY ScreenAssumption
<1>2. ASSUME NEW i \in 1 .. ChunkCount(n)
      PROVE  ChunkSize(n, i) \in Nat /\ addr + (i - 1) * stride \in Int
  <2>1. i \in Int /\ Offset(i) \in 0 .. n - 1
    BY ChunkPlaces
  <2>2. ChunkSize(n, i) \in Nat
    BY <1>1, <2>1 DEF ChunkSize, Offset
  <2> QED
    BY <2>1, <2>2
<1>3. Chunks(addr, n, stride) =
        [i \in 1 .. ChunkCount(n) |-> copy_from_user(addr + (i - 1) * stride, ChunkSize(n, i))]
  BY DEF Chunks, ChunkCount, ChunkSize
<1>4. \A i \in 1 .. ChunkCount(n) :
        copy_from_user(addr + (i - 1) * stride, ChunkSize(n, i)) =
          Run(addr + (i - 1) * stride, ChunkSize(n, i))
  BY <1>2, CopyIsRun
<1>5. \A i \in 1 .. ChunkCount(n) : Run(addr + (i - 1) * stride, ChunkSize(n, i)) \in Seq(Int)
  <2>1. \A a \in Int, k \in Nat : Run(a, k) \in Seq(Int)
    BY DEF Run
  <2> QED
    BY <1>2, <2>1
<1> QED
  BY <1>2, <1>3, <1>4, <1>5, Zenon

(* Chunks at most twice as far apart as they are long come from a block of *)
(* twice the size.                                                         *)
LEMMA ChunksNear ==
  ASSUME NEW addr \in Int, NEW n \in Nat, NEW stride \in Int,
         stride = TAM_BUFFER \/ stride = 2 * TAM_BUFFER
  PROVE  Chunks(addr, n, stride) \in [1 .. ChunkCount(n) -> Seq(addr .. addr + 2 * n - 1)]
<1> DEFINE m == ChunkCount(n)
           B == addr .. addr + 2 * n - 1
<1>1. TAM_BUFFER \in Nat \ {0}
  BY ScreenAssumption
<1>2. /\ Chunks(addr, n, stride) =
           [i \in 1 .. m |-> Run(addr + (i - 1) * stride, ChunkSize(n, i))]
      /\ m \in Nat
  <2>1. m \in Nat
    BY ChunkPlaces
  <2> QED
    BY <2>1, ChunksAreRuns
<1>3. ASSUME NEW i \in 1 .. m
      PROVE  Run(addr + (i - 1) * stride, ChunkSize(n, i)) \in Seq(B)
  <2>1. PICK o \in 0 .. n - 1 : o = Offset(i)
    BY ChunkPlaces
  <2>2. PICK z \in Nat : z = ChunkSize(n, i)
    BY ChunksAreRuns
  <2>3. o + z <= n
    <3>1. Offset(i + 1) = i * TAM_BUFFER /\ Offset(i + 1) = o + TAM_BUFFER
      <4>1. Offset(i + 1) = Offset(i) + TAM_BUFFER
        BY ChunkPlaces
      <4>2. Offset(i + 1) = i * TAM_BUFFER
        BY <1>1, <1>2 DEF Offset
      <4> QED
        BY <2>1, <4>1, <4>2
    <3>2. z = IF o + TAM_BUFFER < n THEN TAM_BUFFER ELSE n - o
      BY <2>1, <2>2, <3>1 DEF ChunkSize, Offset
    <3> QED
      BY <1>1, <3>2
  <2>4. (i - 1) * stride \in 0 .. 2 * o
    <3>1. PICK j \in Nat : j = i - 1
      BY <1>2
    <3>2. o = j * TAM_BUFFER
      BY <2>1, <3>1 DEF Offset
    <3>3. j * (2 * TAM_BUFFER) = 2 * o
      BY <1>1, <3>2
    <3> QED
      BY <3>1, <3>2, <3>3
  <2>5. PICK s \in Int : s = addr + (i - 1) * stride
    BY <2>4
  <2>6. s >= addr /\ s + z <= addr + 2 * n
    BY <2>3, <2>4, <2>5
  <2>7. Run(s, z) \in Seq(B)
    <3>1. \A k \in 1 .. z : s + k - 1 \in B
      BY <2>6
    <3>2. Run(s, z) \in [1 .. z -> B]
      BY <3>1, Zenon DEF Run
    <3> HIDE DEF B
    <3> QED
      BY <3>2
  <2> QED
    BY <2>2, <2>5, <2>7
<1> HIDE DEF m, B
<1>4. Chunks(addr, n, stride) \in [1 .. m -> Seq(B)]
  BY <1>2, <1>3, Zenon
<1> QED
  BY <1>4 DEF m, B

(* The chunks of the later kernel, which it reads TAM_BUFFER bytes apart,  *)
(* are the block; so is the only chunk of a block that fits the buffer.    *)
LEMMA ChunksJoin ==
  ASSUME NEW addr \in Int, NEW n \in Nat, NEW stride \in Int,
         stride = TAM_BUFFER \/ n <= TAM_BUFFER
  PROVE  FlattenSeq(Chunks(addr, n, stride)) = Run(addr, n)
<1> DEFINE m == ChunkCount(n)
           c == Chunks(addr, n, stride)
<1>1. TAM_BUFFER \in Nat \ {0}
  BY ScreenAssumption
<1>2. m \in Nat /\ (m = 0 <=> n = 0) /\ (n <= TAM_BUFFER => m <= 1)
  BY ChunkPlaces
<1>3. c \in [1 .. m -> Seq(Int)]
  BY ChunksAreRuns
<1>4. ASSUME NEW i \in 1 .. m
      PROVE  c[i] = Run(addr + Offset(i), ChunkSize(n, i)) /\ ChunkSize(n, i) \in Nat
  <2>1. c[i] = Run(addr + (i - 1) * stride, ChunkSize(n, i)) /\ ChunkSize(n, i) \in Nat
    <3>1. /\ c = [j \in 1 .. m |-> Run(addr + (j - 1) * stride, ChunkSize(n, j))]
          /\ \A j \in 1 .. m : ChunkSize(n, j) \in Nat
      BY ChunksAreRuns
    <3> HIDE DEF m, c
    <3> QED
      BY <3>1, Zenon
  <2>2. (i - 1) * stride = Offset(i)
    <3>1. CASE stride = TAM_BUFFER
      BY <3>1 DEF Offset
    <3>2. CASE n <= TAM_BUFFER
      <4>1. i = 1
        BY <1>2, <3>2
      <4> QED
        BY <1>1, <4>1 DEF Offset
    <3> QED
      BY <3>1, <3>2
  <2> QED
    BY <2>1, <2>2, Zenon
<1>5. \A i \in 1 .. m : /\ Offset(i) \in 0 .. n - 1
                        /\ Offset(i + 1) = Offset(i) + TAM_BUFFER
                        /\ i < m => Offset(i + 1) < n
                        /\ i = m => Offset(i + 1) >= n
  BY ChunkPlaces
<1>6. \A i \in 1 .. m : ChunkSize(n, i) = IF i < m THEN TAM_BUFFER ELSE n - Offset(i)
  <2>1. \A i \in 1 .. m : ChunkSize(n, i) = IF Offset(i + 1) < n THEN TAM_BUFFER ELSE n - Offset(i)
    BY DEF ChunkSize, Offset
  <2> HIDE DEF m
  <2> QED
    BY <1>1, <1>2, <1>5, <2>1
<1>7. Offset(1) = 0
  BY ChunkPlaces
<1> HIDE DEF m, c
<1>8. CASE m = 0
  <2>1. Len(c) = 0 /\ c = << >>
    BY <1>3, <1>8
  <2>2. Run(addr, n) = << >>
    BY <1>2, <1>8 DEF Run
  <2> QED
    BY <2>1, <2>2 DEF FlattenSeq, c
<1>9. CASE m # 0
  <2>1. PICK h \in [1 .. m -> Seq(Int)] :
            /\ h[1] = c[1]
            /\ \A i \in 1 .. m - 1 : h[i + 1] = h[i] \o c[i + 1]
            /\ FlattenSeq(c) = h[m]
    <3>1. m \in Nat \ {0}
      BY <1>2, <1>9
    <3>2. PICK h \in [1 .. m -> Seq(Int)] : Flattens(m, c, h)
      BY <1>3, <3>1, FlattenSteps
    <3> QED
      BY <3>2 DEF Flattens
  <2> DEFINE upto(i) == IF i < m THEN Offset(i + 1) ELSE n
             T == {i \in 0 .. m : i # 0 => h[i] = Run(addr, upto(i))}
  <2>2. 0 \in T
    BY <1>2
  <2>3. ASSUME NEW i \in 0 .. m - 1, i \in T PROVE i + 1 \in T
    <3>1. i + 1 \in 1 .. m
      BY <1>2
    <3>2. c[i + 1] = Run(addr + Offset(i + 1), ChunkSize(n, i + 1)) /\ ChunkSize(n, i + 1) \in Nat
      BY <1>4, <3>1
    <3>3. Offset(i + 1) + ChunkSize(n, i + 1) = upto(i + 1) /\ Offset(i + 1) \in Nat
      <4>1. /\ Offset(i + 1) \in 0 .. n - 1
            /\ Offset((i + 1) + 1) = Offset(i + 1) + TAM_BUFFER
            /\ ChunkSize(n, i + 1) = IF i + 1 < m THEN TAM_BUFFER ELSE n - Offset(i + 1)
        BY <1>5, <1>6, <3>1, Zenon
      <4> QED
        BY <1>1, <4>1
    <3>4. CASE i = 0
      <4>1. h[1] = Run(addr, upto(1))
        BY <1>7, <2>1, <3>2, <3>3, <3>4
      <4> QED
        BY <3>1, <3>4, <4>1
    <3>5. CASE i # 0
      <4>1. i \in 1 .. m - 1 /\ upto(i) = Offset(i + 1)
        BY <1>2, <3>5
      <4>2. h[i + 1] = Run(addr, Offset(i + 1)) \o c[i + 1]
        <5>1. h[i] = Run(addr, Offset(i + 1))
          BY <2>3, <3>5, <4>1, Zenon
        <5> QED
          BY <2>1, <4>1, <5>1, Zenon
      <4>3. Run(addr, Offset(i + 1)) \o Run(addr + Offset(i + 1), ChunkSize(n, i + 1)) =
              Run(addr, Offset(i + 1) + ChunkSize(n, i + 1))
        BY <3>2, <3>3, RunsJoin
      <4>4. h[i + 1] = Run(addr, upto(i + 1))
        BY <3>2, <3>3, <4>2, <4>3, Zenon
      <4> QED
        BY <1>2, <3>1, <4>4
    <3> QED
      BY <3>4, <3>5
  <2>4. 0 .. m \subseteq T
    <3> HIDE DEF T
    <3> QED
      BY <1>2, <2>2, <2>3, BoundedInduction
  <2>5. h[m] = Run(addr, upto(m)) /\ upto(m) = n
    BY <1>2, <1>9, <2>4
  <2> QED
    BY <2>1, <2>5 DEF c
<1> QED
  BY <1>8, <1>9

(* What a flattened sequence of blocks is.                                 *)
LEMMA FlattenSeqIn ==
  ASSUME NEW S, NEW n \in Nat, NEW seqs \in [1 .. n -> Seq(S)]
  PROVE  FlattenSeq(seqs) \in Seq(S)
<1>1. CASE n = 0
  <2>1. Len(seqs) = 0 /\ seqs = << >>
    BY <1>1
  <2> QED
    BY <2>1 DEF FlattenSeq
<1>2. CASE n # 0
  <2>1. n \in Nat \ {0}
    BY <1>2
  <2>2. PICK h \in [1 .. n -> Seq(S)] : Flattens(n, seqs, h)
    BY <2>1, FlattenSteps
  <2> QED
    BY <2>1, <2>2 DEF Flattens
<1> QED
  BY <1>1, <1>2

(* The cursor with no cells written is a position.                         *)
LEMMA CursorPos ==
  ASSUME ScreenTypeOK
  PROVE  Cursor \in Pos /\ Cursor.x = x /\ Cursor.y = y /\ Cursor.cells = {}
  BY DEF ScreenTypeOK, Cursor, Pos

(* The end of a call that leaves a position.                               *)
LEMMA DonePos ==
  ASSUME NEW call, NEW ret, NEW printed, NEW p \in Pos, Done(call, ret, printed, p)
  PROVE  /\ x' \in 0 .. NUM_COLUMNS - 1 /\ y' \in 0 .. NUM_ROWS - 1
         /\ last'.call = call /\ last'.ret = ret /\ last'.printed = printed
         /\ last'.cells = p.cells /\ last'.cells \subseteq Cells
         /\ kernel' = kernel /\ copyPage' = copyPage
  BY DEF Done, Pos

(* The loop over the chunks of a write: it prints them all unless one of   *)
(* them is not mapped, and never a byte that is not mapped.                *)
LEMMA WriteChunksEnd ==
  ASSUME ScreenTypeOK, NEW call, NEW n \in Nat, NEW B \in SUBSET Int,
         NEW chunks \in [1 .. n -> Seq(B)], WriteChunks(call, chunks)
  PROVE  /\ x' \in 0 .. NUM_COLUMNS - 1 /\ y' \in 0 .. NUM_ROWS - 1
         /\ last'.call = call /\ last'.cells \subseteq Cells
         /\ kernel' = kernel /\ copyPage' = copyPage
         /\ last'.ret \in {"ok", "page_fault"}
         /\ last'.ret = "ok" => last'.printed = FlattenSeq(chunks)
         /\ last'.printed \in Seq({a \in B : Mapped(a)})
         /\ (\A i \in 1 .. n : \A k \in DOMAIN chunks[i] : Mapped(chunks[i][k]))
              => last'.ret = "ok"
<1> DEFINE faults == {i \in DOMAIN chunks : \E k \in DOMAIN chunks[i] : ~ Mapped(chunks[i][k])}
           done == IF faults = {} THEN Len(chunks)
                   ELSE (CHOOSE i \in faults : \A j \in faults : i <= j) - 1
           printed == FlattenSeq(SubSeq(chunks, 1, done))
           ret == IF faults = {} THEN "ok" ELSE "page_fault"
           p == sys_write_console(Cursor, printed)
<1>1. Done(call, ret, printed, p)
  BY DEF WriteChunks
<1>2. DOMAIN chunks = 1 .. n /\ Len(chunks) = n /\ chunks \in Seq(Seq(B))
  OBVIOUS
<1>3. faults \in SUBSET (1 .. n)
  BY <1>2
<1>4. /\ done \in 0 .. n /\ (faults = {} => done = n)
      /\ \A i \in 1 .. done : i \notin faults
  <2>1. CASE faults = {}
    BY <1>2, <2>1
  <2>2. CASE faults # {}
    <3> HIDE DEF faults
    <3>1. \E i \in faults : \A j \in faults : i <= j
      BY <1>3, <2>2, FirstPlace
    <3> DEFINE least == CHOOSE i \in faults : \A j \in faults : i <= j
    <3>2. least \in faults /\ \A j \in faults : least <= j
      BY <3>1
    <3>3. done = least - 1
      BY <2>2
    <3> HIDE DEF done, least
    <3> QED
      BY <1>3, <2>2, <3>2, <3>3
  <2> QED
    BY <2>1, <2>2
<1> HIDE DEF done
<1> DEFINE M == {a \in B : Mapped(a)}
<1>5. SubSeq(chunks, 1, done) \in [1 .. done -> Seq(M)] /\ done \in Nat
  <2>1. SubSeq(chunks, 1, done) = [i \in 1 .. done |-> chunks[i]]
    BY <1>2, <1>4
  <2>2. ASSUME NEW i \in 1 .. done PROVE chunks[i] \in Seq(M)
    <3>1. i \in 1 .. n /\ i \notin faults
      BY <1>4
    <3>2. chunks[i] \in Seq(B) /\ \A k \in DOMAIN chunks[i] : Mapped(chunks[i][k])
      BY <1>2, <3>1
    <3>3. PICK s \in Seq(B) : s = chunks[i]
      BY <3>2
    <3>4. \A k \in 1 .. Len(s) : s[k] \in M
      BY <3>2, <3>3
    <3> HIDE DEF M
    <3>5. PICK l \in Nat : l = Len(s)
      OBVIOUS
    <3>6. s \in [1 .. l -> M]
      BY <3>4, <3>5
    <3>7. s \in Seq(M)
      BY ONLY <3>6, l \in Nat
    <3> QED
      BY <3>3, <3>7
  <2>3. [i \in 1 .. done |-> chunks[i]] \in [1 .. done -> Seq(M)]
    BY <2>2, Zenon
  <2>4. done \in Nat
    BY <1>4
  <2> QED
    BY <2>1, <2>3, <2>4, Zenon
<1>6. printed \in Seq(M)
  <2> HIDE DEF M
  <2> QED
    BY <1>5, FlattenSeqIn
<1>7. p \in Pos
  <2> DEFINE string == [i \in DOMAIN printed |-> CharAt(printed[i])]
  <2> HIDE DEF printed
  <2>1. Len(printed) \in Nat /\ DOMAIN string = 1 .. Len(printed)
    BY <1>6
  <2>2. p = printk(Cursor, string)
    BY DEF sys_write_console
  <2> HIDE DEF string, p
  <2> QED
    BY <2>1, <2>2, CursorPos, PrintkPos
<1>8. faults = {} => printed = FlattenSeq(chunks)
  <2>1. SubSeq(chunks, 1, n) = chunks
    BY <1>2
  <2> QED
    BY <1>4, <2>1
<1>9. (\A i \in 1 .. n : \A k \in DOMAIN chunks[i] : Mapped(chunks[i][k])) => faults = {}
  BY <1>2
<1> HIDE DEF p, printed, faults
<1> QED
  BY <1>1, <1>6, <1>7, <1>8, <1>9, DonePos

-----------------------------------------------------------------------------
(* Addresses.                                                              *)

(* The page of an address in the range, compared with another page.        *)
LEMMA PageBounds ==
  ASSUME NEW a \in 0 .. ADDRESS_RANGE - 1, NEW k \in Int
  PROVE  /\ PageOf(a) \in Int
         /\ PageOf(a) >= k <=> a >= k * PAGE_SIZE
         /\ PageOf(a) <= k <=> a < k * PAGE_SIZE + PAGE_SIZE
<1>1. PAGE_SIZE \in Nat \ {0} /\ ADDRESS_RANGE \in Nat \ {0}
  BY AddressAssumption
<1>2. a % ADDRESS_RANGE = a
  <2>1. (0 * ADDRESS_RANGE + a) % ADDRESS_RANGE = a
    BY <1>1, ModUnique
  <2>2. 0 * ADDRESS_RANGE + a = a
    BY <1>1
  <2> QED
    BY <2>1, <2>2
<1>3. PageOf(a) = a \div PAGE_SIZE
  BY <1>2 DEF PageOf
<1> QED
  BY <1>1, <1>3, DivBounds

(* Where the program ends in the address range.                            *)
LEMMA ProgramEnd ==
  /\ USER_FIRST_PAGE \in Nat \ {0} /\ USER_END \in Nat /\ USER_END >= USER_FIRST_PAGE + 2
  /\ PAGE_SIZE \in Nat \ {0} /\ ADDRESS_RANGE \in Nat
  /\ USER_END * PAGE_SIZE \in Nat
  /\ (USER_END + 1) * PAGE_SIZE = USER_END * PAGE_SIZE + PAGE_SIZE
  /\ USER_END * PAGE_SIZE + PAGE_SIZE <= ADDRESS_RANGE
  /\ USER_FIRST_PAGE * PAGE_SIZE \in Nat
  /\ 2 * (USER_END * PAGE_SIZE) + 2 * PAGE_SIZE - USER_FIRST_PAGE * PAGE_SIZE <= ADDRESS_RANGE
  /\ 3 * PAGE_SIZE <= USER_END * PAGE_SIZE
<1>1. /\ PAGE_SIZE \in Nat \ {0} /\ ADDRESS_RANGE \in Nat \ {0} /\ USER_FIRST_PAGE \in Nat \ {0}
      /\ NUM_PAG_CODE \in Nat \ {0} /\ NUM_PAG_DATA \in Nat \ {0}
      /\ (USER_FIRST_PAGE + 2 * (NUM_PAG_CODE + NUM_PAG_DATA + 1)) * PAGE_SIZE <= ADDRESS_RANGE
  BY AddressAssumption
<1>2. USER_END \in Nat /\ USER_END >= USER_FIRST_PAGE + 2
  BY <1>1 DEF USER_END
<1>3. USER_END * PAGE_SIZE \in Nat /\ (USER_END + 1) * PAGE_SIZE = USER_END * PAGE_SIZE + PAGE_SIZE
  BY <1>1, <1>2
<1>4. 3 * PAGE_SIZE <= USER_END * PAGE_SIZE
  <2>1. USER_END >= 3
    BY <1>1, <1>2
  <2> QED
    BY <1>1, <1>2, <2>1
<1>5. /\ (2 * (USER_END + 1) - USER_FIRST_PAGE) * PAGE_SIZE <= ADDRESS_RANGE
      /\ 2 * (USER_END + 1) - USER_FIRST_PAGE >= USER_END + 1
  <2>1. USER_FIRST_PAGE + 2 * (NUM_PAG_CODE + NUM_PAG_DATA + 1) = 2 * (USER_END + 1) - USER_FIRST_PAGE
    BY <1>1 DEF USER_END
  <2> QED
    BY <1>1, <1>2, <2>1
<1>6. (2 * (USER_END + 1) - USER_FIRST_PAGE) * PAGE_SIZE =
        2 * (USER_END * PAGE_SIZE) + 2 * PAGE_SIZE - USER_FIRST_PAGE * PAGE_SIZE
  BY <1>1, <1>2
<1>7. USER_FIRST_PAGE * PAGE_SIZE \in Nat /\ USER_FIRST_PAGE * PAGE_SIZE <= USER_END * PAGE_SIZE
  BY <1>1, <1>2
<1> QED
  BY <1>1, <1>2, <1>3, <1>4, <1>5, <1>6, <1>7

InProgram(addr, n) == PageOf(addr) >= USER_FIRST_PAGE /\ addr + n - 1 < USER_END * PAGE_SIZE

(* The bytes of a block in the program are mapped.                         *)
LEMMA ProgramMapped ==
  ASSUME NEW addr \in 0 .. ADDRESS_RANGE - 1, NEW n \in Nat, InProgram(addr, n),
         NEW a \in addr .. addr + n - 1
  PROVE  Mapped(a)
<1>1. a \in 0 .. ADDRESS_RANGE - 1 /\ a < USER_END * PAGE_SIZE /\ addr <= a
  BY ProgramEnd DEF InProgram
<1>2. a >= USER_FIRST_PAGE * PAGE_SIZE
  <2>1. addr >= USER_FIRST_PAGE * PAGE_SIZE
    BY ProgramEnd, PageBounds DEF InProgram
  <2>2. USER_FIRST_PAGE * PAGE_SIZE \in Int
    BY ProgramEnd
  <2> QED
    BY <1>1, <2>1, <2>2
<1>3. PageOf(a) >= USER_FIRST_PAGE
  BY <1>1, <1>2, ProgramEnd, PageBounds
<1>4. PageOf(a) <= USER_END - 1
  <2>1. (USER_END - 1) * PAGE_SIZE + PAGE_SIZE = USER_END * PAGE_SIZE
    BY ProgramEnd
  <2>2. USER_END - 1 \in Int
    BY ProgramEnd
  <2> QED
    BY <1>1, <2>1, <2>2, PageBounds
<1>5. PageOf(a) \in Int
  BY <1>1, ProgramEnd, PageBounds
<1> QED
  BY <1>3, <1>4, <1>5, ProgramEnd DEF Mapped

(* A block in the program passes the check.                                *)
LEMMA ProgramAccepted ==
  ASSUME NEW k, NEW type, NEW addr \in 0 .. ADDRESS_RANGE - 1, NEW n \in Nat \ {0},
         InProgram(addr, n)
  PROVE  access_ok(k, type, addr, n)
<1>1. addr + n \in 0 .. ADDRESS_RANGE - 1 /\ addr + n <= USER_END * PAGE_SIZE
  BY ProgramEnd DEF InProgram
<1>2. PICK ini \in Int : ini = PageOf(addr)
  BY ProgramEnd, PageBounds
<1>3. addr >= ini * PAGE_SIZE /\ ini * PAGE_SIZE \in Int
  BY <1>2, ProgramEnd, PageBounds
<1>4. PageOf(addr + n) >= ini
  BY <1>1, <1>3, PageBounds
<1>5. PageOf(addr + n) <= USER_END
  BY <1>1, ProgramEnd, PageBounds
<1> QED
  BY <1>2, <1>4, <1>5 DEF access_ok, InProgram

(* A block that passes the check starts in the program and ends in it or   *)
(* in the next page: one that wraps around would need almost all of the    *)
(* addresses.                                                              *)
LEMMA AcceptedEnd ==
  ASSUME NEW k, NEW type, NEW addr \in 0 .. ADDRESS_RANGE - 1, NEW n \in Nat,
         2 * n <= ADDRESS_RANGE, access_ok(k, type, addr, n)
  PROVE  PageOf(addr) >= USER_FIRST_PAGE /\ addr + n < (USER_END + 1) * PAGE_SIZE
<1>1. /\ PageOf(addr + n) >= PageOf(addr) /\ PageOf(addr) >= USER_FIRST_PAGE
      /\ PageOf(addr + n) <= USER_END
  <2>1. /\ NUM_PAG_CODE \in Nat /\ NUM_PAG_DATA \in Nat /\ USER_FIRST_PAGE \in Nat
        /\ PageOf(addr) \in Int
    BY AddressAssumption, ProgramEnd, PageBounds
  <2>2. /\ FirstWritable(k) \in Int /\ LastWritable(k) \in Int
        /\ FirstWritable(k) >= USER_FIRST_PAGE /\ LastWritable(k) <= USER_END
    BY <2>1 DEF FirstWritable, LastWritable, USER_END
  <2>3. PageOf(addr + n) \in Int
    BY ProgramEnd DEF PageOf
  <2> QED
    BY <2>1, <2>2, <2>3, ProgramEnd DEF access_ok
<1>2. CASE addr + n < ADDRESS_RANGE
  <2>1. addr + n \in 0 .. ADDRESS_RANGE - 1
    BY <1>2, ProgramEnd
  <2> QED
    BY <1>1, <2>1, ProgramEnd, PageBounds
<1>3. CASE addr + n >= ADDRESS_RANGE
  <2> DEFINE e == addr + n - ADDRESS_RANGE
  <2>1. e \in 0 .. ADDRESS_RANGE - 1 /\ addr + n = e + 1 * ADDRESS_RANGE
    BY <1>3, ProgramEnd
  <2>2. PageOf(addr + n) = PageOf(e)
    <3>1. (addr + n) % ADDRESS_RANGE = e % ADDRESS_RANGE
      <4>1. ADDRESS_RANGE \in Nat \ {0} /\ addr + n \in Int /\ e \in Int /\ 1 \in Int
        BY <2>1, ProgramEnd
      <4> HIDE DEF e
      <4> QED
        BY ONLY <2>1, <4>1, ModShift
    <3> QED
      BY <3>1 DEF PageOf
  <2>3. PICK ini \in Int : ini = PageOf(addr)
    BY ProgramEnd, PageBounds
  <2>4. e >= ini * PAGE_SIZE /\ addr < ini * PAGE_SIZE + PAGE_SIZE /\ ini * PAGE_SIZE \in Int
    <3> HIDE DEF e
    <3>1. PageOf(e) >= ini
      BY <1>1, <2>2, <2>3
    <3>2. ini >= PageOf(addr) /\ PageOf(addr) <= ini
      BY <2>3
    <3> QED
      BY <2>1, <3>1, <3>2, ProgramEnd, PageBounds
  <2> QED
    BY <1>3, <2>4, ProgramEnd
<1> QED
  BY <1>1, <1>2, <1>3, ProgramEnd

(* The bytes of user memory that a write may show.                         *)
UserBytes == USER_FIRST_PAGE * PAGE_SIZE
               .. (IF copyPage THEN USER_END + 1 ELSE USER_END) * PAGE_SIZE - 1

(* What is mapped from the start of an accepted block on, as far as twice  *)
(* its size, is user memory.                                               *)
LEMMA ReadIsUser ==
  ASSUME NEW addr \in 0 .. ADDRESS_RANGE - 1, NEW n \in Nat,
         PageOf(addr) >= USER_FIRST_PAGE, addr + n < (USER_END + 1) * PAGE_SIZE,
         NEW a \in addr .. addr + 2 * n - 1, Mapped(a)
  PROVE  a \in UserBytes
<1>1. addr >= USER_FIRST_PAGE * PAGE_SIZE
  BY ProgramEnd, PageBounds
<1>2. a \in 0 .. ADDRESS_RANGE - 1 /\ a >= USER_FIRST_PAGE * PAGE_SIZE /\ a \in Int
  BY <1>1, ProgramEnd
<1>3. CASE copyPage
  <2>1. PageOf(a) <= USER_END
    BY <1>3 DEF Mapped
  <2>2. a < USER_END * PAGE_SIZE + PAGE_SIZE
    BY <1>2, <2>1, ProgramEnd, PageBounds
  <2> QED
    BY <1>2, <1>3, <2>2, ProgramEnd DEF UserBytes
<1>4. CASE ~ copyPage
  <2>1. PageOf(a) <= USER_END - 1 /\ USER_END - 1 \in Int
    BY <1>4, ProgramEnd DEF Mapped
  <2>2. a < (USER_END - 1) * PAGE_SIZE + PAGE_SIZE
    BY <1>2, <2>1, PageBounds
  <2>3. (USER_END - 1) * PAGE_SIZE + PAGE_SIZE = USER_END * PAGE_SIZE
    BY ProgramEnd
  <2> QED
    BY <1>2, <1>4, <2>2, <2>3, ProgramEnd DEF UserBytes
<1> QED
  BY <1>3, <1>4

-----------------------------------------------------------------------------
(* The calls.                                                              *)

(* All the invariants of the module.                                       *)
ScreenInv ==
  /\ ScreenTypeOK
  /\ WritesWhatWasAsked
  /\ AccessChecked
  /\ PrintsUserBytes
  /\ DrawnInPlace
  /\ NumberReadsBack

(* A call that is refused leaves the cursor.                               *)
LEMMA RefusedEnd ==
  ASSUME ScreenTypeOK, NEW call, NEW errno, Refused(call, errno)
  PROVE  /\ x' = x /\ y' = y /\ kernel' = kernel /\ copyPage' = copyPage
         /\ last'.call = call /\ last'.ret = errno /\ last'.cells = {}
         /\ last'.printed = << >>
         /\ x' \in 0 .. NUM_COLUMNS - 1 /\ y' \in 0 .. NUM_ROWS - 1
  BY DEF Refused, Done, Cursor, ScreenTypeOK

(* What a write of either kernel has to do for the invariants to hold      *)
(* after it.                                                               *)
LEMMA WriteEnd ==
  ASSUME ScreenTypeOK, NEW addr, NEW n,
         UNCHANGED << textColor, textBackground >>,
         x' \in 0 .. NUM_COLUMNS - 1, y' \in 0 .. NUM_ROWS - 1,
         kernel' = kernel, copyPage' = copyPage,
         last'.call = [op |-> "write", addr |-> addr, size |-> n],
         last'.cells \subseteq Cells,
         \A k \in DOMAIN last'.printed : last'.printed[k] \in UserBytes,
         last'.ret = "ok" /\ (kernel = "later" \/ n <= TAM_BUFFER) => last'.printed = Run(addr, n),
         last'.ret # "EBADF" /\ n > 0 /\ (kernel = "later" \/ n <= TAM_BUFFER) =>
           IF InProgram(addr, n) THEN last'.ret = "ok"
           ELSE last'.ret = "EFAULT" \/ addr + n - 1 \in USER_END * PAGE_SIZE .. (USER_END + 1) * PAGE_SIZE - 1
  PROVE  ScreenInv'
<1>1. /\ last'.call.op = "write" /\ last'.call.addr = addr /\ last'.call.size = n
      /\ last'.call.op # "sprite" /\ last'.call.op # "number"
  OBVIOUS
<1>2. ScreenTypeOK'
  BY DEF ScreenTypeOK
<1>3. WritesWhatWasAsked'
  BY <1>1 DEF WritesWhatWasAsked, Run
<1>4. AccessChecked'
  BY <1>1 DEF AccessChecked, BlockEnd, InProgram, PageOf
<1>5. PrintsUserBytes'
  BY DEF PrintsUserBytes, UserBytes
<1>6. DrawnInPlace'
  BY <1>1, CellsTwice DEF DrawnInPlace, Cells
<1>7. NumberReadsBack'
  BY <1>1 DEF NumberReadsBack
<1> QED
  BY <1>2, <1>3, <1>4, <1>5, <1>6, <1>7 DEF ScreenInv

(* A write that is refused for another reason than its descriptor is not   *)
(* one of a block in the program.                                          *)
LEMMA WriteRefused ==
  ASSUME ScreenTypeOK, NEW addr, NEW n \in Int, NEW errno,
         UNCHANGED << textColor, textBackground >>,
         Refused([op |-> "write", addr |-> addr, size |-> n], errno),
         \/ errno = "EBADF"
         \/ errno = "EINVAL" /\ n < 0
         \/ errno = "EFAULT" /\ (n > 0 => ~ InProgram(addr, n))
  PROVE  ScreenInv'
<1>1. /\ x' \in 0 .. NUM_COLUMNS - 1 /\ y' \in 0 .. NUM_ROWS - 1
      /\ kernel' = kernel /\ copyPage' = copyPage
      /\ last'.call = [op |-> "write", addr |-> addr, size |-> n]
      /\ last'.cells \subseteq Cells /\ last'.ret = errno /\ last'.printed = << >>
  BY RefusedEnd
<1>2. errno # "ok" /\ \A k \in DOMAIN last'.printed : last'.printed[k] \in UserBytes
  BY <1>1
<1> QED
  BY <1>1, <1>2, WriteEnd

(* A write that passes the checks.                                         *)
LEMMA WriteAccepted ==
  ASSUME ScreenTypeOK, NEW addr \in Addrs, NEW n \in Sizes, n >= 0, NEW stride \in Int,
         stride = TAM_BUFFER \/ (stride = 2 * TAM_BUFFER /\ kernel # "later"), NEW type,
         access_ok(kernel, type, addr, n),
         WriteChunks([op |-> "write", addr |-> addr, size |-> n], Chunks(addr, n, stride)),
         UNCHANGED << textColor, textBackground >>
  PROVE  ScreenInv'
<1>1. addr \in 0 .. ADDRESS_RANGE - 1 /\ n \in Nat /\ 2 * n <= ADDRESS_RANGE /\ addr \in Int
  BY ScreenAssumption, ProgramEnd
<1> DEFINE c == Chunks(addr, n, stride)
           m == ChunkCount(n)
           short == stride = TAM_BUFFER \/ n <= TAM_BUFFER
           call == [op |-> "write", addr |-> addr, size |-> n]
<1>2. m \in Nat /\ c \in [1 .. m -> Seq(addr .. addr + 2 * n - 1)]
  BY <1>1, ChunkPlaces, ChunksNear
<1>3. short => FlattenSeq(c) = Run(addr, n)
  BY <1>1, ChunksJoin
<1>4. ASSUME short, n > 0, InProgram(addr, n)
      PROVE  \A i \in 1 .. m : \A k \in DOMAIN c[i] : Mapped(c[i][k])
  <2> SUFFICES ASSUME NEW i \in 1 .. m, NEW k \in DOMAIN c[i]
               PROVE  Mapped(c[i][k])
    OBVIOUS
  <2>1. c[i] = Run(addr + (i - 1) * stride, ChunkSize(n, i)) /\ ChunkSize(n, i) \in Nat
    <3>1. /\ c = [j \in 1 .. m |-> Run(addr + (j - 1) * stride, ChunkSize(n, j))]
          /\ \A j \in 1 .. m : ChunkSize(n, j) \in Nat
      BY <1>1, ChunksAreRuns
    <3> HIDE DEF m, c
    <3> QED
      BY <3>1, Zenon
  <2>2. TAM_BUFFER \in Nat \ {0} /\ i \in Int
    BY <1>2, ScreenAssumption
  <2>3. (i - 1) * stride = Offset(i)
    <3>1. CASE stride = TAM_BUFFER
      BY <3>1 DEF Offset
    <3>2. CASE n <= TAM_BUFFER
      <4>1. i = 1
        BY <1>1, <3>2, ChunkPlaces
      <4> QED
        BY <2>2, <4>1 DEF Offset
    <3> QED
      BY <1>4, <3>1, <3>2
  <2>4. /\ Offset(i) \in 0 .. n - 1 /\ Offset(i + 1) = Offset(i) + TAM_BUFFER
        /\ Offset(i + 1) = i * TAM_BUFFER
    BY <1>1, ChunkPlaces DEF Offset
  <2>5. Offset(i) + ChunkSize(n, i) <= n
    <3>1. ChunkSize(n, i) = IF Offset(i + 1) < n THEN TAM_BUFFER ELSE n - Offset(i)
      BY <2>4 DEF ChunkSize, Offset
    <3> QED
      BY <1>1, <2>2, <2>4, <3>1
  <2>6. c[i] = Run(addr + Offset(i), ChunkSize(n, i))
    BY <2>1, <2>3, Zenon
  <2>7. k \in 1 .. ChunkSize(n, i) /\ c[i][k] = addr + Offset(i) + k - 1
    <3> HIDE DEF c
    <3> QED
      BY <2>6 DEF Run
  <2>8. c[i][k] \in addr .. addr + n - 1
    <3> HIDE DEF c
    <3> QED
      BY <1>1, <2>1, <2>4, <2>5, <2>7
  <2> HIDE DEF c
  <2> QED
    BY <1>1, <1>4, <2>8, ProgramMapped
<1> HIDE DEF c, m
<1>5. WriteChunks(call, c)
  BY DEF c
<1>6. /\ x' \in 0 .. NUM_COLUMNS - 1 /\ y' \in 0 .. NUM_ROWS - 1
      /\ last'.call = call /\ last'.cells \subseteq Cells
      /\ kernel' = kernel /\ copyPage' = copyPage
      /\ last'.ret \in {"ok", "page_fault"}
      /\ last'.ret = "ok" => last'.printed = FlattenSeq(c)
      /\ last'.printed \in Seq({a \in addr .. addr + 2 * n - 1 : Mapped(a)})
      /\ (\A i \in 1 .. m : \A k \in DOMAIN c[i] : Mapped(c[i][k])) => last'.ret = "ok"
  <2> DEFINE B == addr .. addr + 2 * n - 1
  <2>1. B \in SUBSET Int
    BY <1>1
  <2>2. c \in [1 .. m -> Seq(B)]
    BY <1>2
  <2> HIDE DEF call, B
  <2>3. /\ x' \in 0 .. NUM_COLUMNS - 1 /\ y' \in 0 .. NUM_ROWS - 1
        /\ last'.call = call /\ last'.cells \subseteq Cells
        /\ kernel' = kernel /\ copyPage' = copyPage
        /\ last'.ret \in {"ok", "page_fault"}
        /\ last'.ret = "ok" => last'.printed = FlattenSeq(c)
        /\ last'.printed \in Seq({a \in B : Mapped(a)})
        /\ (\A i \in 1 .. m : \A k \in DOMAIN c[i] : Mapped(c[i][k])) => last'.ret = "ok"
    BY <1>2, <1>5, <2>1, <2>2, WriteChunksEnd
  <2> QED
    BY <2>3 DEF B
<1>7. PageOf(addr) >= USER_FIRST_PAGE /\ addr + n < (USER_END + 1) * PAGE_SIZE
  BY <1>1, AcceptedEnd
<1>8. ~ InProgram(addr, n) => addr + n - 1 \in USER_END * PAGE_SIZE .. (USER_END + 1) * PAGE_SIZE - 1
  BY <1>1, <1>7, ProgramEnd DEF InProgram
<1>9. kernel = "later" \/ n <= TAM_BUFFER => short
  OBVIOUS
<1>10. last'.ret = "ok" /\ (kernel = "later" \/ n <= TAM_BUFFER) => last'.printed = Run(addr, n)
  BY <1>3, <1>6, <1>9
<1>11. n > 0 /\ (kernel = "later" \/ n <= TAM_BUFFER) /\ InProgram(addr, n) => last'.ret = "ok"
  BY <1>4, <1>6, <1>9
<1>12. \A k \in DOMAIN last'.printed : last'.printed[k] \in UserBytes
  <2> DEFINE M == {a \in addr .. addr + 2 * n - 1 : Mapped(a)}
  <2>1. \A a \in M : a \in UserBytes
    BY <1>1, <1>7, ReadIsUser
  <2>2. last'.printed \in Seq(M)
    BY <1>6
  <2> HIDE DEF M
  <2>3. PICK s \in Seq(M) : s = last'.printed
    BY <2>2
  <2>4. \A k \in DOMAIN s : s[k] \in M
    OBVIOUS
  <2> QED
    BY <2>1, <2>3, <2>4, Zenon
<1> QED
  BY <1>6, <1>8, <1>10, <1>11, <1>12, WriteEnd

(* The write of the later kernel.                                          *)
LEMMA SysWriteKeeps ==
  ASSUME ScreenTypeOK, NEW fd, NEW addr \in Addrs, NEW n \in Sizes, sys_write(fd, addr, n)
  PROVE  ScreenInv'
<1>1. n \in Int /\ addr \in 0 .. ADDRESS_RANGE - 1
  BY ScreenAssumption
<1> DEFINE call == [op |-> "write", addr |-> addr, size |-> n]
<1>2. kernel = "later" /\ UNCHANGED << textColor, textBackground >>
  BY DEF sys_write
<1>3. CASE Refused(call, "EBADF")
  BY <1>1, <1>2, <1>3, WriteRefused
<1>4. CASE n < 0 /\ Refused(call, "EINVAL")
  BY <1>1, <1>2, <1>4, WriteRefused
<1>5. CASE n >= 0 /\ ~ access_ok(kernel, "VERIFY_READ", addr, n) /\ Refused(call, "EFAULT")
  <2>1. n > 0 => ~ InProgram(addr, n)
    BY <1>1, <1>5, ProgramAccepted
  <2> QED
    BY <1>1, <1>2, <1>5, <2>1, WriteRefused
<1>6. CASE /\ n >= 0 /\ access_ok(kernel, "VERIFY_READ", addr, n)
           /\ WriteChunks(call, Chunks(addr, n, Stride))
  <2>1. Stride = TAM_BUFFER /\ Stride \in Int
    BY ScreenAssumption DEF Stride
  <2> QED
    BY <1>2, <1>6, <2>1, WriteAccepted
<1> QED
  BY <1>3, <1>4, <1>5, <1>6 DEF sys_write

(* The write of the earlier kernel.                                        *)
LEMMA EarlierWriteKeeps ==
  ASSUME ScreenTypeOK, NEW fd, NEW addr \in Addrs, NEW n \in Sizes, EarlierWrite(fd, addr, n)
  PROVE  ScreenInv'
<1>1. n \in Int /\ addr \in 0 .. ADDRESS_RANGE - 1
  BY ScreenAssumption
<1> DEFINE call == [op |-> "write", addr |-> addr, size |-> n]
<1>2. kernel = "earlier" /\ UNCHANGED << textColor, textBackground >>
  BY DEF EarlierWrite
<1>3. CASE Refused(call, "EBADF")
  BY <1>1, <1>2, <1>3, WriteRefused
<1>4. CASE addr = 0 /\ Refused(call, "EFAULT")
  <2>1. ~ InProgram(addr, n)
    <3>1. 0 < USER_FIRST_PAGE * PAGE_SIZE
      BY ProgramEnd
    <3> QED
      BY <1>1, <1>4, <3>1, ProgramEnd, PageBounds DEF InProgram
  <2> QED
    BY <1>1, <1>2, <1>4, <2>1, WriteRefused
<1>5. CASE n < 0 /\ Refused(call, "EINVAL")
  BY <1>1, <1>2, <1>5, WriteRefused
<1>6. CASE n >= 0 /\ ~ access_ok(kernel, "VERIFY_WRITE", addr, n) /\ Refused(call, "EFAULT")
  <2>1. n > 0 => ~ InProgram(addr, n)
    BY <1>1, <1>6, ProgramAccepted
  <2> QED
    BY <1>1, <1>2, <1>6, <2>1, WriteRefused
<1>7. CASE /\ n >= 0 /\ access_ok(kernel, "VERIFY_WRITE", addr, n)
           /\ WriteChunks(call, Chunks(addr, n, EarlierStride))
  <2>1. EarlierStride = 2 * TAM_BUFFER /\ EarlierStride \in Int
    BY ScreenAssumption DEF EarlierStride
  <2> QED
    BY <1>2, <1>7, <2>1, WriteAccepted
<1> QED
  BY <1>3, <1>4, <1>5, <1>6, <1>7 DEF EarlierWrite

(* What any other call but the drawing of a sprite and the printing of a   *)
(* number has to do.                                                       *)
LEMMA OtherEnd ==
  ASSUME ScreenTypeOK, last'.call.op \notin {"write", "sprite", "number"},
         last'.cells \subseteq Cells, kernel' = kernel, copyPage' = copyPage,
         x' \in 0 .. NUM_COLUMNS - 1, y' \in 0 .. NUM_ROWS - 1,
         textColor' \in 0 .. 15, textBackground' \in 0 .. 15
  PROVE  ScreenInv'
<1>1. ScreenTypeOK'
  BY DEF ScreenTypeOK
<1>2. DrawnInPlace'
  BY CellsTwice DEF DrawnInPlace, Cells
<1> QED
  BY <1>1, <1>2 DEF ScreenInv, WritesWhatWasAsked, AccessChecked, PrintsUserBytes, NumberReadsBack

(* gotoXY moves the cursor to a place on the screen, or not at all.        *)
LEMMA GotoKeeps ==
  ASSUME ScreenTypeOK, NEW posX, NEW posY, sys_gotoXY(posX, posY)
  PROVE  ScreenInv'
<1>1. UNCHANGED << textColor, textBackground >> /\ cursor_move(posX, posY)
  BY DEF sys_gotoXY
<1>2. CASE OnScreen(posX, posY) /\ Done([op |-> "goto"], "ok", << >>, [Cursor EXCEPT !.x = posY, !.y = posX])
  <2> DEFINE p == [Cursor EXCEPT !.x = posY, !.y = posX]
             call == [op |-> "goto"]
  <2>1. p \in Pos
    BY <1>2, CursorPos DEF Pos, OnScreen
  <2>2. call.op \notin {"write", "sprite", "number"} /\ Done(call, "ok", << >>, p)
    BY <1>2
  <2> HIDE DEF p, call
  <2>3. /\ x' \in 0 .. NUM_COLUMNS - 1 /\ y' \in 0 .. NUM_ROWS - 1 /\ last'.call = call
        /\ last'.cells \subseteq Cells /\ kernel' = kernel /\ copyPage' = copyPage
    BY <2>1, <2>2, DonePos
  <2> QED
    BY <1>1, <2>2, <2>3, OtherEnd DEF ScreenTypeOK
<1>3. CASE Refused([op |-> "goto"], "EINVAL")
  BY <1>1, <1>3, RefusedEnd, OtherEnd DEF ScreenTypeOK
<1> QED
  BY <1>1, <1>2, <1>3 DEF cursor_move

(* SetColor takes a colour of four bits, or none.                          *)
LEMMA SetColorKeeps ==
  ASSUME ScreenTypeOK, NEW color, NEW background, sys_SetColor(color, background)
  PROVE  ScreenInv'
<1>1. asthetic_change(color, background)
  BY DEF sys_SetColor
<1>2. CASE /\ {color, background} \subseteq 0 .. 15
           /\ textColor' = color /\ textBackground' = background
           /\ Done([op |-> "color"], "ok", << >>, Cursor)
  BY <1>2, CursorPos, DonePos, OtherEnd
<1>3. CASE /\ Refused([op |-> "color"], "EINVAL")
           /\ UNCHANGED << textColor, textBackground >>
  BY <1>3, RefusedEnd, OtherEnd DEF ScreenTypeOK
<1> QED
  BY <1>1, <1>2, <1>3 DEF asthetic_change

(* The cursor at column a and row b, with some cells written.              *)
At(a, b) == [x : {a}, y : {b}, cells : SUBSET Int]

(* The cell of a row and a column, and the cells written after a character *)
(* that goes to one of them.                                               *)
Cell(r, c) == r * NUM_COLUMNS + c
With(cells, cell, c) == IF c = "\n" THEN cells ELSE cells \cup {cell}

(* A character at a place: the cursor stays, and one cell at most is       *)
(* written, that of the place.                                             *)
LEMMA PrintcXY ==
  ASSUME NEW a, NEW b, NEW p \in At(a, b),
         NEW mx \in Int, NEW my \in Int, NEW c
  PROVE  /\ printc_xy(p, mx, my, c) \in At(a, b)
         /\ printc_xy(p, mx, my, c).cells = With(p.cells, Cell(my, mx), c)
<1> DEFINE R == [x : Int, y : Int, cells : SUBSET Int]
           q == [p EXCEPT !.x = mx, !.y = my]
           w == [q EXCEPT !.x = @ + 1, !.cells = @ \cup {q.y * NUM_COLUMNS + q.x}]
           r == printc(q, c)
<1>1. NUM_ROWS \in Nat \ {0} /\ NUM_COLUMNS \in Nat \ {0}
  BY ScreenAssumption
<1>2. q \in R /\ q.cells = p.cells /\ q.x = mx /\ q.y = my
  BY DEF At
<1> HIDE DEF q
<1>3. \A u \in R : NewLine(u) \in R /\ NewLine(u).cells = u.cells
  <2> SUFFICES ASSUME NEW u \in R PROVE NewLine(u) \in R /\ NewLine(u).cells = u.cells
    OBVIOUS
  <2>1. (u.y + 1) % NUM_ROWS \in Int
    <3>1. u.y + 1 \in Int
      OBVIOUS
    <3> QED
      BY <1>1, <3>1, ModRange
  <2>2. u \in [x : Int, y : Int, cells : SUBSET Int] /\ u.cells \in SUBSET Int
    OBVIOUS
  <2> DEFINE row == (u.y + 1) % NUM_ROWS
  <2>3. NewLine(u) = [u EXCEPT !.x = 0, !.y = row]
    BY DEF NewLine
  <2>4. row \in Int
    BY <2>1
  <2> HIDE DEF row
  <2>5. [u EXCEPT !.x = 0, !.y = row] \in [x : Int, y : Int, cells : SUBSET Int]
    <3>1. \A i, j \in Int : [u EXCEPT !.x = i, !.y = j] \in [x : Int, y : Int, cells : SUBSET Int]
      BY <2>2
    <3>2. 0 \in Int
      OBVIOUS
    <3> QED
      BY <2>4, <3>1, <3>2, Zenon
  <2>6. [u EXCEPT !.x = 0, !.y = row].cells = u.cells
    BY <2>2
  <2> QED
    BY <2>3, <2>5, <2>6
<1>4. w \in R /\ w.cells = p.cells \cup {my * NUM_COLUMNS + mx}
  <2>1. mx + 1 \in Int /\ my * NUM_COLUMNS + mx \in Int
    BY <1>1
  <2> QED
    BY <1>2, <2>1
<1>5. r = IF c = "\n" THEN NewLine(q) ELSE Wrap(w)
  BY DEF printc
<1> HIDE DEF w, r
<1>6. Wrap(w) \in R /\ Wrap(w).cells = w.cells
  <2> HIDE DEF R
  <2> QED
    BY <1>3, <1>4 DEF Wrap
<1>7. r \in R /\ r.cells = IF c = "\n" THEN p.cells ELSE p.cells \cup {my * NUM_COLUMNS + mx}
  <2> HIDE DEF R
  <2> QED
    BY <1>2, <1>3, <1>4, <1>5, <1>6
<1>8. printc_xy(p, mx, my, c) = [r EXCEPT !.x = p.x, !.y = p.y]
  BY DEF printc_xy, q, r
<1> QED
  BY <1>7, <1>8 DEF At, With, Cell

(* The echo of a key is printed in the corner, and the cursor comes back.  *)
LEMMA EchoKeeps ==
  ASSUME ScreenTypeOK, kbd_routine
  PROVE  ScreenInv'
<1> DEFINE p == printc_xy(Cursor, 0, 0, "c")
<1>1. UNCHANGED << textColor, textBackground >> /\ Done([op |-> "echo"], "ok", << >>, p)
  BY DEF kbd_routine
<1>2. Cursor \in At(x, y) /\ Cursor.cells = {}
  BY DEF Cursor, At
<1>3. p \in At(x, y) /\ p.cells = {0 * NUM_COLUMNS + 0}
  <2>1. PICK z \in Int : z = 0
    OBVIOUS
  <2>2. /\ printc_xy(Cursor, z, z, "c") \in At(x, y)
        /\ printc_xy(Cursor, z, z, "c").cells = With(Cursor.cells, Cell(z, z), "c")
    <3>1. \A q \in At(x, y) : \A d :
            /\ printc_xy(q, z, z, d) \in At(x, y)
            /\ printc_xy(q, z, z, d).cells = With(q.cells, Cell(z, z), d)
      BY PrintcXY
    <3> HIDE DEF p
    <3> QED
      BY <1>2, <3>1
  <2> QED
    BY <1>2, <2>1, <2>2 DEF With, Cell
<1>4. 0 * NUM_COLUMNS + 0 \in Cells
  <2>1. 0 \in 0 .. NUM_ROWS - 1 /\ 0 \in 0 .. NUM_COLUMNS - 1
    BY ScreenAssumption
  <2> QED
    BY <2>1, CellIn
<1> HIDE DEF p
<1>5. p \in Pos /\ p.x = x /\ p.y = y
  BY <1>3, <1>4 DEF ScreenTypeOK, Pos, At
<1>6. x' = x /\ y' = y
  BY <1>1, <1>5 DEF Done
<1> QED
  BY <1>1, <1>5, <1>6, DonePos, OtherEnd DEF ScreenTypeOK

-----------------------------------------------------------------------------
(* Sprites.                                                                *)

(* Where character k of a sprite goes.                                     *)
PlaceOf(posX, posY, sp, k) == Cell(posY + ((k - 1) \div sp.y), posX + ((k - 1) % sp.y))

(* The cells that the first n characters of a sprite are drawn in.         *)
DrawnCells(posX, posY, sp, n) ==
  {PlaceOf(posX, posY, sp, k) : k \in {j \in 1 .. n : sp.content[j] # "\n"}}

(* Drawing stops at the first NUL, leaves the cursor and writes the cells  *)
(* of the characters before it.                                            *)
LEMMA DrawContentEnd ==
  ASSUME NEW posX \in Int, NEW posY \in Int, NEW sp, sp.y \in Nat \ {0},
         sp.content \in Seq(STRING)
  PROVE  LET d == DrawContent(posX, posY, sp)
         IN /\ d.cursor \in At(x, y)
            /\ d.ret \in {"ok", "EFAULT"}
            /\ \E n \in 0 .. Len(sp.content) :
                 /\ d.cursor.cells = DrawnCells(posX, posY, sp, n)
                 /\ d.ret = "ok" => n = Len(sp.content)
<1> DEFINE nuls == {k \in DOMAIN sp.content : sp.content[k] = "NUL"}
           n == IF nuls = {} THEN Len(sp.content)
                ELSE (CHOOSE k \in nuls : \A j \in nuls : k <= j) - 1
           at(p, k) == printc_xy(p, posX + ((k - 1) % sp.y), posY + ((k - 1) \div sp.y), sp.content[k])
           S == At(x, y)
           seq == [k \in 1 .. n |-> k]
           Eq(f) == f = [s \in SUBSET (1 .. n) |->
                           IF s = {} THEN Cursor ELSE at(f[s \ {Max(s)}], seq[Max(s)])]
           iter == CHOOSE f : Eq(f)
           step == [k \in 1 .. n |-> [q \in S |-> at(q, k)]]
<1>1. Len(sp.content) \in Nat /\ nuls \in SUBSET (1 .. Len(sp.content))
  OBVIOUS
<1>2. n \in 0 .. Len(sp.content) /\ (nuls = {} => n = Len(sp.content))
  <2>1. CASE nuls = {}
    BY <1>1, <2>1
  <2>2. CASE nuls # {}
    <3> HIDE DEF nuls
    <3>1. \E i \in nuls : \A j \in nuls : i <= j
      BY <1>1, <2>2, FirstPlace
    <3>2. (CHOOSE i \in nuls : \A j \in nuls : i <= j) \in nuls
      BY <3>1
    <3>3. PICK first \in 1 .. Len(sp.content) : n = first - 1
      BY <1>1, <2>2, <3>2
    <3> HIDE DEF n
    <3> QED
      BY <2>2, <3>3
  <2> QED
    BY <2>1, <2>2
<1>3. /\ DrawContent(posX, posY, sp).cursor = iter[DOMAIN seq]
      /\ DrawContent(posX, posY, sp).ret = IF nuls = {} THEN "ok" ELSE "EFAULT"
  BY DEF DrawContent, FoldLeft, MapThenFoldSet
<1> HIDE DEF n, nuls
<1>4. n \in Nat
  BY <1>1, <1>2
<1>5. ASSUME NEW q \in S, NEW k \in 1 .. n
      PROVE  /\ at(q, k) \in S
             /\ at(q, k).cells = With(q.cells, PlaceOf(posX, posY, sp, k), sp.content[k])
  <2>1. posX + ((k - 1) % sp.y) \in Int /\ posY + ((k - 1) \div sp.y) \in Int
    <3>1. k - 1 \in Int
      BY <1>4
    <3>2. (k - 1) % sp.y \in Int /\ (k - 1) \div sp.y \in Int
      <4>1. PICK N \in Nat \ {0} : N = sp.y
        OBVIOUS
      <4>2. (k - 1) % N \in Int /\ (k - 1) \div N \in Int
        BY <3>1
      <4> QED
        BY <4>1, <4>2
    <3> QED
      BY <3>2
  <2> QED
    BY <2>1, PrintcXY DEF PlaceOf
<1> HIDE DEF at
<1>6. Cursor \in S /\ Cursor.cells = {}
  BY DEF Cursor, At
<1> HIDE DEF S
<1>7. step \in [1 .. n -> [S -> S]]
  BY <1>5
<1>8. PICK g \in [SUBSET (1 .. n) -> S] : FoldStep(n, step, Cursor, g)
  <2> HIDE DEF step
  <2> QED
    BY <1>4, <1>6, <1>7, FoldExists
<1>9. Eq(g)
  <2>1. ASSUME NEW s \in SUBSET (1 .. n), s # {}
        PROVE  step[Max(s)][g[s \ {Max(s)}]] = at(g[s \ {Max(s)}], seq[Max(s)])
    <3>1. Max(s) \in 1 .. n /\ g[s \ {Max(s)}] \in S /\ seq[Max(s)] = Max(s)
      BY <1>4, <2>1, LastPlace
    <3> QED
      BY <3>1
  <2> QED
    BY <1>8, <2>1 DEF FoldStep
<1>10. Eq(iter)
  BY <1>9
<1> DEFINE T == {k \in 0 .. n : /\ iter[1 .. k] \in S
                                /\ iter[1 .. k].cells = DrawnCells(posX, posY, sp, k)}
<1> HIDE DEF iter
<1>11. 0 \in T
  <2>1. iter[1 .. 0] = Cursor
    BY <1>10
  <2>2. DrawnCells(posX, posY, sp, 0) = {}
    BY DEF DrawnCells
  <2>3. 0 \in 0 .. n
    BY <1>4
  <2> QED
    BY <1>6, <2>1, <2>2, <2>3, Zenon
<1>12. ASSUME NEW k \in 0 .. n - 1, k \in T
       PROVE  k + 1 \in T
  <2>1. Max(1 .. k + 1) = k + 1 /\ (1 .. k + 1) \ {k + 1} = 1 .. k /\ 1 .. k + 1 # {}
    <3>1. k + 1 \in Nat /\ k + 1 # 0 /\ (k + 1) - 1 = k
      BY <1>4
    <3>2. PICK m \in Nat : m = k + 1
      BY <3>1
    <3>3. Max(1 .. m) = m /\ (1 .. m) \ {m} = 1 .. m - 1 /\ 1 .. m # {}
      BY <3>1, <3>2, Places
    <3> QED
      BY <3>1, <3>2, <3>3
  <2>2. 1 .. k + 1 \in SUBSET (1 .. n) /\ k + 1 \in 1 .. n /\ seq[k + 1] = k + 1
    BY <1>4
  <2>3. iter[1 .. k + 1] = at(iter[1 .. k], k + 1)
    BY <1>10, <2>1, <2>2
  <2>4. /\ iter[1 .. k + 1] \in S
        /\ iter[1 .. k + 1].cells = With(DrawnCells(posX, posY, sp, k), PlaceOf(posX, posY, sp, k + 1),
                                         sp.content[k + 1])
    BY <1>5, <1>12, <2>2, <2>3
  <2>5. With(DrawnCells(posX, posY, sp, k), PlaceOf(posX, posY, sp, k + 1), sp.content[k + 1]) =
          DrawnCells(posX, posY, sp, k + 1)
    <3>1. 1 .. k + 1 = (1 .. k) \cup {k + 1}
      BY <1>4
    <3> QED
      BY <3>1 DEF With, DrawnCells
  <2> QED
    BY <2>2, <2>4, <2>5
<1>13. n \in T
  <2>1. 0 .. n \subseteq T
    <3> HIDE DEF T
    <3> QED
      BY <1>4, <1>11, <1>12, BoundedInduction
  <2> QED
    BY <1>4, <2>1
<1>14. DOMAIN seq = 1 .. n
  OBVIOUS
<1> HIDE DEF seq
<1>15. /\ DrawContent(posX, posY, sp).cursor \in At(x, y)
       /\ DrawContent(posX, posY, sp).cursor.cells = DrawnCells(posX, posY, sp, n)
  BY <1>3, <1>13, <1>14 DEF S
<1> QED
  BY <1>2, <1>3, <1>15

(* The places of the characters are the cells of a rectangle.              *)
FillsRectangle(a, b, row, col, sp) ==
  /\ \A k \in 1 .. a * b : \E r \in row .. row + a - 1, c \in col .. col + b - 1 :
       PlaceOf(col, row, sp, k) = Cell(r, c)
  /\ \A r \in row .. row + a - 1, c \in col .. col + b - 1 : \E k \in 1 .. a * b :
       PlaceOf(col, row, sp, k) = Cell(r, c)

(* The characters of a sprite of a rows and b columns go to the cells of a *)
(* rectangle, and every cell of it is that of a character.                 *)
LEMMA SpritePlaces ==
  ASSUME NEW a \in Nat \ {0}, NEW b \in Nat \ {0}, NEW row \in Int, NEW col \in Int,
         NEW sp, sp.y = b
  PROVE  FillsRectangle(a, b, row, col, sp)
<1>1. ASSUME NEW k \in 1 .. a * b
      PROVE  \E r \in row .. row + a - 1, c \in col .. col + b - 1 : PlaceOf(col, row, sp, k) = Cell(r, c)
  <2>1. a * b \in Int /\ (a - 1) * b + b = a * b /\ 0 * b = 0
    OBVIOUS
  <2>2. k - 1 \in Int /\ k - 1 >= 0 /\ k - 1 < a * b
    BY <2>1
  <2>3. PICK q \in Int : q = (k - 1) \div b
    BY <2>2
  <2>4. q >= 0
    <3>1. (k - 1) \div b >= 0 <=> k - 1 >= 0 * b
      BY <2>2, DivBounds
    <3> QED
      BY <2>1, <2>2, <2>3, <3>1
  <2>5. q <= a - 1
    <3>1. a - 1 \in Int
      OBVIOUS
    <3>2. (k - 1) \div b <= a - 1 <=> k - 1 < (a - 1) * b + b
      BY <2>2, <3>1, DivBounds
    <3> QED
      BY <2>1, <2>2, <2>3, <3>2
  <2>6. PICK m \in 0 .. b - 1 : m = (k - 1) % b
    BY <2>2, ModRange
  <2>7. row + q \in row .. row + a - 1 /\ col + m \in col .. col + b - 1
    BY <2>4, <2>5
  <2>8. PlaceOf(col, row, sp, k) = Cell(row + q, col + m)
    BY <2>3, <2>6 DEF PlaceOf
  <2> QED
    BY <2>7, <2>8
<1>2. ASSUME NEW r \in row .. row + a - 1, NEW c \in col .. col + b - 1
      PROVE  \E k \in 1 .. a * b : PlaceOf(col, row, sp, k) = Cell(r, c)
  <2>1. PICK q \in 0 .. a - 1 : q = r - row
    OBVIOUS
  <2>2. PICK m \in 0 .. b - 1 : m = c - col
    OBVIOUS
  <2>3. q * b \in Int /\ q * b >= 0 /\ a * b \in Int
    OBVIOUS
  <2>4. q * b + b <= a * b
    <3>1. (q + 1) * b <= a * b
      OBVIOUS
    <3>2. (q + 1) * b = q * b + b
      OBVIOUS
    <3> QED
      BY <3>1, <3>2
  <2>5. PICK k \in Int : k = q * b + m + 1
    BY <2>3
  <2>6. k \in 1 .. a * b
    BY <2>3, <2>4, <2>5
  <2>7. k - 1 = q * b + m /\ k - 1 \in Int
    BY <2>3, <2>5
  <2>8. (k - 1) % b = m
    <3>1. (q * b + m) % b = m
      BY ModUnique
    <3> QED
      BY <2>7, <3>1
  <2>9. (k - 1) \div b = q
    <3>1. (k - 1) \div b >= q <=> k - 1 >= q * b
      BY <2>7, DivBounds
    <3>2. (k - 1) \div b <= q <=> k - 1 < q * b + b
      BY <2>7, DivBounds
    <3>3. (k - 1) \div b \in Int
      BY <2>7
    <3> QED
      BY <2>3, <2>7, <3>1, <3>2, <3>3
  <2>10. row + q = r /\ col + m = c
    BY <2>1, <2>2
  <2>11. PlaceOf(col, row, sp, k) = Cell(r, c)
    BY <2>8, <2>9, <2>10 DEF PlaceOf
  <2> QED
    BY <2>6, <2>11
<1> QED
  BY <1>1, <1>2 DEF FillsRectangle

(* What the drawing of a sprite has to do for the invariants.              *)
LEMMA SpriteEnd ==
  ASSUME ScreenTypeOK, NEW row, NEW col, NEW sp,
         UNCHANGED << textColor, textBackground >>,
         x' = x, y' = y, kernel' = kernel, copyPage' = copyPage,
         last'.call = [op |-> "sprite", row |-> row, col |-> col, sprite |-> sp],
         last'.cells \subseteq 0 .. 2 * NUM_ROWS * NUM_COLUMNS - 1,
         row + sp.x <= NUM_ROWS /\ col + sp.y <= NUM_COLUMNS =>
           LET place == {r * NUM_COLUMNS + c : r \in row .. row + sp.x - 1,
                                               c \in col .. col + sp.y - 1}
           IN /\ last'.cells \subseteq Cells
              /\ last'.cells # {} =>
                   /\ last'.cells \subseteq place
                   /\ last'.ret = "ok" /\ (\A k \in DOMAIN sp.content : sp.content[k] # "\n")
                        => last'.cells = place
  PROVE  ScreenInv'
<1>1. /\ last'.call.op = "sprite" /\ last'.call.row = row /\ last'.call.col = col
      /\ last'.call.sprite = sp
      /\ last'.call.op # "write" /\ last'.call.op # "number"
  OBVIOUS
<1>2. ScreenTypeOK'
  BY DEF ScreenTypeOK
<1>3. WritesWhatWasAsked' /\ AccessChecked' /\ PrintsUserBytes' /\ NumberReadsBack'
  BY <1>1 DEF WritesWhatWasAsked, AccessChecked, PrintsUserBytes, NumberReadsBack
<1>4. Fits(last.call)' <=> row + sp.x <= NUM_ROWS /\ col + sp.y <= NUM_COLUMNS
  BY <1>1 DEF Fits
<1>5. DrawnInPlace'
  BY <1>1, <1>4 DEF DrawnInPlace, Cells
<1> QED
  BY <1>2, <1>3, <1>5 DEF ScreenInv

(* A sprite is drawn cell by cell with printc_xy: in its place when it     *)
(* fits, and within a second screen when it does not.                      *)
LEMMA SpritePutKeeps ==
  ASSUME ScreenTypeOK, NEW row, NEW col, NEW addr, NEW sp \in Sprites,
         sys_spritePut(row, col, addr, sp)
  PROVE  ScreenInv'
<1> DEFINE call == [op |-> "sprite", row |-> row, col |-> col, sprite |-> sp]
           d == DrawContent(col, row, sp)
<1>1. UNCHANGED << textColor, textBackground >> /\ spriteDraw(call, col, row, addr, sp)
  BY DEF sys_spritePut
<1>2. ASSUME NEW errno, Refused(call, errno)
      PROVE  ScreenInv'
  <2>1. /\ x' = x /\ y' = y /\ kernel' = kernel /\ copyPage' = copyPage
        /\ last'.call = call /\ last'.cells = {}
    <3> HIDE DEF call
    <3> QED
      BY <1>2, RefusedEnd
  <2> QED
    BY <1>1, <2>1, SpriteEnd
<1>3. ASSUME OnScreen(row, col), sp.content # << >>,
             sp.x \in 1 .. NUM_ROWS, sp.y \in 1 .. NUM_COLUMNS,
             Done(call, d.ret, << >>, d.cursor)
      PROVE  ScreenInv'
  <2>1. /\ NUM_ROWS \in Nat /\ NUM_COLUMNS \in Nat
        /\ row \in 0 .. NUM_ROWS - 1 /\ col \in 0 .. NUM_COLUMNS - 1
        /\ row \in Int /\ col \in Int
    BY <1>3, ScreenAssumption DEF OnScreen
  <2>2. /\ sp.x \in Nat \ {0} /\ sp.y \in Nat \ {0} /\ sp.content \in Seq(STRING)
        /\ Len(sp.content) = sp.x * sp.y
    <3>1. sp.x \in Nat \ {0} /\ sp.y \in Nat \ {0}
      BY <1>3, <2>1
    <3>2. sp.x > 0 /\ sp.y > 0
      BY <3>1
    <3> QED
      BY <1>3, <3>1, <3>2, SpriteAssumption, Zenon
  <2>3. /\ d.cursor \in At(x, y)
        /\ \E n \in 0 .. Len(sp.content) :
             /\ d.cursor.cells = DrawnCells(col, row, sp, n)
             /\ d.ret = "ok" => n = Len(sp.content)
    BY <2>1, <2>2, DrawContentEnd
  <2> HIDE DEF d
  <2>4. PICK n \in 0 .. sp.x * sp.y : /\ d.cursor.cells = DrawnCells(col, row, sp, n)
                                      /\ d.ret = "ok" => n = sp.x * sp.y
    BY <2>2, <2>3
  <2>5. /\ x' = x /\ y' = y /\ kernel' = kernel /\ copyPage' = copyPage
        /\ last'.call = call /\ last'.ret = d.ret
        /\ last'.cells = DrawnCells(col, row, sp, n)
    BY <1>3, <2>3, <2>4 DEF Done, At
  <2> DEFINE place == {r * NUM_COLUMNS + c : r \in row .. row + sp.x - 1,
                                             c \in col .. col + sp.y - 1}
  <2>6. /\ \A k \in 1 .. sp.x * sp.y : \E r \in row .. row + sp.x - 1, c \in col .. col + sp.y - 1 :
              PlaceOf(col, row, sp, k) = Cell(r, c)
        /\ \A r \in row .. row + sp.x - 1, c \in col .. col + sp.y - 1 : \E k \in 1 .. sp.x * sp.y :
              PlaceOf(col, row, sp, k) = Cell(r, c)
    <3>1. FillsRectangle(sp.x, sp.y, row, col, sp)
      BY <2>1, <2>2, SpritePlaces
    <3> QED
      BY <3>1, Zenon DEF FillsRectangle
  <2>7. last'.cells \subseteq place
    <3>1. \A k \in 1 .. n : k \in 1 .. sp.x * sp.y
      BY <2>2
    <3> QED
      BY <2>5, <2>6, <3>1 DEF DrawnCells, Cell
  <2>8. ASSUME d.ret = "ok", \A k \in DOMAIN sp.content : sp.content[k] # "\n"
        PROVE  place \subseteq last'.cells
    <3>1. DOMAIN sp.content = 1 .. sp.x * sp.y /\ n = sp.x * sp.y
      BY <2>2, <2>4, <2>8
    <3>2. ASSUME NEW r \in row .. row + sp.x - 1, NEW c \in col .. col + sp.y - 1
          PROVE  r * NUM_COLUMNS + c \in last'.cells
      <4>1. PICK k \in 1 .. sp.x * sp.y : PlaceOf(col, row, sp, k) = Cell(r, c)
        BY <2>6, <3>2
      <4>2. k \in 1 .. n /\ sp.content[k] # "\n"
        BY <2>8, <3>1
      <4>3. Cell(r, c) \in last'.cells
        BY <2>5, <4>1, <4>2 DEF DrawnCells
      <4> QED
        BY <4>3 DEF Cell
    <3> QED
      BY <3>2
  <2>9. ASSUME row + sp.x <= NUM_ROWS, col + sp.y <= NUM_COLUMNS
        PROVE  place \subseteq Cells
    <3>1. \A r \in row .. row + sp.x - 1 : r \in 0 .. NUM_ROWS - 1
      BY <2>1, <2>2, <2>9
    <3>2. \A c \in col .. col + sp.y - 1 : c \in 0 .. NUM_COLUMNS - 1
      BY <2>1, <2>2, <2>9
    <3> QED
      BY <3>1, <3>2, CellIn
  <2> HIDE DEF place
  <2>10. row + sp.x <= NUM_ROWS /\ col + sp.y <= NUM_COLUMNS =>
             /\ last'.cells \subseteq Cells
             /\ last'.cells # {} =>
                  /\ last'.cells \subseteq place
                  /\ last'.ret = "ok" /\ (\A k \in DOMAIN sp.content : sp.content[k] # "\n")
                       => last'.cells = place
    BY <2>5, <2>7, <2>8, <2>9
  <2>11. place \subseteq 0 .. 2 * NUM_ROWS * NUM_COLUMNS - 1
    <3> SUFFICES ASSUME NEW r \in row .. row + sp.x - 1, NEW c \in col .. col + sp.y - 1
                 PROVE  r * NUM_COLUMNS + c \in 0 .. 2 * NUM_ROWS * NUM_COLUMNS - 1
      BY DEF place
    <3>1. r \in 0 .. 2 * NUM_ROWS - 2 /\ c \in 0 .. 2 * NUM_COLUMNS - 2 /\ NUM_COLUMNS \in Nat \ {0}
      <4>1. PICK a \in 1 .. NUM_ROWS : a = sp.x
        BY <1>3
      <4>2. PICK b \in 1 .. NUM_COLUMNS : b = sp.y
        BY <1>3
      <4>3. r \in row .. row + a - 1 /\ c \in col .. col + b - 1
        BY <4>1, <4>2
      <4> QED
        BY <2>1, <4>3
    <3>2. r * NUM_COLUMNS \in 0 .. (2 * NUM_ROWS - 2) * NUM_COLUMNS
      BY <2>1, <3>1
    <3>3. (2 * NUM_ROWS - 2) * NUM_COLUMNS = 2 * NUM_ROWS * NUM_COLUMNS - 2 * NUM_COLUMNS
      BY <2>1
    <3>4. 2 * NUM_ROWS * NUM_COLUMNS \in Int
      BY <2>1
    <3> QED
      BY <2>1, <3>1, <3>2, <3>3, <3>4
  <2>12. last'.cells \subseteq 0 .. 2 * NUM_ROWS * NUM_COLUMNS - 1
    BY <2>7, <2>11
  <2> QED
    BY <1>1, <2>5, <2>10, <2>12, SpriteEnd DEF place
<1> QED
  BY <1>1, <1>2, <1>3 DEF spriteDraw

-----------------------------------------------------------------------------
(* Numbers.                                                                *)

(* A number with one more digit.                                           *)
Shift(v, base, d) == v * base + d

(* The values of the first digits of a sequence, one after the other.      *)
Reads(base, digits, h) ==
  /\ h[0] = 0
  /\ \A k \in 1 .. Len(digits) : h[k] = Shift(h[k - 1], base, digits[k])
  /\ Value(digits, base) = h[Len(digits)]

(* How the value of a sequence of digits is found.                         *)
LEMMA ValueSteps ==
  ASSUME NEW base \in Nat, NEW digits \in Seq(Nat)
  PROVE  \E h \in [0 .. Len(digits) -> Nat] : Reads(base, digits, h)
<1> DEFINE n == Len(digits)
           Eq(f) == f = [s \in SUBSET (1 .. n) |->
                           IF s = {} THEN 0 ELSE f[s \ {Max(s)}] * base + digits[Max(s)]]
           iter == CHOOSE f : Eq(f)
           step == [k \in 1 .. n |-> [v \in Nat |-> Shift(v, base, digits[k])]]
<1>1. n \in Nat /\ DOMAIN digits = 1 .. n /\ \A k \in 1 .. n : digits[k] \in Nat
  OBVIOUS
<1>2. Value(digits, base) = iter[1 .. n]
  BY <1>1 DEF Value, FoldLeft, MapThenFoldSet
<1> HIDE DEF n
<1>3. ASSUME NEW v \in Nat, NEW k \in 1 .. n
      PROVE  Shift(v, base, digits[k]) \in Nat
  BY <1>1 DEF Shift
<1>4. step \in [1 .. n -> [Nat -> Nat]] /\ 0 \in Nat
  BY <1>3
<1>5. PICK g \in [SUBSET (1 .. n) -> Nat] : FoldStep(n, step, 0, g)
  <2> HIDE DEF step
  <2> DEFINE N == Nat
             zero == 0
  <2>1. step \in [1 .. n -> [N -> N]] /\ zero \in N /\ n \in Nat
    BY <1>1, <1>4
  <2>2. \E g \in [SUBSET (1 .. n) -> N] : FoldStep(n, step, zero, g)
    <3> HIDE DEF N, zero
    <3> QED
      BY ONLY <2>1, FoldExists
  <2> QED
    BY <2>2
<1>6. Eq(g)
  <2>1. ASSUME NEW s \in SUBSET (1 .. n), s # {}
        PROVE  step[Max(s)][g[s \ {Max(s)}]] = g[s \ {Max(s)}] * base + digits[Max(s)]
    <3>1. Max(s) \in 1 .. n /\ g[s \ {Max(s)}] \in Nat
      BY <1>1, <2>1, LastPlace
    <3>2. step[Max(s)][g[s \ {Max(s)}]] = Shift(g[s \ {Max(s)}], base, digits[Max(s)])
      BY <3>1, Zenon
    <3> QED
      BY <3>2 DEF Shift
  <2> HIDE DEF step
  <2> QED
    BY <1>5, <2>1, Zenon DEF FoldStep
<1>7. Eq(iter)
  BY <1>6, Zenon
<1> HIDE DEF iter
<1>8. \A s \in SUBSET (1 .. n) : iter[s] = IF s = {} THEN 0 ELSE Shift(iter[s \ {Max(s)}], base, digits[Max(s)])
  BY <1>7, Zenon DEF Shift
<1> DEFINE T == {k \in 0 .. n : iter[1 .. k] \in Nat}
<1>9. iter[1 .. 0] = 0
  <2>1. 1 .. 0 = {} /\ {} \in SUBSET (1 .. n)
    OBVIOUS
  <2> QED
    BY <1>8, <2>1, Zenon
<1>10. ASSUME NEW k \in 1 .. n
       PROVE  iter[1 .. k] = Shift(iter[1 .. k - 1], base, digits[k])
  <2>1. Max(1 .. k) = k /\ (1 .. k) \ {k} = 1 .. k - 1 /\ 1 .. k # {}
    <3>1. k \in Nat /\ k # 0
      BY <1>1
    <3> QED
      BY <3>1, Places
  <2>2. 1 .. k \in SUBSET (1 .. n)
    BY <1>1
  <2> QED
    BY <1>8, <2>1, <2>2, Zenon
<1>11. 0 \in T
  BY <1>1, <1>9
<1>12. ASSUME NEW k \in 0 .. n - 1, k \in T
       PROVE  k + 1 \in T
  <2>1. k + 1 \in 1 .. n /\ (k + 1) - 1 = k /\ k + 1 \in 0 .. n
    BY <1>1
  <2>2. iter[1 .. k + 1] = Shift(iter[1 .. k], base, digits[k + 1])
    BY <1>10, <2>1, Zenon
  <2>3. iter[1 .. k] \in Nat
    BY <1>12
  <2> QED
    BY <1>3, <2>1, <2>2, <2>3
<1> DEFINE h == [k \in 0 .. n |-> iter[1 .. k]]
<1>13. \A k \in 0 .. n : iter[1 .. k] \in Nat
  <2>1. 0 .. n \subseteq T
    <3> HIDE DEF T
    <3> QED
      BY <1>1, <1>11, <1>12, BoundedInduction
  <2> QED
    BY <2>1
<1>14. h \in [0 .. n -> Nat]
  BY <1>13, Zenon
<1>15. 0 \in 0 .. n /\ n \in 0 .. n /\ \A k \in 1 .. n : k \in 0 .. n /\ k - 1 \in 0 .. n
  BY <1>1
<1>16. h[0] = 0 /\ h[n] = iter[1 .. n] /\ \A k \in 1 .. n : h[k] = Shift(h[k - 1], base, digits[k])
  BY <1>9, <1>10, <1>15, Zenon
<1> HIDE DEF h
<1>17. Reads(base, digits, h)
  BY <1>2, <1>16, Zenon DEF Reads, n
<1> QED
  BY <1>14, <1>17, Zenon DEF n

(* A digit at the end.                                                     *)
LEMMA ValueAppend ==
  ASSUME NEW base \in Nat, NEW digits \in Seq(Nat), NEW d \in Nat
  PROVE  /\ Value(Append(digits, d), base) = Shift(Value(digits, base), base, d)
         /\ Value(digits, base) \in Nat
<1> DEFINE n == Len(digits)
           more == Append(digits, d)
<1>1. n \in Nat /\ more \in Seq(Nat) /\ Len(more) = n + 1 /\ more[n + 1] = d
      /\ \A k \in 1 .. n : more[k] = digits[k]
  OBVIOUS
<1> HIDE DEF n, more
<1>2. PICK g \in [0 .. Len(digits) -> Nat] : Reads(base, digits, g)
  BY ValueSteps
<1>3. PICK h \in [0 .. Len(more) -> Nat] : Reads(base, more, h)
  BY <1>1, ValueSteps
<1>4. /\ g[0] = 0 /\ h[0] = 0
      /\ \A k \in 1 .. n : g[k] = Shift(g[k - 1], base, digits[k])
      /\ \A k \in 1 .. n + 1 : h[k] = Shift(h[k - 1], base, more[k])
      /\ Value(digits, base) = g[n] /\ Value(more, base) = h[n + 1]
  BY <1>1, <1>2, <1>3, Zenon DEF Reads, n
<1> DEFINE T == {k \in 0 .. n : g[k] = h[k]}
<1>5. 0 \in T
  BY <1>1, <1>4
<1>6. ASSUME NEW k \in 0 .. n - 1, k \in T
      PROVE  k + 1 \in T
  <2>1. k + 1 \in 1 .. n /\ k + 1 \in 1 .. n + 1 /\ k + 1 \in 0 .. n /\ (k + 1) - 1 = k
    BY <1>1
  <2>2. g[k + 1] = Shift(g[k], base, digits[k + 1]) /\ h[k + 1] = Shift(h[k], base, more[k + 1])
    BY <1>4, <2>1, Zenon
  <2>3. g[k] = h[k] /\ more[k + 1] = digits[k + 1]
    BY <1>1, <1>6, <2>1, Zenon
  <2> QED
    BY <2>1, <2>2, <2>3, Zenon
<1>7. g[n] = h[n]
  <2>1. 0 .. n \subseteq T
    <3> HIDE DEF T
    <3> QED
      BY <1>1, <1>5, <1>6, BoundedInduction
  <2>2. n \in 0 .. n
    BY <1>1
  <2> QED
    BY <2>1, <2>2, Zenon
<1>8. h[n + 1] = Shift(h[n], base, d)
  <2>1. n + 1 \in 1 .. n + 1 /\ (n + 1) - 1 = n
    BY <1>1
  <2> QED
    BY <1>1, <1>4, <2>1, Zenon
<1>9. g[n] \in Nat
  <2>1. n \in 0 .. Len(digits)
    BY <1>1 DEF n
  <2> QED
    BY <1>2, <2>1, Zenon
<1> QED
  BY <1>4, <1>7, <1>8, <1>9, Zenon DEF more

(* No digits.                                                              *)
LEMMA ValueNone ==
  ASSUME NEW base \in Nat
  PROVE  Value(<< >>, base) = 0
<1>1. << >> \in Seq(Nat) /\ Len(<< >>) = 0
  OBVIOUS
<1>2. PICK h \in [0 .. Len(<< >>) -> Nat] : Reads(base, << >>, h)
  BY <1>1, ValueSteps, Zenon
<1> QED
  BY <1>1, <1>2, Zenon DEF Reads

(* The other way round, the first digit is the last.                       *)
LEMMA ReverseCons ==
  ASSUME NEW s \in Seq(Nat), NEW d \in Nat
  PROVE  Reverse(<< d >> \o s) = Append(Reverse(s), d)
<1> DEFINE n == Len(s)
           t == << d >> \o s
           r == Reverse(s)
<1>1. n \in Nat /\ t \in Seq(Nat) /\ Len(t) = n + 1 /\ t[1] = d
  OBVIOUS
<1>2. \A i \in 1 .. n : t[i + 1] = s[i]
  OBVIOUS
<1>3. r \in Seq(Nat) /\ Len(r) = n /\ \A i \in 1 .. n : r[i] = s[(n - i) + 1]
  <2>1. r = [i \in 1 .. n |-> s[(n - i) + 1]]
    BY DEF Reverse
  <2>2. \A i \in 1 .. n : s[(n - i) + 1] \in Nat
    OBVIOUS
  <2> QED
    BY <1>1, <2>1, <2>2
<1>4. Reverse(t) \in Seq(Nat) /\ Len(Reverse(t)) = n + 1
      /\ \A i \in 1 .. n + 1 : Reverse(t)[i] = t[((n + 1) - i) + 1]
  <2> HIDE DEF t, n
  <2>1. Reverse(t) = [i \in 1 .. n + 1 |-> t[((n + 1) - i) + 1]]
    BY <1>1 DEF Reverse
  <2>2. \A i \in 1 .. n + 1 : t[((n + 1) - i) + 1] \in Nat
    BY <1>1
  <2> QED
    BY <1>1, <2>1, <2>2
<1> HIDE DEF n, t, r
<1>5. Append(r, d) \in Seq(Nat) /\ Len(Append(r, d)) = n + 1 /\ Append(r, d)[n + 1] = d
      /\ \A i \in 1 .. n : Append(r, d)[i] = r[i]
  BY <1>1, <1>3
<1>6. ASSUME NEW i \in 1 .. n + 1
      PROVE  Reverse(t)[i] = Append(r, d)[i]
  <2>1. CASE i = n + 1
    BY <1>1, <1>4, <1>5, <2>1
  <2>2. CASE i # n + 1
    <3>1. i \in 1 .. n /\ ((n + 1) - i) + 1 = ((n - i) + 1) + 1 /\ (n - i) + 1 \in 1 .. n
      BY <1>1, <2>2
    <3>2. t[((n - i) + 1) + 1] = s[(n - i) + 1]
      BY <1>2, <3>1, Zenon
    <3> QED
      BY <1>3, <1>4, <1>5, <3>1, <3>2, Zenon
  <2> QED
    BY <2>1, <2>2
<1>7. Reverse(t) = Append(r, d)
  BY <1>4, <1>5, <1>6, SeqEqual
<1> QED
  BY <1>7 DEF t, r

(* The equations of the digits.                                            *)
DigitsOf(base, m, f) ==
  \A v \in 0 .. m : f[v] = IF v = 0 THEN << >> ELSE << v % base >> \o f[v \div base]

(* A quotient of a positive number by a base is smaller.                   *)
LEMMA Quotient ==
  ASSUME NEW base \in Nat, base > 1, NEW v \in Nat, v # 0
  PROVE  /\ v \div base \in 0 .. v - 1 /\ v % base \in Nat
         /\ v = Shift(v \div base, base, v % base)
         /\ v \div base = 0 => v % base # 0
<1>1. base \in Nat \ {0} /\ v \in Int
  OBVIOUS
<1>2. PICK q \in Int : q = v \div base
  BY <1>1
<1>3. PICK r \in 0 .. base - 1 : r = v % base
  BY <1>1, ModRange
<1>4. v = q * base + r
  BY <1>1, <1>2, <1>3
<1>5. q >= 0
  <2>1. ASSUME q < 0 PROVE q * base <= 0 - base
    <3>1. (0 - q) * base >= base
      BY <2>1
    <3>2. (0 - q) * base = 0 - q * base
      OBVIOUS
    <3> QED
      BY <3>1, <3>2
  <2> QED
    BY <1>4, <2>1
<1>6. q < v
  <2>1. CASE q = 0
    BY <2>1
  <2>2. CASE q > 0
    <3>1. q * base >= 2 * q
      BY <2>2
    <3> QED
      BY <1>4, <2>2, <3>1
  <2> QED
    BY <1>5, <2>1, <2>2
<1>7. q = 0 => r # 0
  BY <1>4
<1> QED
  BY <1>2, <1>3, <1>4, <1>5, <1>6, <1>7 DEF Shift

(* The digits are well defined.                                            *)
LEMMA DigitsExist ==
  ASSUME NEW base \in Nat, base > 1, NEW m \in Nat
  PROVE  \E f \in [0 .. m -> Seq(Nat)] : DigitsOf(base, m, f)
<1> DEFINE T == {k \in 0 .. m : \E f \in [0 .. k -> Seq(Nat)] : DigitsOf(base, k, f)}
<1>1. 0 \in T
  <2> DEFINE f == [v \in 0 .. 0 |-> << >>]
  <2>1. f \in [0 .. 0 -> Seq(Nat)] /\ f[0] = << >>
    OBVIOUS
  <2> HIDE DEF f
  <2>2. DigitsOf(base, 0, f)
    BY <2>1 DEF DigitsOf
  <2> QED
    BY <2>1, <2>2
<1>2. ASSUME NEW k \in 0 .. m - 1, k \in T
      PROVE  k + 1 \in T
  <2>1. PICK f \in [0 .. k -> Seq(Nat)] : DigitsOf(base, k, f)
    BY <1>2
  <2> DEFINE w == k + 1
             g == [v \in 0 .. w |-> IF v = w THEN << v % base >> \o f[v \div base] ELSE f[v]]
  <2>2. w \in Nat /\ w # 0 /\ w - 1 = k /\ \A v \in 0 .. w : v # w => v \in 0 .. k
    OBVIOUS
  <2> HIDE DEF w
  <2>3. w \div base \in 0 .. k /\ w % base \in Nat
    BY <2>2, Quotient
  <2>4. << w % base >> \o f[w \div base] \in Seq(Nat)
    BY <2>3
  <2>5. g \in [0 .. w -> Seq(Nat)]
    BY <2>2, <2>4
  <2>6. ASSUME NEW v \in 0 .. w
        PROVE  g[v] = IF v = 0 THEN << >> ELSE << v % base >> \o g[v \div base]
    <3>1. CASE v = w
      <4>1. w \div base \in 0 .. w /\ w \div base # w
        BY <2>2, <2>3
      <4>2. g[w] = << w % base >> \o f[w \div base] /\ g[w \div base] = f[w \div base]
        BY <2>6, <3>1, <4>1, Zenon
      <4> QED
        BY <2>2, <3>1, <4>2, Zenon
    <3>2. CASE v # w
      <4>1. v \in 0 .. k
        BY <2>2, <3>2
      <4>2. g[v] = f[v] /\ f[v] = IF v = 0 THEN << >> ELSE << v % base >> \o f[v \div base]
        BY <2>1, <3>2, <4>1, Zenon DEF DigitsOf
      <4>3. v # 0 => v \div base \in 0 .. w /\ v \div base # w
        <5>1. v \in Nat
          BY <4>1
        <5>2. v # 0 => v \div base \in 0 .. v - 1
          BY <5>1, Quotient
        <5> QED
          BY <2>2, <4>1, <5>2
      <4>4. v # 0 => g[v \div base] = f[v \div base]
        BY <4>3, Zenon
      <4> QED
        BY <4>2, <4>4, Zenon
    <3> QED
      BY <3>1, <3>2
  <2> HIDE DEF g
  <2>7. DigitsOf(base, w, g)
    BY <2>6, Zenon DEF DigitsOf
  <2>8. k + 1 \in 0 .. m
    OBVIOUS
  <2> QED
    BY <2>5, <2>7, <2>8, Zenon DEF w
<1>3. m \in T
  <2>1. 0 .. m \subseteq T
    <3> HIDE DEF T
    <3> QED
      BY <1>1, <1>2, BoundedInduction
  <2> QED
    BY <2>1
<1> QED
  BY <1>3

(* The digits of the numbers that programs print.                          *)
LEMMA DigitsEquations ==
  ASSUME NEW base \in Nat, base > 1, MaxNumber \in Nat
  PROVE  DigitsOf(base, MaxNumber, Digits(base))
<1> DEFINE Eq(f) == f = [v \in 0 .. MaxNumber |-> IF v = 0 THEN << >> ELSE << v % base >> \o f[v \div base]]
           iter == CHOOSE f : Eq(f)
<1>1. Digits(base) = iter
  BY DEF Digits
<1>2. PICK g \in [0 .. MaxNumber -> Seq(Nat)] : DigitsOf(base, MaxNumber, g)
  BY DigitsExist
<1>3. Eq(g)
  BY <1>2, Zenon DEF DigitsOf
<1>4. Eq(iter)
  BY <1>3, Zenon
<1> HIDE DEF iter
<1>5. \A v \in 0 .. MaxNumber : iter[v] = IF v = 0 THEN << >> ELSE << v % base >> \o iter[v \div base]
  BY <1>4, Zenon
<1> QED
  BY <1>1, <1>5, Zenon DEF DigitsOf

(* What the digits of a number v read as, and that the last one found is   *)
(* not a zero.                                                             *)
ReadsAs(base, digits, v) ==
  /\ digits \in Seq(Nat)
  /\ Value(Reverse(digits), base) = v
  /\ v # 0 => Len(digits) > 0 /\ Reverse(digits)[1] # 0

(* The digits taken one by one from the end are those of the number.       *)
LEMMA DigitsReadBack ==
  ASSUME NEW base \in Nat, base > 1, NEW n \in Nat, MaxNumber \in Nat, n <= MaxNumber
  PROVE  ReadsAs(base, Digits(base)[n], n)
<1> DEFINE d == Digits(base)
           T == {k \in 0 .. n : \A v \in 0 .. k : ReadsAs(base, d[v], v)}
<1>1. \A v \in 0 .. n : d[v] = IF v = 0 THEN << >> ELSE << v % base >> \o d[v \div base]
  <2>1. \A v \in 0 .. n : v \in 0 .. MaxNumber
    OBVIOUS
  <2> QED
    BY <2>1, DigitsEquations, Zenon DEF DigitsOf
<1> HIDE DEF d
<1>2. 0 \in T
  <2>1. d[0] = << >>
    <3>1. 0 \in 0 .. n
      OBVIOUS
    <3> QED
      BY <1>1, <3>1, Zenon
  <2>2. Reverse(<< >>) = << >> /\ << >> \in Seq(Nat)
    BY DEF Reverse
  <2>3. ReadsAs(base, d[0], 0)
    BY <2>1, <2>2, ValueNone DEF ReadsAs
  <2> QED
    BY <2>3
<1>3. ASSUME NEW k \in 0 .. n - 1, k \in T
      PROVE  k + 1 \in T
  <2> DEFINE w == k + 1
  <2>1. w \in Nat /\ w # 0 /\ w \in 0 .. n /\ \A v \in 0 .. w : v # w => v \in 0 .. k
    OBVIOUS
  <2>2. PICK q \in 0 .. k : q = w \div base
    <3>1. w \div base \in 0 .. w - 1
      BY <2>1, Quotient
    <3> QED
      BY <3>1
  <2> HIDE DEF w
  <2>3. PICK r \in Nat : r = w % base
    BY <2>1, Quotient
  <2>4. w = Shift(q, base, r) /\ (q = 0 => r # 0)
    BY <2>1, <2>2, <2>3, Quotient
  <2>5. d[w] = << r >> \o d[q]
    BY <1>1, <2>1, <2>2, <2>3, Zenon
  <2>6. ReadsAs(base, d[q], q)
    BY <1>3, Zenon
  <2>7. d[q] \in Seq(Nat) /\ d[w] \in Seq(Nat) /\ Len(d[w]) > 0
    BY <2>5, <2>6 DEF ReadsAs
  <2>8. Reverse(d[w]) = Append(Reverse(d[q]), r)
    BY <2>5, <2>7, ReverseCons
  <2>9. Reverse(d[q]) \in Seq(Nat) /\ Len(Reverse(d[q])) = Len(d[q])
    <3>1. Reverse(d[q]) = [i \in 1 .. Len(d[q]) |-> d[q][(Len(d[q]) - i) + 1]]
      BY DEF Reverse
    <3>2. \A i \in 1 .. Len(d[q]) : d[q][(Len(d[q]) - i) + 1] \in Nat
      BY <2>7, SMTT(20)
    <3> QED
      BY <2>7, <3>1, <3>2
  <2>10. Value(Reverse(d[w]), base) = w
    BY <2>4, <2>6, <2>8, <2>9, ValueAppend DEF ReadsAs
  <2>11. Reverse(d[w])[1] # 0
    <3>1. CASE q = 0
      <4>1. d[q] = << >>
        <5>1. 0 \in 0 .. n
          OBVIOUS
        <5> QED
          BY <1>1, <3>1, <5>1, Zenon
      <4>2. Len(Reverse(d[q])) = 0
        BY <2>9, <4>1
      <4> QED
        BY <2>4, <2>8, <2>9, <3>1, <4>2
    <3>2. CASE q # 0
      <4>1. Len(Reverse(d[q])) > 0 /\ Reverse(d[q])[1] # 0
        BY <2>6, <2>9, <3>2 DEF ReadsAs
      <4> QED
        BY <2>8, <2>9, <4>1
    <3> QED
      BY <3>1, <3>2
  <2>12. ReadsAs(base, d[w], w)
    BY <2>7, <2>10, <2>11 DEF ReadsAs
  <2>13. \A v \in 0 .. w : ReadsAs(base, d[v], v)
    BY <1>3, <2>1, <2>12, Zenon
  <2> QED
    BY <2>1, <2>13, Zenon DEF w
<1>4. n \in T
  <2>1. 0 .. n \subseteq T
    <3> HIDE DEF T
    <3> QED
      BY <1>2, <1>3, BoundedInduction
  <2> QED
    BY <2>1
<1>5. n \in 0 .. n
  OBVIOUS
<1> QED
  BY <1>4, <1>5, Zenon DEF d

(* What the printing of a number has to do for the invariants.             *)
LEMMA NumberEnd ==
  ASSUME ScreenTypeOK, NEW n, NEW base, NEW digits \in Seq(Nat), PrintNumber(n, base, digits),
         n >= 0 => Value(digits, base) = n /\ (digits[1] = 0 => n = 0)
  PROVE  ScreenInv'
<1> DEFINE string == [i \in DOMAIN digits |-> "c"]
           p == printk(Cursor, string)
           call == [op |-> "number", n |-> n, base |-> base]
<1>1. UNCHANGED << textColor, textBackground >> /\ Done(call, "ok", digits, p)
  BY DEF PrintNumber
<1>2. DOMAIN string = 1 .. Len(digits) /\ Len(digits) \in Nat
  OBVIOUS
<1>3. p \in Pos
  <2> HIDE DEF string
  <2> QED
    BY <1>2, CursorPos, PrintkPos
<1>4. /\ call.op = "number" /\ call.op # "write" /\ call.op # "sprite" /\ call.n = n
      /\ call.base = base
  OBVIOUS
<1> HIDE DEF p, call
<1>5. /\ x' \in 0 .. NUM_COLUMNS - 1 /\ y' \in 0 .. NUM_ROWS - 1
      /\ last'.call = call /\ last'.printed = digits
      /\ last'.cells \subseteq Cells /\ kernel' = kernel /\ copyPage' = copyPage
  BY <1>1, <1>3, DonePos
<1>6. ScreenTypeOK'
  BY <1>1, <1>5 DEF ScreenTypeOK
<1>7. WritesWhatWasAsked' /\ AccessChecked' /\ PrintsUserBytes' /\ DrawnInPlace'
  BY <1>4, <1>5, CellsTwice DEF WritesWhatWasAsked, AccessChecked, PrintsUserBytes, DrawnInPlace, Cells
<1>8. NumberReadsBack'
  BY <1>4, <1>5 DEF NumberReadsBack
<1> QED
  BY <1>6, <1>7, <1>8 DEF ScreenInv

(* A sequence with its elements in the other order.                        *)
LEMMA ReverseIn ==
  ASSUME NEW s \in Seq(Nat)
  PROVE  Reverse(s) \in Seq(Nat)
<1>1. Reverse(s) = [i \in 1 .. Len(s) |-> s[(Len(s) - i) + 1]]
  BY DEF Reverse
<1>2. \A i \in 1 .. Len(s) : s[(Len(s) - i) + 1] \in Nat
  OBVIOUS
<1> QED
  BY <1>1, <1>2

(* The number zero.                                                        *)
LEMMA ZeroReadsBack ==
  ASSUME NEW base \in Nat
  PROVE  << 0 >> \in Seq(Nat) /\ Value(<< 0 >>, base) = 0
<1>1. << 0 >> \in Seq(Nat) /\ << >> \in Seq(Nat) /\ << 0 >> = Append(<< >>, 0) /\ 0 \in Nat
  OBVIOUS
<1>2. Value(<< 0 >>, base) = Shift(Value(<< >>, base), base, 0)
  <2>1. \A digits \in Seq(Nat), d \in Nat :
          Value(Append(digits, d), base) = Shift(Value(digits, base), base, d)
    BY ValueAppend
  <2>2. Value(Append(<< >>, 0), base) = Shift(Value(<< >>, base), base, 0)
    BY <1>1, <2>1, Zenon
  <2> QED
    BY <1>1, <2>2, Zenon
<1>3. Shift(0, base, 0) = 0
  BY DEF Shift
<1> QED
  BY <1>1, <1>2, <1>3, ValueNone, Zenon

(* The largest of the numbers that programs print.                         *)
LEMMA MaxNumberIs ==
  MaxNumber \in Numbers /\ \A n \in Numbers : n <= MaxNumber
  BY ScreenAssumption DEF MaxNumber

(* Printing with itoa, which reverses the digits it found.                 *)
LEMMA ItoaKeeps ==
  ASSUME ScreenTypeOK, NEW n \in Numbers, PrintNumber(n, 10, itoa(n))
  PROVE  ScreenInv'
<1>1. n \in Int /\ MaxNumber \in Int /\ n <= MaxNumber /\ 10 \in Nat /\ 10 > 1
  BY MaxNumberIs, ScreenAssumption
<1>2. itoa(n) \in Seq(Nat) /\ (n >= 0 => Value(itoa(n), 10) = n /\ (itoa(n)[1] = 0 => n = 0))
  <2>1. CASE n = 0
    <3>1. itoa(n) = << 0 >>
      BY <2>1 DEF itoa
    <3>2. << 0 >> \in Seq(Nat) /\ Value(<< 0 >>, 10) = 0
      BY <1>1, ZeroReadsBack, Zenon
    <3> QED
      BY <2>1, <3>1, <3>2, Zenon
  <2>2. CASE n < 0
    BY <2>2, <1>1 DEF itoa
  <2>3. CASE n > 0
    <3> DEFINE d == Digits(10)[n]
    <3>1. n \in Nat /\ MaxNumber \in Nat /\ n # 0
      BY <1>1, <2>3
    <3>2. ReadsAs(10, d, n)
      BY <1>1, <3>1, DigitsReadBack
    <3>3. itoa(n) = Reverse(d)
      BY <1>1, <2>3 DEF itoa
    <3> HIDE DEF d
    <3> QED
      BY <3>1, <3>2, <3>3, ReverseIn DEF ReadsAs
  <2> QED
    BY <1>1, <2>1, <2>2, <2>3
<1> QED
  BY <1>2, NumberEnd

(* Printing with put_hex, which reads its digits from the end.             *)
LEMMA PutHexKeeps ==
  ASSUME ScreenTypeOK, NEW n \in Numbers, n >= 0, PrintNumber(n, 16, put_hex(n))
  PROVE  ScreenInv'
<1>1. n \in Nat /\ MaxNumber \in Nat /\ n <= MaxNumber /\ 16 \in Nat /\ 16 > 1
  BY MaxNumberIs, ScreenAssumption
<1>2. put_hex(n) \in Seq(Nat) /\ (n >= 0 => Value(put_hex(n), 16) = n /\ (put_hex(n)[1] = 0 => n = 0))
  <2>1. CASE n = 0
    <3>1. put_hex(n) = << 0 >>
      BY <2>1 DEF put_hex
    <3>2. << 0 >> \in Seq(Nat) /\ Value(<< 0 >>, 16) = 0
      BY <1>1, ZeroReadsBack, Zenon
    <3> QED
      BY <2>1, <3>1, <3>2, Zenon
  <2>2. CASE n # 0
    <3> DEFINE d == Digits(16)[n]
    <3>1. ReadsAs(16, d, n)
      BY <1>1, DigitsReadBack
    <3>2. put_hex(n) = [i \in 1 .. Len(d) |-> d[Len(d) + 1 - i]]
      BY <2>2 DEF put_hex
    <3> HIDE DEF d
    <3>3. Len(d) \in Nat /\ d \in Seq(Nat)
      BY <3>1 DEF ReadsAs
    <3>4. \A i \in 1 .. Len(d) : Len(d) + 1 - i = (Len(d) - i) + 1
      BY <3>3
    <3>5. put_hex(n) = Reverse(d)
      BY <3>2, <3>4, Zenon DEF Reverse
    <3> QED
      BY <2>2, <3>1, <3>3, <3>5, ReverseIn DEF ReadsAs
  <2> QED
    BY <2>1, <2>2
<1> QED
  BY <1>2, NumberEnd

-----------------------------------------------------------------------------
(* The invariants.                                                         *)

(* The text of the boot leaves the cursor on the screen.                   *)
LEMMA ScreenInit ==
  Init => ScreenInv
<1> SUFFICES ASSUME Init PROVE ScreenInv
  OBVIOUS
<1> DEFINE p0 == [x |-> 0, y |-> FIRST_ROW, cells |-> {}]
           p == printk(p0, BootText)
<1>1. p0 \in Pos
  BY ScreenAssumption DEF Pos
<1>2. Len(BootText) \in Nat /\ DOMAIN BootText = 1 .. Len(BootText)
  BY ScreenAssumption
<1>3. p \in Pos
  <2> HIDE DEF p0
  <2> QED
    BY <1>1, <1>2, PrintkPos
<1>4. x = p.x /\ y = p.y
  BY DEF Init
<1> HIDE DEF p
<1>5. ScreenTypeOK
  BY <1>3, <1>4 DEF Init, ScreenTypeOK, Pos
<1>6. last.call.op = "boot" /\ last.cells = {}
  BY DEF Init
<1> QED
  BY <1>5, <1>6 DEF ScreenInv, WritesWhatWasAsked, AccessChecked, PrintsUserBytes, DrawnInPlace,
                    NumberReadsBack

(* Every call keeps the invariants, and needs of the state before it only  *)
(* that the cursor is on the screen.                                       *)
LEMMA ScreenStep ==
  ScreenInv /\ [Next]_vars => ScreenInv'
<1> SUFFICES ASSUME ScreenInv, [Next]_vars PROVE ScreenInv'
  OBVIOUS
<1>1. ScreenTypeOK
  BY DEF ScreenInv
<1>2. CASE UNCHANGED vars
  <2>1. ScreenTypeOK' /\ WritesWhatWasAsked' /\ DrawnInPlace'
    BY <1>2 DEF vars, ScreenInv, ScreenTypeOK, WritesWhatWasAsked, DrawnInPlace, Fits, Cells
  <2>2. AccessChecked' /\ PrintsUserBytes'
    BY <1>2 DEF vars, ScreenInv, AccessChecked, BlockEnd, PageOf, PrintsUserBytes
  <2>3. NumberReadsBack'
    BY <1>2 DEF vars, ScreenInv, NumberReadsBack
  <2> QED
    BY <2>1, <2>2, <2>3 DEF ScreenInv
<1>3. ASSUME NEW fd \in {0, 1}, NEW addr \in Addrs, NEW size \in Sizes, sys_write(fd, addr, size)
      PROVE  ScreenInv'
  BY <1>1, <1>3, SysWriteKeeps
<1>4. ASSUME NEW fd \in {0, 1}, NEW addr \in Addrs, NEW size \in Sizes, EarlierWrite(fd, addr, size)
      PROVE  ScreenInv'
  BY <1>1, <1>4, EarlierWriteKeeps
<1>5. ASSUME NEW posX \in Positions, NEW posY \in Positions, sys_gotoXY(posX, posY)
      PROVE  ScreenInv'
  BY <1>1, <1>5, GotoKeeps
<1>6. ASSUME NEW color \in Colors, NEW background \in Colors, sys_SetColor(color, background)
      PROVE  ScreenInv'
  BY <1>1, <1>6, SetColorKeeps
<1>7. ASSUME NEW posX \in Positions, NEW posY \in Positions, NEW addr \in SpriteAddrs,
             NEW sp \in Sprites, sys_spritePut(posX, posY, addr, sp)
      PROVE  ScreenInv'
  BY <1>1, <1>7, SpritePutKeeps
<1>8. CASE kbd_routine
  BY <1>1, <1>8, EchoKeeps
<1>9. ASSUME NEW n \in Numbers, PrintNumber(n, 10, itoa(n))
      PROVE  ScreenInv'
  BY <1>1, <1>9, ItoaKeeps
<1>10. ASSUME NEW n \in Numbers, n >= 0, PrintNumber(n, 16, put_hex(n))
       PROVE  ScreenInv'
  BY <1>1, <1>10, PutHexKeeps
<1> QED
  BY <1>2, <1>3, <1>4, <1>5, <1>6, <1>7, <1>8, <1>9, <1>10 DEF Next

(* The inductive invariant holds for ever.                                 *)
LEMMA ScreenInductive ==
  Spec => []ScreenInv
<1> QED
  BY ScreenInit, ScreenStep, PTL DEF Spec

(* Cursor and colours stay in range on a screen of any size, whatever is   *)
(* printed (printc, cursor_move, asthetic_change).                         *)
THEOREM ScreenTyping ==
  Spec => []ScreenTypeOK
<1>1. ScreenInv => ScreenTypeOK
  BY DEF ScreenInv
<1> QED
  BY <1>1, ScreenInductive, PTL

(* However large the buffer and the words of the copies are, a write that  *)
(* succeeds prints the block, byte after byte (sys_write, copy_data).      *)
THEOREM WritesAreWhole ==
  Spec => []WritesWhatWasAsked
<1>1. ScreenInv => WritesWhatWasAsked
  BY DEF ScreenInv
<1> QED
  BY <1>1, ScreenInductive, PTL

(* access_ok lets the blocks of the program through, and of the others     *)
(* only those that end in the next page, wherever the pages are.           *)
THEOREM AccessIsChecked ==
  Spec => []AccessChecked
<1>1. ScreenInv => AccessChecked
  BY DEF ScreenInv
<1> QED
  BY <1>1, ScreenInductive, PTL

(* Whatever the earlier kernel reads beyond the block that access_ok saw,  *)
(* no write prints memory of the kernel.                                   *)
THEOREM UserBytesPrinted ==
  Spec => []PrintsUserBytes
<1>1. ScreenInv => PrintsUserBytes
  BY DEF ScreenInv
<1> QED
  BY <1>1, ScreenInductive, PTL

(* Sprites that fit are drawn in their rectangle, and the screen is left   *)
(* by no call but the drawing of one that does not, which stays in the     *)
(* memory of a second screen (spriteDraw).                                 *)
THEOREM SpritesDrawnInPlace ==
  Spec => []DrawnInPlace
<1>1. ScreenInv => DrawnInPlace
  BY DEF ScreenInv
<1> QED
  BY <1>1, ScreenInductive, PTL

(* The digits of itoa and put_hex read back as the number.                 *)
THEOREM NumbersReadBack ==
  Spec => []NumberReadsBack
<1>1. ScreenInv => NumberReadsBack
  BY DEF ScreenInv
<1> QED
  BY <1>1, ScreenInductive, PTL
=============================================================================
