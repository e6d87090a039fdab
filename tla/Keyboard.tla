------------------------------ MODULE Keyboard ------------------------------
(***************************************************************************)
(* The keyboard buffer cBuffer of ZeOSSysenter/zeos: the keyboard          *)
(* interrupt writes it (interrupt.c) and sys_getKey reads it (sys.c).  The *)
(* two never overlap, since both run with interrupts disabled.             *)
(***************************************************************************)
EXTENDS Integers, Sequences, Functions

CONSTANTS
  CBUFFER_SIZE,   \* places in the ring
  COUNTER_RANGE,  \* number of values of the unsigned int Bwritten
  Scancodes,      \* bytes the keyboard may send
  char_map        \* the character of each key; several keys share some

ASSUME SizeAssumption == CBUFFER_SIZE \in Nat \ {0}

(* In the code they are 2^8 and 2^32.                                      *)
ASSUME RangeAssumption ==
  /\ COUNTER_RANGE \in Nat
  /\ COUNTER_RANGE > CBUFFER_SIZE + 1
  /\ COUNTER_RANGE % CBUFFER_SIZE = 0

(* char_map has 98 entries.  The codes of keys and the prefixes 0xE0 and   *)
(* 0xE1, which the code takes for keys, fall inside.                       *)
ASSUME ScancodeAssumption ==
  /\ Scancodes \subseteq 0 .. 255
  /\ \A c \in Scancodes : c >= 128 => c - 128 \in DOMAIN char_map

Place == 0 .. CBUFFER_SIZE - 1
NUL == 0
Chars == Range(char_map) \cup {NUL}

VARIABLES
  buffer, rpointer, wpointer, Bwritten,   \* the fields of cBuffer
  delivered,                              \* what the last sys_getKey returned
  overrun   \* history: a key has overwritten one that was not read, and the
            \* buffer has not been empty since

vars == << buffer, rpointer, wpointer, Bwritten, delivered, overrun >>

Init ==
  /\ buffer = [i \in Place |-> NUL]
  /\ rpointer = 0
  /\ wpointer = 0
  /\ Bwritten = 0
  /\ delivered = << >>
  /\ overrun = FALSE

(* Mutant: the index does not return to zero.                              *)
MutNoWrap(i) == i + 1

NextPlace(i) == (i + 1) % CBUFFER_SIZE

(* Mutant: a counter as wide as the ring.                                  *)
MutNarrow(n) == n % CBUFFER_SIZE

(* unsigned int arithmetic.                                                *)
Unsigned(n) == n % COUNTER_RANGE

(* Mutant: keys that do not fit are counted although they are dropped.     *)
MutDropped(c) ==
  /\ c >= 128
  /\ buffer' = IF Bwritten < CBUFFER_SIZE THEN [buffer EXCEPT ![wpointer] = char_map[c - 128]]
                                          ELSE buffer
  /\ wpointer' = IF Bwritten < CBUFFER_SIZE THEN NextPlace(wpointer) ELSE wpointer
  /\ Bwritten' = Unsigned(Bwritten + 1)
  /\ overrun' = (Bwritten' # 0 /\ (overrun \/ Bwritten' > CBUFFER_SIZE))
  /\ UNCHANGED << rpointer, delivered >>

(* keyboard_routine: only the release of a key, a byte with bit 7 set, is  *)
(* recorded.  The test of the write pointer against the size of the ring   *)
(* never fails, so that a full ring is overwritten.                        *)
keyboard_routine(c) ==
  /\ c >= 128
  /\ wpointer < CBUFFER_SIZE
  /\ buffer' = [buffer EXCEPT ![wpointer] = char_map[c - 128]]
  /\ wpointer' = NextPlace(wpointer)
  /\ Bwritten' = Unsigned(Bwritten + 1)
  /\ overrun' = (Bwritten' # 0 /\ (overrun \/ Bwritten' > CBUFFER_SIZE))
  /\ UNCHANGED << rpointer, delivered >>

(* sys_getKey with a pointer that access_ok accepts.  The calls with NULL  *)
(* or another bad pointer return an error and change nothing.              *)
sys_getKey ==
  \/ /\ Bwritten = 0
     /\ delivered' = << >>
     /\ UNCHANGED << buffer, rpointer, wpointer, Bwritten, overrun >>
  \/ /\ Bwritten # 0
     /\ delivered' = << buffer[rpointer] >>
     /\ rpointer' = NextPlace(rpointer)
     /\ Bwritten' = Unsigned(Bwritten - 1)
     /\ overrun' = (overrun /\ Bwritten' # 0)
     /\ UNCHANGED << buffer, wpointer >>

Next ==
  \/ \E c \in Scancodes : keyboard_routine(c)
  \/ sys_getKey

Spec == Init /\ [][Next]_vars

-----------------------------------------------------------------------------
(* Type invariant: in particular, both indices stay inside the array,      *)
(* which the kernel indexes with them unchecked.                           *)
TypeOK ==
  /\ buffer \in [Place -> Chars]
  /\ rpointer \in Place
  /\ wpointer \in Place
  /\ Bwritten \in 0 .. COUNTER_RANGE - 1
  /\ delivered \in {<< >>} \cup {<< key >> : key \in Chars}
  /\ overrun \in BOOLEAN

(* The counter is the distance from the read to the write index, also when *)
(* the writer has lapped the reader and when the counter has wrapped round *)
(* 2^32: an overrun never puts the two out of step for good.               *)
IndicesAgree == wpointer = (rpointer + Bwritten) % CBUFFER_SIZE

(* The ring implements the queue of module KeyQueue: keyboard_routine and  *)
(* sys_getKey lose, repeat or reorder keys only after a key arrived at a   *)
(* full ring, and no longer once the ring has been emptied.                *)
KQ == INSTANCE KeyQueue WITH
        Size <- CBUFFER_SIZE,
        Keys <- Chars,
        queue <- IF overrun THEN << >>
                 ELSE [i \in 1 .. Bwritten |-> buffer[(rpointer + i - 1) % CBUFFER_SIZE]],
        unknown <- IF overrun THEN Bwritten ELSE 0
ImplementsQueue == KQ!QSpec
=============================================================================
