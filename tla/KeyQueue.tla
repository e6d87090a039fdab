------------------------------ MODULE KeyQueue ------------------------------
(***************************************************************************)
(* What the keyboard buffer promises its reader: keys are delivered in the *)
(* order in which they were released, each once, as long as no key arrives *)
(* while Size keys wait.  After such an overrun the reader knows only how  *)
(* many reads will return a key, not which; once it has made them the      *)
(* promise holds again.                                                    *)
(***************************************************************************)
EXTENDS Naturals, Sequences

CONSTANTS Size, Keys

VARIABLES
  queue,      \* the keys that wait, oldest first
  unknown,    \* number of arbitrary keys that wait after an overrun
  delivered   \* what the last read returned: a sequence of at most one key

qvars == << queue, unknown, delivered >>

QInit == queue = << >> /\ unknown = 0 /\ delivered = << >>

(* A key arrives and there is room for it.                                 *)
Arrive(key) ==
  /\ unknown = 0
  /\ Len(queue) < Size
  /\ queue' = Append(queue, key)
  /\ UNCHANGED << unknown, delivered >>

(* A key arrives and there is none.                                        *)
Overrun ==
  /\ unknown = 0
  /\ Len(queue) = Size
  /\ queue' = << >>
  /\ unknown' = Size + 1
  /\ UNCHANGED delivered

(* Another key after an overrun; the counter may overflow, and then all is *)
(* forgotten.                                                              *)
ArriveUnknown ==
  /\ unknown > 0
  /\ unknown' \in {unknown + 1, 0}
  /\ UNCHANGED << queue, delivered >>

Deliver ==
  /\ queue # << >>
  /\ delivered' = << Head(queue) >>
  /\ queue' = Tail(queue)
  /\ UNCHANGED unknown

DeliverUnknown ==
  /\ unknown > 0
  /\ unknown' = unknown - 1
  /\ \E key \in Keys : delivered' = << key >>
  /\ UNCHANGED queue

(* The reader is told that nothing waits only when this is so.             *)
DeliverNothing ==
  /\ queue = << >>
  /\ unknown = 0
  /\ delivered' = << >>
  /\ UNCHANGED << queue, unknown >>

QNext ==
  \/ \E key \in Keys : Arrive(key)
  \/ Overrun
  \/ ArriveUnknown
  \/ Deliver
  \/ DeliverUnknown
  \/ DeliverNothing

QSpec == QInit /\ [][QNext]_qvars
=============================================================================
