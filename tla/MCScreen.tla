------------------------------ MODULE MCScreen ------------------------------
(* The instance of module Screen that TLC checks: a screen of two rows and *)
(* three columns, words of two bytes, a kernel buffer of three bytes, and  *)
(* a program in the pages 2 and 3 of eight bytes.                          *)
EXTENDS Screen

MCBootText == << "c", "c", "\n" >>
MCNewlines == {18, 29}

(* NULL, the borders of the program, its inside and the last address.      *)
MCAddrs == {0, 15, 16, 20, 26, 31, 32, 63}

(* From none to more than a page: one byte, and the buffer once, twice and *)
(* three times, exactly or with one byte more.                             *)
MCSizes == {-1, 0, 1, 3, 4, 6, 7, 9, 10}

MCPositions == -1 .. 3
MCColors == {-1, 15, 16}
MCNumbers == {-3, 0, 7, 10, 105, 256}

(* Outside the program, inside, and reaching beyond its end.               *)
MCSpriteAddrs == {15, 16, 28}

MCSprites ==
  {[x |-> 1, y |-> 2, content |-> << "c", "c" >>],
   [x |-> 2, y |-> 2, content |-> << "c", "c", "c", "NUL" >>],
   [x |-> 2, y |-> 1, content |-> << "c", "c" >>],
   [x |-> 1, y |-> 3, content |-> << "c", "\n", "c" >>],
   [x |-> 0, y |-> 1, content |-> << "c" >>],
   [x |-> 3, y |-> 1, content |-> << "c", "c", "c" >>],
   [x |-> 1, y |-> 1, content |-> << >>]}
=============================================================================
