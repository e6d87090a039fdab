---------------------------- MODULE UserMemory -----------------------------
(***************************************************************************)
(* User memory as the kernels see it: access_ok, which every system call   *)
(* with a pointer asks first, and the copies between user and kernel       *)
(* space.  utils.c is the same file in both kernels but for the bounds of  *)
(* the write check.                                                        *)
(*                                                                         *)
(* A byte is represented by the address it was read from.                  *)
(***************************************************************************)
EXTENDS Integers, Sequences

CONSTANTS
  PAGE_SIZE,        \* bytes of a page, 4096 in the code
  ADDRESS_RANGE,    \* number of addresses, 2^32
  USER_FIRST_PAGE,  \* first page of a program
  NUM_PAG_CODE,     \* pages of code of a program
  NUM_PAG_DATA,     \* pages of data and stack of a program
  WORD              \* bytes of a DWord, 4

ASSUME AddressAssumption ==
  /\ {PAGE_SIZE, ADDRESS_RANGE, USER_FIRST_PAGE, NUM_PAG_CODE, NUM_PAG_DATA, WORD}
       \subseteq Nat \ {0}
  /\ (USER_FIRST_PAGE + 2 * (NUM_PAG_CODE + NUM_PAG_DATA + 1)) * PAGE_SIZE <= ADDRESS_RANGE

(* The first page after those of a program.                                *)
USER_END == USER_FIRST_PAGE + NUM_PAG_CODE + NUM_PAG_DATA

PageOf(addr) == (addr % ADDRESS_RANGE) \div PAGE_SIZE

(* The pages a block may be in for each type of access.  The later kernel  *)
(* has the code first, the earlier one the data.                           *)
FirstWritable(kernel) ==
  IF kernel = "later" THEN USER_FIRST_PAGE + NUM_PAG_CODE ELSE USER_FIRST_PAGE
LastWritable(kernel) ==
  IF kernel = "later" THEN USER_FIRST_PAGE + NUM_PAG_CODE + NUM_PAG_DATA
                      ELSE USER_FIRST_PAGE + NUM_PAG_DATA

(* Mutant: only the start of the block is looked at.                       *)
MutStartOnly(kernel, type, addr, size) ==
  PageOf(addr) >= USER_FIRST_PAGE /\ PageOf(addr) <= USER_END

(* Mutant: the start of the block is not compared with that of the program. *)
MutNoLowerBound(kernel, type, addr, size) ==
  PageOf(addr + size) >= PageOf(addr) /\ PageOf(addr + size) <= USER_END

(* The page numbers are taken modulo the address range, so that a block    *)
(* that wraps ends before it starts.  The page after the last byte may be  *)
(* USER_END, whether the block stops short of it or reaches into it.  The  *)
(* case VERIFY_WRITE has no break and goes on to the test for reading.     *)
(* (The part for the heap is used by sys_threadCreate only.)               *)
access_ok(kernel, type, addr, size) ==
  LET addr_ini == PageOf(addr)
      addr_fin == PageOf(addr + size)
  IN /\ addr_fin >= addr_ini
     /\ \/ /\ type = "VERIFY_WRITE"
           /\ addr_ini >= FirstWritable(kernel) /\ addr_fin <= LastWritable(kernel)
        \/ addr_ini >= USER_FIRST_PAGE /\ addr_fin <= USER_END

(* The bytes the loop over words of a copy moves: words go while more than *)
(* a word is left, so that the last word of a block goes byte by byte.     *)
InWords(size) == IF size > WORD THEN ((size - 1) \div WORD) * WORD ELSE 0

copy_data(start, size) ==
  [i \in 1 .. InWords(size) |-> start + i - 1]
    \o [i \in 1 .. size - InWords(size) |-> start + InWords(size) + i - 1]

copy_from_user(start, size) == copy_data(start, size)
=============================================================================
