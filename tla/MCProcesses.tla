---------------------------- MODULE MCProcesses ----------------------------
(* The instances of module Processes that TLC checks.                      *)
EXTENDS Processes

(* Initial values and identifiers with the edges the code lets through; a  *)
(* counter above zero is reached by signals.                               *)
MCAllValues == {-1, 0}
MCAllIds == 0 .. NUM_SEM

(* The ones a program that follows the comments of sys.c uses.             *)
MCNatValues == {0, 1}
MCIds == 0 .. NUM_SEM - 1

(* A program that makes no such call.                                      *)
MCNone == {}

MCAnyFork == {"ok", "EAGAIN", "page_fault"}
=============================================================================
