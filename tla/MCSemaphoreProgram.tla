------------------------- MODULE MCSemaphoreProgram -------------------------
(* The instance of module SemaphoreProgram that TLC checks, with the       *)
(* inputs of module Processes that the program chooses.                    *)
EXTENDS SemaphoreProgram

MCNone == {}
MCValues == {1}
MCIds == {semid}
=============================================================================
