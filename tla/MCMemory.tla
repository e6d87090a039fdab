----------------------------- MODULE MCMemory -----------------------------
(* The instances of module Memory that TLC checks.                         *)
EXTENDS Memory

MCForkResults == {"ok", "EAGAIN", "page_fault"}
MCValues == {0}
MCIds == 0 .. NUM_SEM
MCSizes == {-1, 1, 2}
=============================================================================
