--------------------------- MODULE MCEarlyKernel ---------------------------
(* The instances of the earlier kernel that TLC checks.                    *)
EXTENDS EarlyMemory

(* The first processes, and one that never exists.                         *)
MCPids == {2, 3, 9}
=============================================================================
