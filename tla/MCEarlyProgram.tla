--------------------------- MODULE MCEarlyProgram ---------------------------
(* The instance of module EarlyProgram that TLC checks.                    *)
EXTENDS EarlyProgram

MCPids == {rfork2}
=============================================================================
