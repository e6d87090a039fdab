---------------------------- MODULE MCStatistics ----------------------------
(* The instance of module Statistics that TLC checks.                      *)
EXTENDS Statistics

MCValues == {0}
MCIds == 0 .. NUM_SEM - 1
MCForks == {"ok", "EAGAIN"}

(* The first process, the child it forks, and a PID nobody has.            *)
MCStatPids == {-1, 1, 1001}
=============================================================================
