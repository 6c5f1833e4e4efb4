---------------------------- MODULE MCProcesses ----------------------------
(* Processes for TLC: one daemon, started again, and a status program, under *)
(* every configuration.                                                      *)
EXTENDS Processes, TLC

CONSTANTS d1, t1, t2

MCDaemons   == {d1}
MCStreamers == {}
MCTexts     == {t1, t2}
MCNumbers   == {-1, 0, 1, 5}
=============================================================================
