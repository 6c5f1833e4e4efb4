---------------------------- MODULE MCDaemonRun ----------------------------
(* DaemonRun for TLC: two daemons of one user and one client that holds a   *)
(* stream.                                                                  *)
EXTENDS DaemonRun, TLC

CONSTANTS d1, d2, c1

MCDaemons   == {d1, d2}
MCStreamers == {c1}
=============================================================================
