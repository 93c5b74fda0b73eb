---------------------------- MODULE MCAutoDaemon ----------------------------
(* A small instance of AutoDaemon for TLC.                                 *)
EXTENDS AutoDaemon, TLC

(* A credit about to expire, one that never does, one that has expired.    *)
Soon == [available |-> TRUE, left |-> 3]
Lasting == [available |-> TRUE, left |-> NoExpiry]
Stale == [available |-> TRUE, left |-> 0]
SomeCredits == {{}, {Soon, Lasting}, {Lasting, Stale}, {Stale}}
NoCredits == {{}}

DaemonSymmetry == Permutations(Daemons)
=============================================================================
