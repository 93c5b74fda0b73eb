----------------------------- MODULE MCFileLock -----------------------------
(* Two processes with two threads each.                                    *)
EXTENDS FileLock, TLC

CONSTANTS t1, t2, t3, t4, p1, p2

MCHome == t1 :> p1 @@ t2 :> p1 @@ t3 :> p2 @@ t4 :> p2
=============================================================================
