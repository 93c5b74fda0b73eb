------------------------------- MODULE Mutex -------------------------------
(***************************************************************************)
(* What FileLock promises to the code between `with' and the end of the    *)
(* block: of all the threads of all the processes, at most one at a time   *)
(* holds the lock file, and nobody holds two.  How a thread waits, how     *)
(* often it nests and who died are not visible here.                       *)
(***************************************************************************)
CONSTANTS Threads, Files, NoThread  \* NoThread is not a thread

VARIABLE holder

Init == holder = [f \in Files |-> NoThread]

Acquire(t, f) ==
    /\ holder[f] = NoThread
    /\ \A g \in Files : holder[g] # t
    /\ holder' = [holder EXCEPT ![f] = t]

Release(t, f) ==
    /\ holder[f] = t
    /\ holder' = [holder EXCEPT ![f] = NoThread]

Next == \E t \in Threads, f \in Files : Acquire(t, f) \/ Release(t, f)

Spec == Init /\ [][Next]_holder
=============================================================================
