------------------------------ MODULE FileLock ------------------------------
(***************************************************************************)
(* locking.FileLock: an OS lock on a file keeps processes apart, and a     *)
(* registry inside each process keeps its threads apart and lets one       *)
(* thread nest.  Every use in the program is `with FileLock(path)' on the  *)
(* same path, <home>/.lock, with an instance of its own, so an instance's  *)
(* _depths entry is 1 exactly while its block is open and is not a         *)
(* variable here; `blocks' counts the open blocks of a thread instead.     *)
(*                                                                         *)
(* Everything done under _locks_guard is one step.  The path names a       *)
(* directory entry: `codexswap purge' removes it, lock or no lock, and the *)
(* next opener makes a new file, which is locked independently.  The OS    *)
(* lock is flock (_backend = "fcntl"): it belongs to the open file, and    *)
(* the system drops it when the process dies.                              *)
(***************************************************************************)
EXTENDS Integers

CONSTANTS
    Threads, Procs,
    Home,       \* the process each thread runs in
    MaxBlocks,  \* bound: how deep a thread nests `with FileLock'
    MaxPurge,   \* bound: how often the home is purged
    NoThread, NoProc

ASSUME FileLockAssumption ==
    /\ Home \in [Threads -> Procs]
    /\ MaxBlocks \in Nat /\ MaxPurge \in Nat
    /\ NoThread \notin Threads /\ NoProc \notin Procs

Files == 0..MaxPurge
NoFile == -1

VARIABLES
    pc,      \* per thread: outside __enter__, first attempt to come, polling
    blocks,  \* per thread: the `with' blocks it is inside of
    handle,  \* per thread: the file __enter__ opened and has not locked yet
    held,    \* _locks, per process: the file of its _Held, NoFile if none
    owner,   \*   _Held.owner
    depth,   \*   _Held.depth
    locked,  \* per file: the process whose handle holds the OS lock
    entry    \* the file the path <home>/.lock names, or will name once opened

registry == <<held, owner, depth>>
vars == <<pc, blocks, handle, registry, locked, entry>>

PcSet == {"out", "entering", "polling"}

(* Every variable has its type; the registry has no entry of depth 0.      *)
TypeOK ==
    /\ pc \in [Threads -> PcSet]
    /\ blocks \in [Threads -> Nat]
    /\ handle \in [Threads -> Files \cup {NoFile}]
    /\ held \in [Procs -> Files \cup {NoFile}]
    /\ owner \in [Procs -> Threads \cup {NoThread}]
    /\ depth \in [Procs -> Nat]
    /\ \A p \in Procs : depth[p] = 0 <=> held[p] = NoFile
    /\ locked \in [Files -> Procs \cup {NoProc}]
    /\ entry \in Files

Init ==
    /\ pc = [t \in Threads |-> "out"]
    /\ blocks = [t \in Threads |-> 0]
    /\ handle = [t \in Threads |-> NoFile]
    /\ held = [p \in Procs |-> NoFile]
    /\ owner = [p \in Procs |-> NoThread]
    /\ depth = [p \in Procs |-> 0]
    /\ locked = [f \in Files |-> NoProc]
    /\ entry = 0

-----------------------------------------------------------------------------
(* __enter__.                                                              *)

(* A thread reaches a `with FileLock' statement.                           *)
Enter(t) ==
    /\ pc[t] = "out" /\ blocks[t] < MaxBlocks
    /\ pc' = [pc EXCEPT ![t] = "entering"]
    /\ UNCHANGED <<blocks, handle, registry, locked, entry>>

(* As if the registry did not record which thread is inside.               *)
NestsInProcess(t) == held[Home[t]] # NoFile
Nests(t) == held[Home[t]] # NoFile /\ owner[Home[t]] = t

(* The handle __enter__ tries: opened once, then kept from poll to poll.   *)
Opened(t) == IF handle[t] = NoFile THEN entry ELSE handle[t]

(* This thread is in the critical section already.                         *)
Reenter(t) ==
    /\ pc[t] # "out" /\ Nests(t)
    /\ depth' = [depth EXCEPT ![Home[t]] = @ + 1]
    /\ blocks' = [blocks EXCEPT ![t] = @ + 1]
    /\ handle' = [handle EXCEPT ![t] = NoFile]
    /\ pc' = [pc EXCEPT ![t] = "out"]
    /\ UNCHANGED <<held, owner, locked, entry>>

(* As if the refusal of the OS lock were ignored.                          *)
AlwaysFree(f) == TRUE
Free(f) == locked[f] = NoProc

(* Nobody in this process is, and the OS grants the lock: the registry     *)
(* takes the handle over.                                                  *)
Acquire(t) ==
    /\ pc[t] # "out" /\ held[Home[t]] = NoFile
    /\ Free(Opened(t))
    /\ locked' = [locked EXCEPT ![Opened(t)] = Home[t]]
    /\ held' = [held EXCEPT ![Home[t]] = Opened(t)]
    /\ owner' = [owner EXCEPT ![Home[t]] = t]
    /\ depth' = [depth EXCEPT ![Home[t]] = 1]
    /\ blocks' = [blocks EXCEPT ![t] = @ + 1]
    /\ handle' = [handle EXCEPT ![t] = NoFile]
    /\ pc' = [pc EXCEPT ![t] = "out"]
    /\ UNCHANGED entry

(* Another thread of this process is: nothing is opened, sleep and retry.  *)
WaitForThread(t) ==
    /\ pc[t] # "out" /\ held[Home[t]] # NoFile /\ ~Nests(t)
    /\ pc' = [pc EXCEPT ![t] = "polling"]
    /\ UNCHANGED <<blocks, handle, registry, locked, entry>>

(* Another process is: the handle stays open, sleep and retry.             *)
WaitForProcess(t) ==
    /\ pc[t] # "out" /\ held[Home[t]] = NoFile
    /\ ~Free(Opened(t))
    /\ handle' = [handle EXCEPT ![t] = Opened(t)]
    /\ pc' = [pc EXCEPT ![t] = "polling"]
    /\ UNCHANGED <<blocks, registry, locked, entry>>

(* As if the deadline were looked at only where the OS lock was refused.    *)
GiveUpOnFile(t) ==
    /\ pc[t] = "polling" /\ handle[t] # NoFile
    /\ pc' = [pc EXCEPT ![t] = "out"]
    /\ handle' = [handle EXCEPT ![t] = NoFile]
    /\ UNCHANGED <<blocks, registry, locked, entry>>

(* The deadline passed (LockBusy), or the wait was interrupted.            *)
GiveUp(t) ==
    /\ pc[t] = "polling"
    /\ pc' = [pc EXCEPT ![t] = "out"]
    /\ handle' = [handle EXCEPT ![t] = NoFile]
    /\ UNCHANGED <<blocks, registry, locked, entry>>

-----------------------------------------------------------------------------
(* __exit__, of the innermost block.                                       *)

(* As if the first __exit__ released the lock, whatever the depth.         *)
NeverNested(p) == FALSE
(* As if the last exit only counted down.                                  *)
NestedAtOne(p) == depth[p] >= 1
Nested(p) == depth[p] > 1

Unnest(t) ==
    /\ pc[t] = "out" /\ blocks[t] > 0 /\ Nested(Home[t])
    /\ depth' = [depth EXCEPT ![Home[t]] = @ - 1]
    /\ blocks' = [blocks EXCEPT ![t] = @ - 1]
    /\ UNCHANGED <<pc, handle, held, owner, locked, entry>>

(* As if the registry entry went, and the handle stayed open and locked.   *)
Forget(p) ==
    /\ held' = [held EXCEPT ![p] = NoFile]
    /\ owner' = [owner EXCEPT ![p] = NoThread]
    /\ depth' = [depth EXCEPT ![p] = 0]
    /\ locked' = locked

Drop(p) ==
    /\ held' = [held EXCEPT ![p] = NoFile]
    /\ owner' = [owner EXCEPT ![p] = NoThread]
    /\ depth' = [depth EXCEPT ![p] = 0]
    /\ locked' = [f \in Files |-> IF locked[f] = p THEN NoProc ELSE locked[f]]

Exit(t) ==
    /\ pc[t] = "out" /\ blocks[t] > 0 /\ ~Nested(Home[t])
    /\ Drop(Home[t])
    /\ blocks' = [blocks EXCEPT ![t] = @ - 1]
    /\ UNCHANGED <<pc, handle, entry>>

-----------------------------------------------------------------------------
(* A process dies; its threads are those of the next one started in its    *)
(* place.  Its memory is gone, and so are its handles.                     *)
Crash(p) ==
    /\ Drop(p)
    /\ pc' = [t \in Threads |-> IF Home[t] = p THEN "out" ELSE pc[t]]
    /\ blocks' = [t \in Threads |-> IF Home[t] = p THEN 0 ELSE blocks[t]]
    /\ handle' = [t \in Threads |-> IF Home[t] = p THEN NoFile ELSE handle[t]]
    /\ UNCHANGED entry

(* `codexswap purge' removes the home with the lock file in it, without    *)
(* taking the lock.                                                        *)
Purge ==
    /\ entry < MaxPurge
    /\ entry' = entry + 1
    /\ UNCHANGED <<pc, blocks, handle, registry, locked>>

Poll(t) == Reenter(t) \/ Acquire(t) \/ WaitForThread(t) \/ WaitForProcess(t)

Step(t) == Enter(t) \/ Poll(t) \/ GiveUp(t) \/ Unnest(t) \/ Exit(t)

Next == Purge \/ (\E p \in Procs : Crash(p)) \/ (\E t \in Threads : Step(t))

Spec == Init /\ [][Next]_vars

(* A thread inside __enter__ is scheduled, and its deadline comes.         *)
FairSpec ==
    /\ Spec
    /\ \A t \in Threads : WF_vars(Poll(t)) /\ WF_vars(GiveUp(t))

-----------------------------------------------------------------------------
(* Properties.                                                             *)

Inside(t) == blocks[t] > 0

(* No two threads, of one process or of two, are inside blocks of the same *)
(* lock file.  Only a purge, which replaces the file under a block that is *)
(* open, lets two threads inside at once (FileLock.__enter__, _purge).     *)
MutualExclusion ==
    \A t, u \in Threads :
        Inside(t) /\ Inside(u) /\ t # u => held[Home[t]] # held[Home[u]]

(* A thread inside a block owns its process's entry, at the depth of its   *)
(* nesting: the end of an inner block does not end the outer one's         *)
(* protection, and no other thread's entry or exit does.                   *)
BlocksHeld ==
    \A t \in Threads : Inside(t) =>
        /\ held[Home[t]] # NoFile
        /\ owner[Home[t]] = t
        /\ depth[Home[t]] = blocks[t]

(* A locked file is locked for a thread that is inside a block: no exit,   *)
(* timeout or crash leaves a lock behind on which every later command      *)
(* would time out.                                                         *)
NothingLeaks ==
    \A f \in Files : locked[f] # NoProc =>
        \E t \in Threads : /\ Home[t] = locked[f] /\ Inside(t)
                           /\ held[Home[t]] = f

(* The thread inside blocks of each file, as the processes' registries     *)
(* say.                                                                    *)
HolderIn(files, owners) ==
    [f \in Files |->
        IF \E p \in Procs : files[p] = f
        THEN owners[CHOOSE p \in Procs : files[p] = f]
        ELSE NoThread]

Holder == HolderIn(held, owner)

(* The file lock is a mutex: every step of it takes a free file for one    *)
(* thread, gives one back, or changes nothing that can be seen.            *)
Abstract == INSTANCE Mutex WITH holder <- Holder
ImplementsMutex == Abstract!Spec

(* Whoever waits for the lock gets in or is told that it is busy.          *)
EntryEnds == \A t \in Threads : pc[t] # "out" ~> pc[t] = "out"

-----------------------------------------------------------------------------
(* The strengthening under which the safety properties are inductive: the  *)
(* registries, the OS locks and the open blocks tell the same story.       *)

RegistryInv ==
    \A p \in Procs : held[p] # NoFile =>
        /\ locked[held[p]] = p
        /\ owner[p] \in Threads /\ Home[owner[p]] = p
        /\ depth[p] > 0 /\ blocks[owner[p]] = depth[p]

LockedInv == \A f \in Files : locked[f] # NoProc => held[locked[f]] = f

LockInv == TypeOK /\ RegistryInv /\ LockedInv /\ BlocksHeld
=============================================================================
