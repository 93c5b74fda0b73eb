--------------------------- MODULE FileLockProofs ---------------------------
(***************************************************************************)
(* Mutual exclusion of FileLock for any number of processes and threads,   *)
(* any depth of nesting and any number of purges, and the step simulation  *)
(* that makes it an implementation of Mutex.                               *)
(***************************************************************************)
EXTENDS FileLock, TLAPS

-----------------------------------------------------------------------------
(* The inductive invariant holds at first.                                 *)
LEMMA LockInvInit == Init => LockInv
  BY FileLockAssumption
  DEF Init, LockInv, TypeOK, PcSet, RegistryInv, LockedInv, BlocksHeld, Inside,
      Files, NoFile

(* Steps that change none of the registries, OS locks and open blocks.     *)
LEMMA QuietStep ==
    ASSUME LockInv,
           pc' \in [Threads -> PcSet],
           handle' \in [Threads -> Files \cup {NoFile}],
           entry' \in Files,
           UNCHANGED <<blocks, registry, locked>>
    PROVE  LockInv'
  BY DEF LockInv, TypeOK, RegistryInv, LockedInv, BlocksHeld, Inside, registry

(* A thread that is inside already nests once more.                        *)
LEMMA ReenterStep ==
    ASSUME LockInv, NEW t \in Threads, Reenter(t) PROVE LockInv'
<1>1. Home[t] \in Procs /\ Nests(t)
  BY FileLockAssumption DEF Reenter
<1>2. /\ depth' = [depth EXCEPT ![Home[t]] = @ + 1]
      /\ blocks' = [blocks EXCEPT ![t] = @ + 1]
      /\ UNCHANGED <<held, owner, locked, entry>>
  BY DEF Reenter
<1>3. TypeOK'
  <2>1. /\ pc' = [pc EXCEPT ![t] = "out"]
        /\ handle' = [handle EXCEPT ![t] = NoFile]
    BY DEF Reenter
  <2>2. \A p \in Procs : depth'[p] = 0 <=> held'[p] = NoFile
    BY <1>1, <1>2 DEF LockInv, TypeOK, Nests
  <2> QED
    BY <1>1, <1>2, <2>1, <2>2 DEF LockInv, TypeOK, PcSet
<1>4. RegistryInv'
  BY <1>1, <1>2 DEF LockInv, TypeOK, RegistryInv, Nests
<1>5. LockedInv'
  BY <1>2 DEF LockInv, LockedInv
<1>6. BlocksHeld'
  BY <1>1, <1>2, FileLockAssumption
  DEF LockInv, TypeOK, RegistryInv, BlocksHeld, Inside, Nests
<1> QED
  BY <1>3, <1>4, <1>5, <1>6 DEF LockInv

(* The file a thread tries is a file.                                      *)
LEMMA OpenedType ==
    ASSUME TypeOK, NEW t \in Threads PROVE Opened(t) \in Files
  BY DEF TypeOK, Opened

(* A thread becomes the one inside.                                        *)
LEMMA AcquireStep ==
    ASSUME LockInv, NEW t \in Threads, Acquire(t) PROVE LockInv'
<1> DEFINE p == Home[t]
           f == Opened(t)
<1>1. p \in Procs /\ f \in Files /\ f # NoFile /\ p # NoProc
  BY FileLockAssumption, OpenedType DEF LockInv, Files, NoFile
<1>2. /\ held[p] = NoFile /\ locked[f] = NoProc
      /\ locked' = [locked EXCEPT ![f] = p]
      /\ held' = [held EXCEPT ![p] = f]
      /\ owner' = [owner EXCEPT ![p] = t]
      /\ depth' = [depth EXCEPT ![p] = 1]
      /\ blocks' = [blocks EXCEPT ![t] = @ + 1]
  BY DEF Acquire, Free
<1>3. TypeOK'
  <2>1. /\ pc' = [pc EXCEPT ![t] = "out"]
        /\ handle' = [handle EXCEPT ![t] = NoFile]
        /\ entry' = entry
    BY DEF Acquire
  <2> HIDE DEF p, f
  <2> QED
    BY <1>1, <1>2, <2>1 DEF LockInv, TypeOK, PcSet
<1>4. blocks[t] = 0
  BY <1>2 DEF LockInv, TypeOK, BlocksHeld, Inside
<1>5. RegistryInv'
  <2> SUFFICES ASSUME NEW q \in Procs, held'[q] # NoFile
               PROVE  /\ locked'[held'[q]] = q
                      /\ owner'[q] \in Threads /\ Home[owner'[q]] = q
                      /\ depth'[q] > 0 /\ blocks'[owner'[q]] = depth'[q]
    BY DEF RegistryInv
  <2>1. CASE q = p
    <3> HIDE DEF f
    <3> QED
      BY <1>1, <1>2, <1>4, <2>1 DEF LockInv, TypeOK
  <2>2. CASE q # p
    <3>1. held'[q] = held[q] /\ owner'[q] = owner[q] /\ depth'[q] = depth[q]
      BY <1>1, <1>2, <2>2 DEF LockInv, TypeOK
    <3>2. locked[held[q]] = q /\ owner[q] # t /\ held[q] # f
      BY <1>1, <1>2, <2>2, <3>1, FileLockAssumption DEF LockInv, RegistryInv
    <3> HIDE DEF p, f
    <3> QED
      BY <1>1, <1>2, <3>1, <3>2 DEF LockInv, TypeOK, RegistryInv
  <2> QED
    BY <2>1, <2>2
<1>6. LockedInv'
  <2>1. \A g \in Files : g # NoFile
    BY DEF Files, NoFile
  <2> HIDE DEF p, f
  <2> QED
    BY <1>1, <1>2, <2>1 DEF LockInv, TypeOK, LockedInv
<1>7. BlocksHeld'
  <2> SUFFICES ASSUME NEW u \in Threads, blocks'[u] > 0
               PROVE  /\ held'[Home[u]] # NoFile
                      /\ owner'[Home[u]] = u
                      /\ depth'[Home[u]] = blocks'[u]
    BY DEF BlocksHeld, Inside
  <2>1. CASE u = t
    <3> HIDE DEF f
    <3> QED
      BY <1>1, <1>2, <1>4, <2>1 DEF LockInv, TypeOK
  <2>2. CASE u # t
    <3>1. blocks'[u] = blocks[u] /\ held[Home[u]] # NoFile
      BY <1>2, <2>2 DEF LockInv, TypeOK, BlocksHeld, Inside
    <3>2. Home[u] # p /\ Home[u] \in Procs
      BY <1>2, <3>1, FileLockAssumption
    <3> HIDE DEF p, f
    <3> QED
      BY <1>1, <1>2, <3>1, <3>2 DEF LockInv, TypeOK, BlocksHeld, Inside
  <2> QED
    BY <2>1, <2>2
<1> QED
  BY <1>3, <1>5, <1>6, <1>7 DEF LockInv

(* The end of an inner block.                                              *)
LEMMA UnnestStep ==
    ASSUME LockInv, NEW t \in Threads, Unnest(t) PROVE LockInv'
<1>1. /\ Home[t] \in Procs /\ held[Home[t]] # NoFile /\ owner[Home[t]] = t
      /\ depth[Home[t]] = blocks[t] /\ blocks[t] > 1
  BY FileLockAssumption DEF Unnest, Nested, LockInv, BlocksHeld, Inside
<1>2. /\ depth' = [depth EXCEPT ![Home[t]] = @ - 1]
      /\ blocks' = [blocks EXCEPT ![t] = @ - 1]
      /\ UNCHANGED <<pc, handle, held, owner, locked, entry>>
  BY DEF Unnest
<1>3. TypeOK'
  BY <1>1, <1>2 DEF LockInv, TypeOK
<1>4. RegistryInv'
  BY <1>1, <1>2 DEF LockInv, TypeOK, RegistryInv
<1>5. LockedInv'
  BY <1>2 DEF LockInv, LockedInv
<1>6. BlocksHeld'
  BY <1>1, <1>2, FileLockAssumption
  DEF LockInv, TypeOK, RegistryInv, BlocksHeld, Inside
<1> QED
  BY <1>3, <1>4, <1>5, <1>6 DEF LockInv

(* A process gives up its entry and its OS lock, and the blocks of its     *)
(* threads with them: the outermost exit, or a crash.                      *)
LEMMA DropStep ==
    ASSUME LockInv, NEW p \in Procs, Drop(p),
           blocks' \in [Threads -> Nat],
           \A t \in Threads : blocks'[t] = IF Home[t] = p THEN 0 ELSE blocks[t],
           pc' \in [Threads -> PcSet],
           handle' \in [Threads -> Files \cup {NoFile}],
           entry' = entry
    PROVE  LockInv'
<1>1. TypeOK'
  BY DEF LockInv, TypeOK, Drop
<1>2. ASSUME NEW q \in Procs, held'[q] # NoFile
      PROVE  /\ q # p
             /\ held'[q] = held[q] /\ owner'[q] = owner[q] /\ depth'[q] = depth[q]
             /\ held[q] \in Files /\ locked'[held[q]] = locked[held[q]]
  BY <1>2 DEF LockInv, TypeOK, RegistryInv, Drop
<1>3. RegistryInv'
  BY <1>2 DEF LockInv, TypeOK, RegistryInv
<1>4. LockedInv'
  BY DEF LockInv, TypeOK, LockedInv, Drop
<1>5. BlocksHeld'
  BY FileLockAssumption DEF LockInv, TypeOK, BlocksHeld, Inside, Drop
<1> QED
  BY <1>1, <1>3, <1>4, <1>5 DEF LockInv

(* The end of the outermost block.                                         *)
LEMMA ExitStep ==
    ASSUME LockInv, NEW t \in Threads, Exit(t) PROVE LockInv'
<1>1. /\ Home[t] \in Procs /\ owner[Home[t]] = t
      /\ depth[Home[t]] = blocks[t] /\ blocks[t] = 1
  <2>1. Home[t] \in Procs /\ blocks[t] \in Nat /\ blocks[t] > 0
    BY FileLockAssumption DEF Exit, LockInv, TypeOK
  <2>2. owner[Home[t]] = t /\ depth[Home[t]] = blocks[t]
    BY <2>1 DEF LockInv, BlocksHeld, Inside
  <2>3. ~(depth[Home[t]] > 1)
    BY DEF Exit, Nested
  <2> QED
    BY <2>1, <2>2, <2>3
<1>2. ASSUME NEW u \in Threads, Home[u] = Home[t], u # t
      PROVE  blocks[u] = 0
  BY <1>1, <1>2 DEF LockInv, TypeOK, BlocksHeld, Inside
<1>3. blocks' = [blocks EXCEPT ![t] = @ - 1]
  BY DEF Exit
<1>4. /\ blocks' \in [Threads -> Nat]
      /\ \A u \in Threads : blocks'[u] = IF Home[u] = Home[t] THEN 0 ELSE blocks[u]
  BY <1>1, <1>2, <1>3 DEF LockInv, TypeOK
<1> QED
  BY <1>1, <1>4, DropStep DEF Exit, LockInv, TypeOK

(* The death of a process.                                                 *)
LEMMA CrashStep ==
    ASSUME LockInv, NEW p \in Procs, Crash(p) PROVE LockInv'
<1>1. /\ blocks' \in [Threads -> Nat]
      /\ \A t \in Threads : blocks'[t] = IF Home[t] = p THEN 0 ELSE blocks[t]
      /\ pc' \in [Threads -> PcSet]
      /\ handle' \in [Threads -> Files \cup {NoFile}]
      /\ entry' = entry /\ Drop(p)
  BY DEF Crash, LockInv, TypeOK, PcSet
<1> QED
  BY <1>1, DropStep

(* Every step of the lock preserves the inductive invariant.               *)
LEMMA LockInvStep == LockInv /\ [Next]_vars => LockInv'
<1> SUFFICES ASSUME LockInv, [Next]_vars PROVE LockInv'
  OBVIOUS
<1>1. ASSUME NEW t \in Threads, Enter(t) PROVE LockInv'
  BY <1>1, QuietStep DEF Enter, LockInv, TypeOK, PcSet
<1>2. ASSUME NEW t \in Threads, WaitForThread(t) PROVE LockInv'
  BY <1>2, QuietStep DEF WaitForThread, LockInv, TypeOK, PcSet
<1>3. ASSUME NEW t \in Threads, WaitForProcess(t) PROVE LockInv'
  <2>1. Opened(t) \in Files
    BY OpenedType DEF LockInv
  <2> QED
    BY <1>3, <2>1, QuietStep DEF WaitForProcess, LockInv, TypeOK, PcSet
<1>4. ASSUME NEW t \in Threads, GiveUp(t) PROVE LockInv'
  BY <1>4, QuietStep DEF GiveUp, LockInv, TypeOK, PcSet
<1>5. CASE Purge
  <2>1. entry' \in Files
    BY <1>5, FileLockAssumption DEF Purge, LockInv, TypeOK, Files
  <2> QED
    BY <1>5, <2>1, QuietStep DEF Purge, LockInv, TypeOK
<1>6. CASE UNCHANGED vars
  BY <1>6, QuietStep DEF vars, LockInv, TypeOK
<1> QED
  BY <1>1, <1>2, <1>3, <1>4, <1>5, <1>6, ReenterStep, AcquireStep, UnnestStep,
     ExitStep, CrashStep
  DEF Next, Step, Poll

(* The registries, the OS locks and the open blocks always tell the same   *)
(* story (FileLock.__enter__ and __exit__).                                *)
THEOREM LockInductive == Spec => []LockInv
  BY LockInvInit, LockInvStep, PTL DEF Spec

(* Every variable of the lock always has its type.                         *)
THEOREM TypeCorrect == Spec => []TypeOK
<1>1. LockInv => TypeOK
  BY DEF LockInv
<1> QED
  BY <1>1, LockInductive, PTL

(* No two threads of whatever processes are ever inside blocks of the same *)
(* lock file, however deep they nest and whoever dies: what every locked   *)
(* section of codexswap relies on.                                         *)
THEOREM ExclusionAlways == Spec => []MutualExclusion
<1>1. LockInv => MutualExclusion
  BY FileLockAssumption
  DEF LockInv, TypeOK, RegistryInv, BlocksHeld, MutualExclusion, Inside
<1> QED
  BY <1>1, LockInductive, PTL

(* A thread always owns its process's entry while it is inside a block.    *)
THEOREM BlocksAlwaysHeld == Spec => []BlocksHeld
<1>1. LockInv => BlocksHeld
  BY DEF LockInv
<1> QED
  BY <1>1, LockInductive, PTL

(* A locked file is always locked for a thread that is inside a block.     *)
THEOREM NothingEverLeaks == Spec => []NothingLeaks
<1>1. LockInv => NothingLeaks
  <2> SUFFICES ASSUME LockInv, NEW f \in Files, locked[f] # NoProc
               PROVE  \E t \in Threads : /\ Home[t] = locked[f] /\ Inside(t)
                                         /\ held[Home[t]] = f
    BY DEF NothingLeaks
  <2>1. locked[f] \in Procs /\ held[locked[f]] = f /\ f # NoFile
    BY DEF LockInv, TypeOK, LockedInv, Files, NoFile
  <2>2. /\ owner[locked[f]] \in Threads /\ Home[owner[locked[f]]] = locked[f]
        /\ blocks[owner[locked[f]]] > 0
    BY <2>1 DEF LockInv, RegistryInv
  <2> QED
    BY <2>1, <2>2 DEF Inside
<1> QED
  BY <1>1, LockInductive, PTL

-----------------------------------------------------------------------------
(* The implementation of Mutex.                                            *)

(* Where no two processes hold the same file, Holder names the owner       *)
(* recorded by the process that holds it, and nobody otherwise.            *)
LEMMA HolderInValue ==
    ASSUME NEW files, NEW owners, NEW f \in Files,
           \A p, q \in Procs : files[p] = f /\ files[q] = f => p = q
    PROVE  /\ \A p \in Procs : files[p] = f => HolderIn(files, owners)[f] = owners[p]
           /\ (\A p \in Procs : files[p] # f) => HolderIn(files, owners)[f] = NoThread
  BY DEF HolderIn

(* No two processes hold the same file.                                    *)
LEMMA HeldOnce ==
    ASSUME LockInv, NEW f \in Files, NEW p \in Procs, NEW q \in Procs,
           held[p] = f, held[q] = f
    PROVE  p = q
  BY DEF LockInv, RegistryInv, Files, NoFile

(* A step that leaves the registries' files and owners alone is invisible. *)
LEMMA InvisibleStep ==
    ASSUME UNCHANGED <<held, owner>> PROVE Holder' = Holder
  BY DEF Holder, HolderIn

(* Taking the OS lock is Mutex's Acquire.                                  *)
LEMMA AcquireAbstract ==
    ASSUME LockInv, LockInv', NEW t \in Threads, Acquire(t)
    PROVE  Abstract!Acquire(t, Opened(t))
<1> DEFINE p == Home[t]
           f == Opened(t)
<1>1. p \in Procs /\ f \in Files /\ p # NoProc /\ \A g \in Files : g # NoFile
  BY FileLockAssumption, OpenedType DEF LockInv, Files, NoFile
<1>2. /\ held[p] = NoFile /\ locked[f] = NoProc
      /\ held' = [held EXCEPT ![p] = f] /\ owner' = [owner EXCEPT ![p] = t]
  BY DEF Acquire, Free
<1> HIDE DEF p, f
<1>3. \A q \in Procs : held[q] # f
  BY <1>1, <1>2 DEF LockInv, TypeOK, RegistryInv
<1>4. Holder[f] = NoThread
  BY <1>1, <1>3, HolderInValue DEF Holder
<1>5. \A g \in Files : Holder[g] # t
  <2> SUFFICES ASSUME NEW g \in Files PROVE Holder[g] # t
    OBVIOUS
  <2>1. CASE \E q \in Procs : held[q] = g
    <3>1. PICK q \in Procs : held[q] = g
      BY <2>1
    <3>2. Holder[g] = owner[q]
      BY <3>1, HeldOnce, HolderInValue DEF Holder
    <3>3. owner[q] # t
      BY <1>1, <1>2, <3>1 DEF p, LockInv, RegistryInv
    <3> QED
      BY <3>2, <3>3
  <2>2. CASE \A q \in Procs : held[q] # g
    BY <2>2, HolderInValue, FileLockAssumption DEF Holder
  <2> QED
    BY <2>1, <2>2
<1>6. Holder' = [Holder EXCEPT ![f] = t]
  <2>1. ASSUME NEW a \in Procs, NEW b \in Procs, NEW g \in Files,
               held'[a] = g, held'[b] = g
        PROVE  a = b
    BY <2>1 DEF LockInv, RegistryInv, Files, NoFile
  <2>2. ASSUME NEW g \in Files
        PROVE  Holder'[g] = IF g = f THEN t ELSE Holder[g]
    <3>1. CASE g = f
      <4>1. held'[p] = g /\ owner'[p] = t
        BY <1>1, <1>2, <3>1 DEF LockInv, TypeOK
      <4>2. Holder'[g] = owner'[p]
        BY <1>1, <2>1, <4>1, HolderInValue DEF Holder
      <4> QED
        BY <3>1, <4>1, <4>2
    <3>2. CASE g # f
      <4>1. \A q \in Procs : held'[q] = g <=> held[q] = g
        BY <1>1, <1>2, <3>2 DEF LockInv, TypeOK
      <4>2. CASE \E q \in Procs : held[q] = g
        <5>1. PICK q \in Procs : held[q] = g /\ held'[q] = g
          BY <4>1, <4>2
        <5>2. Holder[g] = owner[q] /\ Holder'[g] = owner'[q]
          BY <2>1, <5>1, HeldOnce, HolderInValue DEF Holder
        <5> QED
          BY <1>1, <1>2, <3>2, <5>1, <5>2 DEF LockInv, TypeOK
      <4>3. CASE \A q \in Procs : held[q] # g
        BY <3>2, <4>1, <4>3, HolderInValue DEF Holder
      <4> QED
        BY <4>2, <4>3
    <3> QED
      BY <3>1, <3>2
  <2> QED
    BY <1>1, <2>2 DEF Holder, HolderIn
<1> QED
  BY <1>4, <1>5, <1>6 DEF Abstract!Acquire, f

(* Dropping the entry of a process that holds a file is Mutex's Release;   *)
(* of one that holds none, a stutter.                                      *)
LEMMA DropAbstract ==
    ASSUME LockInv, LockInv', NEW p \in Procs, Drop(p)
    PROVE  [Abstract!Next]_Holder
<1>1. /\ held' = [held EXCEPT ![p] = NoFile]
      /\ owner' = [owner EXCEPT ![p] = NoThread]
  BY DEF Drop
<1>2. \A g \in Files : g # NoFile
  BY DEF Files, NoFile
<1>3. ASSUME NEW a \in Procs, NEW b \in Procs, NEW g \in Files,
             held'[a] = g, held'[b] = g
      PROVE  a = b
  BY <1>3 DEF LockInv, RegistryInv, Files, NoFile
<1>4. ASSUME NEW g \in Files, g # held[p]
      PROVE  Holder'[g] = Holder[g]
  <2>1. \A q \in Procs : held'[q] = g <=> held[q] = g
    BY <1>1, <1>2, <1>4 DEF LockInv, TypeOK
  <2>2. CASE \E q \in Procs : held[q] = g
    <3>1. PICK q \in Procs : held[q] = g /\ held'[q] = g /\ q # p
      BY <1>4, <2>1, <2>2
    <3>2. Holder[g] = owner[q] /\ Holder'[g] = owner'[q]
      BY <1>3, <3>1, HeldOnce, HolderInValue DEF Holder
    <3> QED
      BY <1>1, <3>1, <3>2 DEF LockInv, TypeOK
  <2>3. CASE \A q \in Procs : held[q] # g
    BY <2>1, <2>3, HolderInValue DEF Holder
  <2> QED
    BY <2>2, <2>3
<1>5. CASE held[p] = NoFile
  <2>1. Holder' = Holder
    BY <1>2, <1>4, <1>5 DEF Holder, HolderIn
  <2> QED
    BY <2>1
<1>6. CASE held[p] # NoFile
  <2> DEFINE f == held[p]
  <2>1. f \in Files /\ owner[p] \in Threads
    BY <1>6 DEF LockInv, TypeOK, RegistryInv
  <2>2. Holder[f] = owner[p]
    BY <2>1, HeldOnce, HolderInValue DEF Holder
  <2>3. \A q \in Procs : held'[q] # f
    BY <1>1, <1>2, <2>1, HeldOnce DEF LockInv, TypeOK
  <2>4. Holder'[f] = NoThread
    BY <2>1, <2>3, HolderInValue DEF Holder
  <2>5. Holder' = [Holder EXCEPT ![f] = NoThread]
    <3>1. \A g \in Files : Holder'[g] = IF g = f THEN NoThread ELSE Holder[g]
      BY <1>4, <2>4
    <3>2. Holder = [g \in Files |-> Holder[g]] /\ Holder' = [g \in Files |-> Holder'[g]]
      BY DEF Holder, HolderIn
    <3> HIDE DEF f
    <3> QED
      BY <2>1, <3>1, <3>2
  <2> QED
    BY <2>1, <2>2, <2>5 DEF Abstract!Next, Abstract!Release
<1> QED
  BY <1>5, <1>6

(* FileLock implements Mutex: the guarantee the rest of the program is     *)
(* written against.                                                        *)
THEOREM LockIsMutex == Spec => ImplementsMutex
<1>1. Init => Abstract!Init
  BY DEF Init, Abstract!Init, Holder, HolderIn, Files, NoFile
<1>2. LockInv /\ LockInv' /\ [Next]_vars => [Abstract!Next]_Holder
  <2> SUFFICES ASSUME LockInv, LockInv', [Next]_vars
               PROVE  [Abstract!Next]_Holder
    OBVIOUS
  <2>1. CASE \/ Purge
             \/ UNCHANGED vars
             \/ \E t \in Threads :
                    \/ Enter(t) \/ Reenter(t) \/ WaitForThread(t)
                    \/ WaitForProcess(t) \/ GiveUp(t) \/ Unnest(t)
    <3>1. UNCHANGED <<held, owner>>
      BY <2>1
      DEF Purge, vars, registry, Enter, Reenter, WaitForThread, WaitForProcess,
          GiveUp, Unnest
    <3> QED
      BY <3>1, InvisibleStep
  <2>2. ASSUME NEW t \in Threads, Acquire(t) PROVE [Abstract!Next]_Holder
    BY <2>2, AcquireAbstract, OpenedType DEF Abstract!Next, LockInv
  <2>3. ASSUME NEW t \in Threads, Exit(t) PROVE [Abstract!Next]_Holder
    BY <2>3, DropAbstract, FileLockAssumption DEF Exit
  <2>4. ASSUME NEW p \in Procs, Crash(p) PROVE [Abstract!Next]_Holder
    BY <2>4, DropAbstract DEF Crash
  <2> QED
    BY <2>1, <2>2, <2>3, <2>4 DEF Next, Step, Poll
<1> QED
  BY <1>1, <1>2, LockInductive, PTL DEF Spec, ImplementsMutex, Abstract!Spec
=============================================================================
