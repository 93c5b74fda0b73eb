--------------------------- MODULE SwitcherProofs ---------------------------
(***************************************************************************)
(* Switching destroys nothing and claiming loses nothing, for any number   *)
(* of commands, accounts and slots, and however often logins are renewed.  *)
(***************************************************************************)
EXTENDS Switcher, WellFoundedInduction, TLAPS

(* The stages of a command that hold the file lock.                        *)
Switching == {"target", "syncing", "synced", "reread", "rescue", "overwrite",
              "saving"}
Writing == Switching \cup {"registering", "activating", "importing"}
Inside == Writing \cup {"removing"}
Settling == {"saving", "activating"}

IsLogin(f) == f.kind = "login"
Holds(s, a) == IsLogin(slot[s]) /\ slot[s].acct = a

(* A slot that holds the account it is registered for.                     *)
Matching(s, a) == s \in Slots /\ ident[s] = a /\ Holds(s, a)

(* The login f is in a slot, or is no longer good for anything.            *)
InSlot(f) == \E s \in Registered : slot[s] = f
Void(f) == f.ver < newest[f.acct]

(* What an account's newest version bounds.                                *)
Known(f) == IsLogin(f) => f.ver <= newest[f.acct]

LockInv == \A p \in Processes : pc[p] \in Inside <=> lock = p

(* While Codex writes, what others see is a file without a login.          *)
LiveInv == writing # Missing => live.kind \in {"blank", "cut"}

VersionInv ==
    /\ Known(live) /\ Known(writing)
    /\ \A s \in Slots : Known(slot[s])
    /\ \A f \in stash : Known(f)
    /\ \A p \in Processes : Known(auth[p]) /\ Known(seen[p])

(* What a command relies on: its target, with the account of the login it  *)
(* is about to write ...                                                   *)
TargetInv(p) ==
    /\ pc[p] \in {"activating"} \cup Switching => target[p] \in Registered
    /\ pc[p] \in {"checked", "registering", "importing", "removing"} =>
          target[p] \in Slots
    /\ pc[p] \in Writing => Holds(target[p], auth[p].acct)
    /\ pc[p] \in Writing \cup {"adding"} => IsLogin(auth[p])

(* ... and the live login it has taken care of.                            *)
SeenInv(p) ==
    /\ pc[p] \in {"idle", "checked", "target", "adding", "registering",
                  "discarding"} => seen[p] = Missing
    /\ pc[p] = "syncing" =>
          /\ IsLogin(seen[p]) /\ owner[p] \in Owners(seen[p])
          /\ stored[p].acct = seen[p].acct /\ stored[p].ver <= seen[p].ver
    /\ pc[p] = "synced" =>
          /\ IsLogin(seen[p]) /\ owner[p] \in Owners(seen[p])
          /\ slot[owner[p]].ver >= seen[p].ver
          /\ InSlot(seen[p]) \/ Void(seen[p])
    /\ pc[p] = "reread" =>
          /\ IsLogin(seen[p]) /\ slot[target[p]].acct = seen[p].acct
          /\ slot[target[p]].ver >= seen[p].ver
    /\ /\ pc[p] \in {"rescue", "overwrite"} /\ IsLogin(seen[p])
       /\ Owners(seen[p]) = {target[p]}
       => auth[p].ver >= seen[p].ver
    /\ pc[p] \in {"reread", "rescue"} =>
          \/ seen[p] = Missing
          \/ IsLogin(seen[p]) /\ (InSlot(seen[p]) \/ Void(seen[p]))
    /\ pc[p] = "overwrite" =>
          /\ IsLogin(seen[p]) =>
                \/ InSlot(seen[p]) \/ Void(seen[p])
                \/ Owners(seen[p]) = {} /\ seen[p] \in stash
          /\ seen[p] = Other("cut") => seen[p] \in stash

CommandInv(p) == TargetInv(p) /\ SeenInv(p)

(* A slot that is being removed is not called active, or nobody relies on  *)
(* it.                                                                     *)
RemovalInv ==
    \A p \in Processes : pc[p] = "removing" => adrift \/ target[p] # active

ActiveInv ==
    ~adrift /\ (\A p \in Processes : pc[p] \notin Settling) =>
        /\ active \in Registered /\ IsLogin(slot[active])
        /\ {live.acct, writing.acct} \subseteq {NoAccount, slot[active].acct}

SwitchInv ==
    /\ TypeOK /\ LockInv /\ LiveInv /\ VersionInv
    /\ \A p \in Processes : CommandInv(p)
    /\ RemovalInv /\ ActiveInv

-----------------------------------------------------------------------------
(* Files and logins.                                                       *)
LEMMA FileFacts ==
  /\ Missing \in Files /\ ~IsLogin(Missing) /\ Missing.acct = NoAccount
  /\ \A k \in OtherKinds : /\ Other(k) \in Files /\ ~IsLogin(Other(k))
                           /\ Other(k).kind = k
                           /\ Other(k).acct = NoAccount
  /\ \A f \in Files :
        IF IsLogin(f)
        THEN f \in Logins /\ f.acct \in Accounts /\ f.ver \in Nat
        ELSE f.acct = NoAccount
  /\ \A f \in Logins : f \in Files /\ IsLogin(f)
  /\ \A f, g \in Logins : f.acct = g.acct /\ f.ver = g.ver => f = g
  /\ \A a \in Accounts, v \in Nat :
        /\ Login(a, v) \in Logins
        /\ Login(a, v).acct = a /\ Login(a, v).ver = v
BY DEF Files, Logins, Missing, Other, OtherKinds, IsLogin, Login

LEMMA FirstIs ==
  ASSUME NEW S \in SUBSET Nat, S # {}
  PROVE  First(S) \in S /\ \A t \in S : First(S) <= t
<1>1. PICK m \in S : \A x \in S : ~ (<<x, m>> \in OpToRel(<, Nat))
  BY NatLessThanWellFounded, WFMin
<1>2. \A x \in S : ~ (x < m)
  BY <1>1 DEF OpToRel
<1>3. \A x \in S : m <= x
  BY <1>2
<1>4. QED BY <1>3 DEF First

LEMMA OwnersFirst ==
  ASSUME NEW f, Owners(f) # {}
  PROVE  First(Owners(f)) \in Owners(f)
<1>1. Slots \subseteq Nat
  BY SwitcherAssumption
<1>2. Owners(f) \subseteq Nat
  BY <1>1 DEF Owners, Registered
<1>3. QED BY <1>2, FirstIs

-----------------------------------------------------------------------------
(* Types.                                                                  *)
LEMMA TypeInit == Init => TypeOK
<1>1. \A a \in Accounts : Login(a, 1) \in Logins
  BY FileFacts
<1>2. SUFFICES ASSUME Init PROVE TypeOK
  OBVIOUS
<1>3. live \in Files /\ writing = Missing
  BY <1>1, <1>2, FileFacts DEF Init
<1>4. slot \in [Slots -> Logins \cup {Missing}]
  BY <1>1, <1>2 DEF Init
<1>5. QED BY <1>2, <1>3, <1>4, FileFacts DEF Init, TypeOK, PcSet

(* The command is over.                                                    *)
LEMMA TypeEnd ==
  ASSUME TypeOK, NEW p \in Processes, End(p)
  PROVE  /\ pc' \in [Processes -> PcSet] /\ lock' \in Processes \cup {NoProcess}
         /\ target' \in [Processes -> Slots \cup {0}]
         /\ auth' \in [Processes -> Logins \cup {Missing}]
         /\ seen' \in [Processes -> Files]
         /\ stored' \in [Processes -> Logins \cup {Missing}]
         /\ owner' \in [Processes -> Slots \cup {0}]
         /\ entry' \in [Processes -> Logins \cup {Missing}]
BY FileFacts DEF TypeOK, End, Goto, PcSet

(* A command's step keeps the types, if its target and the slot it syncs   *)
(* are slots.                                                              *)
LEMMA TypeSwitch ==
  ASSUME TypeOK, NEW p \in Processes, CommandInv(p), Switch(p)
  PROVE  TypeOK'
<1> USE DEF disk, activity, local
<1>1. CASE Check(p)
  BY <1>1 DEF TypeOK, Check, Registered, Goto, PcSet
<1>2. CASE ReadTarget(p)
  <2>1. target[p] \in Slots
    BY <1>2 DEF CommandInv, TargetInv, ReadTarget
  <2>2. QED BY <1>2, <2>1 DEF TypeOK, ReadTarget, CanActivate, Goto, PcSet
<1>3. CASE ReadTargetFails(p)
  BY <1>3, TypeEnd DEF TypeOK, ReadTargetFails
<1>4. CASE NothingToSync(p)
  BY <1>4 DEF TypeOK, NothingToSync, Goto, PcSet
<1>5. CASE KeepSlot(p)
  BY <1>5 DEF TypeOK, KeepSlot, AfterSync, Goto, PcSet
<1>6. CASE SyncBack(p)
  <2>1. First(Owners(live)) \in Slots
    BY <1>6, OwnersFirst DEF SyncBack, Owners, Registered
  <2>2. QED BY <1>6, <2>1 DEF TypeOK, SyncBack, Goto, PcSet
<1>7. CASE SyncWrite(p)
  <2>1. owner[p] \in Slots /\ IsLogin(seen[p])
    BY <1>7 DEF CommandInv, SeenInv, SyncWrite, Owners, Registered
  <2>2. seen[p] \in Logins /\ seen[p].acct \in Accounts
    BY <2>1, FileFacts DEF TypeOK
  <2>3. QED BY <1>7, <2>1, <2>2 DEF TypeOK, SyncWrite, Goto, PcSet
<1>8. CASE Reread(p)
  <2>1. target[p] \in Slots
    BY <1>8 DEF CommandInv, TargetInv, Reread, Registered, Switching
  <2>2. QED BY <1>8, <2>1 DEF TypeOK, Reread, Goto, PcSet
<1>9. CASE Rescue(p)
  <2>1. stash' \subseteq Logins \cup {Other("cut")}
    BY <1>9, FileFacts
       DEF TypeOK, Rescue, WorthKeeping, Stashed, Files, OtherKinds, Other
  <2>2. seen' \in [Processes -> Files]
    BY <1>9 DEF TypeOK, Rescue
  <2>3. QED BY <1>9, <2>1, <2>2 DEF TypeOK, Rescue, Goto, PcSet
<1>10. CASE Blocked(p)
  BY <1>10, TypeEnd DEF TypeOK, Blocked
<1>11. CASE Overwrite(p)
  <2>1. auth[p] \in Files /\ Missing \in Files
    BY FileFacts DEF TypeOK
  <2>2. QED BY <1>11, <2>1 DEF TypeOK, Overwrite, Goto, PcSet
<1>12. CASE Finish(p)
  BY <1>12, TypeEnd DEF TypeOK, Finish, Replaced
<1>13. CASE SyncSave(p)
  <2>1. owner[p] \in Slots /\ IsLogin(seen[p])
    BY <1>13 DEF CommandInv, SeenInv, SyncSave, Owners, Registered
  <2>2. seen[p].acct \in Accounts
    BY <2>1, FileFacts DEF TypeOK
  <2>3. QED BY <1>13, <2>1, <2>2 DEF TypeOK, SyncSave, AfterSync, Goto, PcSet
<1>14. QED
  BY <1>1, <1>2, <1>3, <1>4, <1>5, <1>6, <1>7, <1>8, <1>9, <1>10, <1>11,
     <1>12, <1>13 DEF Switch

(* A rescue copy goes.                                                     *)
LEMMA TypeDrop ==
  ASSUME TypeOK, NEW c, Drop(c)
  PROVE  seen' \in [Processes -> Files] /\ stash' \subseteq stash
BY FileFacts DEF TypeOK, Drop

LEMMA TypeAdd ==
  ASSUME TypeOK, NEW p \in Processes, CommandInv(p), Add(p) \/ Crash(p)
  PROVE  TypeOK'
<1> USE DEF disk, activity, local
<1>1. CASE Capture(p)
  <2>1. live \in Logins
    BY <1>1, FileFacts DEF TypeOK, Capture, IsLogin
  <2>2. QED BY <1>1, <2>1 DEF TypeOK, Capture, Goto, PcSet
<1>2. CASE Claim(p)
  BY <1>2 DEF TypeOK, Claim, Goto, PcSet
<1>3. CASE AddWrite(p)
  <2>1. \A s \in Homes(auth[p].acct) : s \in Slots
    BY <1>3, FirstIs, SwitcherAssumption DEF Homes, Registered
  <2>2. QED BY <1>3, <2>1 DEF TypeOK, AddWrite, Goto, PcSet
<1>4. CASE AddSave(p)
  <2>1. auth[p].acct \in Accounts /\ target[p] \in Slots
    BY <1>4, FileFacts DEF CommandInv, TargetInv, AddSave, Inside, Writing, TypeOK
  <2>2. QED BY <1>4, <2>1 DEF TypeOK, AddSave, Goto, PcSet
<1>5. CASE SetActive(p)
  <2>1. target[p] \in Slots
    BY <1>5 DEF CommandInv, TargetInv, SetActive, Registered
  <2>2. QED BY <1>5, <2>1, TypeEnd DEF TypeOK, SetActive, ActiveAfter, Replaced
<1>6. CASE Discard(p)
  <2>1. seen' \in [Processes -> Files] /\ stash' \subseteq stash
    BY <1>6, TypeDrop DEF Discard
  <2>2. QED BY <1>6, <2>1 DEF TypeOK, Discard, Goto, PcSet
<1>7. CASE Crash(p)
  BY <1>7, TypeEnd DEF TypeOK, Crash
<1>8. QED BY <1>1, <1>2, <1>3, <1>4, <1>5, <1>6, <1>7 DEF Add

LEMMA TypeTake ==
  ASSUME TypeOK, NEW p \in Processes, CommandInv(p), TakeSlot(p)
  PROVE  TypeOK'
<1> USE DEF disk, activity, local
<1>1. CASE Remove(p)
  BY <1>1 DEF TypeOK, Remove, Registered, Goto, PcSet
<1>2. CASE RemoveSave(p)
  <2>1. ident' \in [Slots -> Accounts \cup {NoAccount}]
    BY <1>2 DEF TypeOK, RemoveSave
  <2>2. QED BY <1>2, <2>1, TypeEnd DEF TypeOK, RemoveSave
<1>3. CASE Import(p)
  <2>1. PICK s \in Slots, a \in Accounts : \E v \in 1..newest[a] :
           /\ slot' = [slot EXCEPT ![s] = Login(a, v)]
           /\ target' = [target EXCEPT ![p] = s]
           /\ auth' = [auth EXCEPT ![p] = Login(a, v)]
           /\ adrift' = (adrift \/ (s = active /\ slot[s].acct # a))
    BY <1>3 DEF Import
  <2>2. \A v \in 1..newest[a] : Login(a, v) \in Logins
    BY FileFacts DEF TypeOK
  <2>3. QED BY <1>3, <2>1, <2>2 DEF TypeOK, Import, Goto, PcSet
<1>4. CASE ImportSave(p)
  <2>1. auth[p].acct \in Accounts /\ target[p] \in Slots
    BY <1>4, FileFacts DEF CommandInv, TargetInv, ImportSave, Writing, TypeOK
  <2>2. /\ ident' \in [Slots -> Accounts \cup {NoAccount}]
        /\ active' \in Slots \cup {0}
    BY <1>4, <2>1 DEF TypeOK, ImportSave
  <2>3. QED BY <1>4, <2>2, TypeEnd DEF TypeOK, ImportSave
<1>5. QED BY <1>1, <1>2, <1>3, <1>4 DEF TakeSlot

LEMMA TypeCodex ==
  ASSUME TypeOK, Codex \/ Purge
  PROVE  TypeOK'
<1> USE DEF disk, activity, local
<1>1. CASE CodexDies
  BY <1>1 DEF TypeOK, CodexDies
<1>2. CASE CodexEnd
  BY <1>2, FileFacts DEF TypeOK, CodexEnd
<1>3. ASSUME NEW a \in Accounts, CodexBegin(a)
      PROVE  TypeOK'
  <2>1. newest' \in [Accounts -> Nat] /\ newest'[a] \in Nat
    BY <1>3 DEF TypeOK, CodexBegin
  <2>2. live' \in Files /\ writing' \in Logins
    BY <1>3, <2>1, FileFacts DEF CodexBegin, OtherKinds
  <2>3. adrift' \in BOOLEAN
    BY <1>3 DEF CodexBegin, TypeOK
  <2>4. QED BY <1>3, <2>1, <2>2, <2>3 DEF TypeOK, CodexBegin
<1>4. ASSUME NEW k \in Leavings, CodexLeaves(k)
      PROVE  TypeOK'
  <2>1. k \in OtherKinds
    BY SwitcherAssumption DEF OtherKinds
  <2>2. QED BY <1>4, <2>1, FileFacts DEF TypeOK, CodexLeaves
<1>5. ASSUME NEW s \in Slots, SlotRefresh(s)
      PROVE  TypeOK'
  <2>1. slot[s].acct \in Accounts
    BY <1>5, FileFacts DEF TypeOK, SlotRefresh, IsLogin
  <2>2. newest' \in [Accounts -> Nat] /\ newest'[slot[s].acct] \in Nat
    BY <1>5, <2>1 DEF TypeOK, SlotRefresh
  <2>3. Login(slot[s].acct, newest'[slot[s].acct]) \in Logins
    BY <2>1, <2>2, FileFacts
  <2>4. QED BY <1>5, <2>2, <2>3 DEF TypeOK, SlotRefresh
<1>6. CASE Purge
  <2>1. seen' \in [Processes -> Files] /\ stash' \subseteq stash
    BY <1>6, TypeDrop DEF Purge
  <2>2. QED BY <1>6, <2>1 DEF TypeOK, Purge
<1>7. QED BY <1>1, <1>2, <1>3, <1>4, <1>5, <1>6 DEF Codex

-----------------------------------------------------------------------------
(* The lock, the file Codex writes, and the versions.                      *)
LEMMA LockStep ==
  ASSUME TypeOK, LockInv, Next
  PROVE  LockInv'
<1> USE DEF disk, activity, local
<1>0. \A p \in Processes : p # NoProcess
  BY SwitcherAssumption
<1>1. CASE Codex \/ Purge
  <2>1. UNCHANGED <<lock, pc>>
    BY <1>1 DEF Codex, CodexDies, CodexBegin, CodexEnd, CodexLeaves,
                SlotRefresh, Purge
  <2>2. QED BY <2>1 DEF LockInv
<1>2. ASSUME NEW p \in Processes, End(p), pc[p] \in PcSet
      PROVE  LockInv'
  BY <1>0, <1>2 DEF TypeOK, LockInv, End, Goto, Inside, Writing, Switching
<1>3. ASSUME NEW p \in Processes, NEW l \in Inside, Goto(p, l), lock' = lock,
             pc[p] \in Inside
      PROVE  LockInv'
  BY <1>0, <1>3 DEF TypeOK, LockInv, Goto
<1>4. ASSUME NEW p \in Processes, NEW l \in Inside, Goto(p, l), lock' = p,
             lock = NoProcess
      PROVE  LockInv'
  BY <1>0, <1>4 DEF TypeOK, LockInv, Goto
<1>5. ASSUME NEW p \in Processes, NEW l \in PcSet \ Inside, Goto(p, l),
             lock' = lock, pc[p] \notin Inside
      PROVE  LockInv'
  BY <1>0, <1>5 DEF TypeOK, LockInv, Goto
<1>6. ASSUME NEW p \in Processes, Switch(p)
      PROVE  LockInv'
  <2>1. CASE Check(p)
    BY <1>5, <2>1 DEF Check, Inside, Writing, Switching, PcSet
  <2>2. CASE ReadTarget(p)
    BY <1>4, <2>2 DEF ReadTarget, Inside, Writing, Switching
  <2>3. CASE ReadTargetFails(p) \/ Blocked(p) \/ Finish(p)
    BY <1>2, <2>3 DEF TypeOK, ReadTargetFails, Blocked, Finish
  <2>4. CASE NothingToSync(p) \/ KeepSlot(p) \/ SyncBack(p) \/ SyncWrite(p)
                \/ SyncSave(p)
    BY <1>3, <2>4 DEF NothingToSync, KeepSlot, SyncBack, SyncWrite, SyncSave,
                      AfterSync,
                      Inside, Writing, Switching
  <2>5. CASE Reread(p) \/ Rescue(p) \/ Overwrite(p)
    BY <1>3, <2>5 DEF Reread, Rescue, Overwrite, Inside, Writing, Switching
  <2>6. QED BY <1>6, <2>1, <2>2, <2>3, <2>4, <2>5 DEF Switch
<1>7. ASSUME NEW p \in Processes, Add(p) \/ Crash(p)
      PROVE  LockInv'
  <2>1. CASE Capture(p) \/ Claim(p)
    BY <1>5, <2>1 DEF Capture, Claim, Inside, Writing, Switching, PcSet
  <2>2. CASE AddWrite(p)
    BY <1>4, <2>2 DEF AddWrite, Inside, Writing, Switching
  <2>3. CASE AddSave(p)
    <3>1. CASE entry[p] = Missing
      BY <1>3, <2>3, <3>1 DEF AddSave, Inside, Writing, Switching
    <3>2. CASE entry[p] # Missing
      BY <1>0, <2>3, <3>2
         DEF AddSave, TypeOK, LockInv, Goto, Inside, Writing, Switching
    <3>3. QED BY <3>1, <3>2
  <2>4. CASE SetActive(p) \/ Crash(p)
    BY <1>2, <2>4 DEF TypeOK, SetActive, Crash
  <2>5. CASE Discard(p)
    BY <1>5, <2>5 DEF Discard, Inside, Writing, Switching, PcSet
  <2>6. QED BY <1>7, <2>1, <2>2, <2>3, <2>4, <2>5 DEF Add
<1>8. ASSUME NEW p \in Processes, TakeSlot(p)
      PROVE  LockInv'
  <2>1. CASE Remove(p) \/ Import(p)
    BY <1>4, <2>1 DEF Remove, Import, Inside, Writing
  <2>2. CASE RemoveSave(p) \/ ImportSave(p)
    BY <1>2, <2>2 DEF TypeOK, RemoveSave, ImportSave
  <2>3. QED BY <1>8, <2>1, <2>2 DEF TakeSlot
<1>9. QED BY <1>1, <1>6, <1>7, <1>8 DEF Next

LEMMA LiveStep ==
  ASSUME TypeOK, LiveInv, Next
  PROVE  LiveInv'
<1> USE DEF disk, activity, local
<1>1. CASE Codex \/ Purge
  BY <1>1 DEF LiveInv, Codex, CodexDies, CodexBegin, CodexEnd, CodexLeaves,
              SlotRefresh, Purge, Drop, Other
<1>2. ASSUME NEW p \in Processes, Switch(p)
      PROVE  LiveInv'
  BY <1>2 DEF LiveInv, Switch, Check, ReadTarget, ReadTargetFails,
              NothingToSync, KeepSlot, SyncBack, SyncWrite, SyncSave, Reread,
              Rescue, Blocked, Overwrite, Finish
<1>3. ASSUME NEW p \in Processes, Add(p) \/ TakeSlot(p) \/ Crash(p)
      PROVE  LiveInv'
  BY <1>3 DEF LiveInv, Add, Capture, Claim, AddWrite, AddSave, SetActive,
              Discard, TakeSlot, Remove, RemoveSave, Import, ImportSave, Crash
<1>4. QED BY <1>1, <1>2, <1>3 DEF Next

(* Versions only grow, so what was known stays known.                      *)
NewestGrows == \A a \in Accounts : newest'[a] >= newest[a]

LEMMA NewestSame ==
  ASSUME TypeOK, newest' = newest
  PROVE  NewestGrows
BY DEF TypeOK, NewestGrows

LEMMA KnownStays ==
  ASSUME TypeOK, TypeOK', NewestGrows, NEW f \in Files
  PROVE  /\ Known(f) => Known(f)'
         /\ IsLogin(f) /\ Void(f) => Void(f)'
<1>1. ASSUME IsLogin(f)
      PROVE  /\ newest'[f.acct] >= newest[f.acct] /\ f.ver \in Nat
             /\ newest'[f.acct] \in Nat /\ newest[f.acct] \in Nat
  BY <1>1, FileFacts DEF TypeOK, NewestGrows
<1>2. QED BY <1>1 DEF Known, Void

LEMMA NewestStep ==
  ASSUME TypeOK, Next
  PROVE  NewestGrows
<1> USE DEF disk, activity, local
<1>1. CASE CodexDies \/ CodexEnd \/ Purge
  BY <1>1, NewestSame DEF CodexDies, CodexEnd, Purge
<1>2. ASSUME NEW a \in Accounts, CodexBegin(a)
      PROVE  NewestGrows
  BY <1>2 DEF CodexBegin, TypeOK, NewestGrows
<1>3. ASSUME NEW k \in Leavings, CodexLeaves(k)
      PROVE  NewestGrows
  BY <1>3, NewestSame DEF CodexLeaves
<1>4. ASSUME NEW s \in Slots, SlotRefresh(s)
      PROVE  NewestGrows
  BY <1>4 DEF SlotRefresh, TypeOK, NewestGrows
<1>5. ASSUME NEW p \in Processes,
             Switch(p) \/ Add(p) \/ TakeSlot(p) \/ Crash(p)
      PROVE  newest' = newest
  BY <1>5 DEF Switch, Check, ReadTarget, ReadTargetFails, NothingToSync,
              KeepSlot, SyncBack, SyncWrite, SyncSave, Reread, Rescue, Blocked,
              Overwrite, Finish, Add, Capture, Claim, AddWrite, AddSave,
              SetActive, Discard, TakeSlot, Remove, RemoveSave, Import,
              ImportSave, Crash
<1>6. QED BY <1>1, <1>2, <1>3, <1>4, <1>5, NewestSame DEF Next, Codex

LEMMA VersionStep ==
  ASSUME TypeOK, TypeOK', VersionInv, Next,
         \A p \in Processes : CommandInv(p)
  PROVE  VersionInv'
<1> USE DEF disk, activity, local
<1>1. \A f \in Files : IsLogin(f) /\ f.ver <= newest[f.acct]
                          => f.ver <= newest'[f.acct]
  BY NewestStep, KnownStays DEF Known
<1>2. /\ Missing \in Files /\ ~IsLogin(Missing)
      /\ Logins \subseteq Files
      /\ stash \subseteq Files /\ writing \in Files /\ live \in Files
      /\ \A s \in Slots : slot[s] \in Files
      /\ \A p \in Processes : auth[p] \in Files /\ seen[p] \in Files
  BY FileFacts DEF TypeOK, OtherKinds
<1>3. ASSUME NEW g, g \in {live, writing, Missing} \cup stash
                             \cup {slot[s] : s \in Slots}
                             \cup {auth[p] : p \in Processes}
                             \cup {seen[p] : p \in Processes}
      PROVE  IsLogin(g) => g.ver <= newest'[g.acct]
  BY <1>1, <1>2, <1>3 DEF VersionInv, Known
<1> USE DEF VersionInv, Known
<1>4. CASE CodexDies \/ CodexEnd
  BY <1>3, <1>4 DEF CodexDies, CodexEnd
<1>5. ASSUME NEW a \in Accounts, CodexBegin(a)
      PROVE  VersionInv'
  <2>1. newest'[a] \in Nat
    BY DEF TypeOK
  <2>2. IsLogin(writing') /\ writing'.ver = newest'[writing'.acct]
    BY <1>5, <2>1, FileFacts DEF CodexBegin
  <2>3. ~IsLogin(live')
    BY <1>5, FileFacts DEF CodexBegin, OtherKinds
  <2>4. writing'.ver <= newest'[writing'.acct]
    BY <1>5, <2>1, <2>2, FileFacts DEF CodexBegin
  <2>5. UNCHANGED <<slot, stash, auth, seen>>
    BY <1>5 DEF CodexBegin
  <2>6. QED BY <1>3, <2>3, <2>4, <2>5 DEF IsLogin
<1>6. ASSUME NEW k \in Leavings, CodexLeaves(k)
      PROVE  VersionInv'
  <2>1. ~IsLogin(live')
    BY <1>6, FileFacts, SwitcherAssumption DEF CodexLeaves, OtherKinds
  <2>2. UNCHANGED <<writing, slot, stash, auth, seen>>
    BY <1>6 DEF CodexLeaves
  <2>3. QED BY <1>3, <2>1, <2>2 DEF IsLogin
<1>7. ASSUME NEW s \in Slots, SlotRefresh(s)
      PROVE  VersionInv'
  <2> DEFINE a == slot[s].acct
  <2>1. a \in Accounts /\ newest'[a] \in Nat
    BY <1>7, FileFacts DEF SlotRefresh, TypeOK, IsLogin
  <2>2. slot'[s].ver <= newest'[slot'[s].acct]
    BY <1>7, <2>1, FileFacts DEF SlotRefresh, TypeOK
  <2>3. \A t \in Slots : t # s => slot'[t] = slot[t]
    BY <1>7 DEF SlotRefresh, TypeOK
  <2>4. UNCHANGED <<live, writing, stash, auth, seen>>
    BY <1>7 DEF SlotRefresh
  <2>5. QED BY <1>3, <2>2, <2>3, <2>4 DEF IsLogin
<1>8. ASSUME NEW c, Drop(c), UNCHANGED <<live, writing, slot, auth>>
      PROVE  VersionInv'
  BY <1>3, <1>8 DEF Drop, IsLogin
<1>9. ASSUME NEW p \in Processes, End(p), live' = live, writing' = writing,
             slot' = slot, stash' \subseteq stash
      PROVE  VersionInv'
  BY <1>3, <1>9 DEF End, TypeOK, IsLogin
<1>10. ASSUME NEW p \in Processes, Switch(p)
       PROVE  VersionInv'
  <2>1. CASE Check(p) \/ NothingToSync(p)
    BY <1>3, <2>1 DEF Check, NothingToSync
  <2>2. CASE ReadTarget(p)
    <3>1. target[p] \in Slots
      BY <2>2 DEF CommandInv, TargetInv, ReadTarget
    <3>2. QED BY <1>3, <2>2, <3>1 DEF ReadTarget, TypeOK, IsLogin
  <2>3. CASE ReadTargetFails(p) \/ Blocked(p) \/ Finish(p)
    BY <1>9, <2>3 DEF ReadTargetFails, Blocked, Finish
  <2>4. CASE KeepSlot(p) \/ SyncBack(p)
    BY <1>3, <2>4 DEF KeepSlot, SyncBack, TypeOK, IsLogin
  <2>5. CASE SyncWrite(p) \/ SyncSave(p)
    BY <1>3, <2>5 DEF SyncWrite, SyncSave, TypeOK, IsLogin
  <2>6. CASE Reread(p)
    <3>1. target[p] \in Slots
      BY <2>6 DEF CommandInv, TargetInv, Reread, Switching, Registered
    <3>2. QED BY <1>3, <2>6, <3>1 DEF Reread, TypeOK, IsLogin
  <2>7. CASE Rescue(p)
    BY <1>3, <2>7 DEF Rescue, Stashed, TypeOK, IsLogin
  <2>8. CASE Overwrite(p)
    BY <1>3, <2>8 DEF Overwrite, TypeOK, IsLogin
  <2>9. QED BY <1>10, <2>1, <2>2, <2>3, <2>4, <2>5, <2>6, <2>7, <2>8
            DEF Switch
<1>11. ASSUME NEW p \in Processes, Add(p) \/ Crash(p)
       PROVE  VersionInv'
  <2>1. CASE Capture(p) \/ Claim(p)
    BY <1>3, <2>1 DEF Capture, Claim, TypeOK, IsLogin
  <2>2. CASE AddWrite(p)
    BY <1>3, <2>2 DEF AddWrite, TypeOK, IsLogin
  <2>3. CASE AddSave(p)
    BY <1>3, <2>3 DEF AddSave, TypeOK, IsLogin
  <2>4. CASE SetActive(p) \/ Crash(p)
    BY <1>9, <2>4 DEF SetActive, Crash
  <2>5. CASE Discard(p)
    BY <1>8, <2>5 DEF Discard
  <2>6. QED BY <1>11, <2>1, <2>2, <2>3, <2>4, <2>5 DEF Add
<1>12. ASSUME NEW p \in Processes, TakeSlot(p)
       PROVE  VersionInv'
  <2>1. CASE Remove(p)
    BY <1>3, <2>1 DEF Remove, TypeOK, IsLogin
  <2>2. CASE RemoveSave(p) \/ ImportSave(p)
    BY <1>9, <2>2 DEF RemoveSave, ImportSave
  <2>3. CASE Import(p)
    <3>1. PICK s \in Slots, a \in Accounts : \E v \in 1..newest[a] :
             /\ slot' = [slot EXCEPT ![s] = Login(a, v)]
             /\ auth' = [auth EXCEPT ![p] = Login(a, v)]
      BY <2>3 DEF Import
    <3>11. PICK v \in 1..newest[a] :
             /\ slot' = [slot EXCEPT ![s] = Login(a, v)]
             /\ auth' = [auth EXCEPT ![p] = Login(a, v)]
      BY <3>1
    <3> DEFINE f == Login(a, v)
    <3>2. v \in Nat /\ v <= newest[a]
      BY DEF TypeOK
    <3>3. f \in Files /\ IsLogin(f) /\ f.acct = a /\ f.ver = v
      BY <3>2, FileFacts
    <3>4. f.ver <= newest'[f.acct]
      BY <1>1, <3>2, <3>3
    <3>5. /\ UNCHANGED <<live, writing, stash, seen>>
          /\ slot' = [slot EXCEPT ![s] = f]
          /\ auth' = [auth EXCEPT ![p] = f]
      BY <2>3, <3>11 DEF Import
    <3> HIDE DEF f
    <3>6. QED BY <1>3, <3>4, <3>5 DEF TypeOK, IsLogin
  <2>4. QED BY <1>12, <2>1, <2>2, <2>3 DEF TakeSlot
<1>13. QED
  BY <1>4, <1>5, <1>6, <1>7, <1>8, <1>10, <1>11, <1>12
     DEF Next, Codex, Purge

-----------------------------------------------------------------------------
(* What a command relies on, through the steps of others.                  *)

(* The accounts stay where they are; at most a login is renewed in place.  *)
Quiet ==
    /\ ident' = ident
    /\ \A s \in Slots : slot'[s] # slot[s] =>
          /\ IsLogin(slot[s]) /\ IsLogin(slot'[s])
          /\ slot'[s].acct = slot[s].acct /\ slot'[s].ver > slot[s].ver
          /\ newest'[slot[s].acct] >= slot'[s].ver

(* No slot is given up, and none that matches its registration is given    *)
(* to another account.                                                     *)
Gentle ==
    /\ \A s \in Slots : ident[s] # NoAccount => ident'[s] # NoAccount
    /\ \A s \in Slots, a \in Accounts : Matching(s, a) => Matching(s, a)'

(* Nothing happens to command p itself.                                    *)
Same(p) ==
    UNCHANGED <<pc[p], target[p], auth[p], seen[p], stored[p], owner[p],
                entry[p]>>

LEMMA QuietIsGentle ==
  ASSUME TypeOK, Quiet
  PROVE  Gentle
BY DEF Quiet, Gentle, Matching, Holds

LEMMA QuietOwners ==
  ASSUME TypeOK, TypeOK', Quiet
  PROVE  /\ Registered' = Registered
         /\ \A s \in Slots : /\ slot'[s].acct = slot[s].acct
                             /\ IsLogin(slot'[s]) <=> IsLogin(slot[s])
                             /\ slot'[s].ver >= slot[s].ver
         /\ \A f : Owners(f)' = Owners(f)
<1>1. Registered' = Registered
  BY DEF Quiet, Registered
<1>2. \A s \in Slots : slot[s].ver \in Int
  BY FileFacts DEF TypeOK, Logins, Missing, Other
<1>3. ASSUME NEW s \in Slots
      PROVE  /\ slot'[s].acct = slot[s].acct
             /\ IsLogin(slot'[s]) <=> IsLogin(slot[s])
             /\ slot'[s].ver >= slot[s].ver
  <2>1. CASE slot'[s] = slot[s]
    BY <1>2, <2>1 DEF IsLogin
  <2>2. CASE slot'[s] # slot[s]
    <3>1. slot[s].ver \in Int /\ slot'[s].ver \in Int
      BY FileFacts DEF TypeOK, Logins, Missing, Other
    <3>2. QED BY <2>2, <3>1 DEF Quiet, IsLogin
  <2>3. QED BY <2>1, <2>2
<1>4. ASSUME NEW f PROVE Owners(f)' = Owners(f)
  BY <1>1, <1>3 DEF Owners, Registered, IsLogin
<1>5. QED BY <1>1, <1>3, <1>4

(* A login that is in a slot stays there until it is void.                 *)
LEMMA QuietInSlot ==
  ASSUME TypeOK, TypeOK', NewestGrows, Quiet, NEW f \in Logins,
         InSlot(f) \/ Void(f)
  PROVE  (InSlot(f) \/ Void(f))'
<1>1. f \in Files /\ IsLogin(f)
  BY FileFacts
<1>2. CASE Void(f)
  BY <1>1, <1>2, KnownStays
<1>3. CASE InSlot(f)
  <2>1. PICK s \in Registered : slot[s] = f
    BY <1>3 DEF InSlot
  <2>2. s \in Slots /\ s \in Registered'
    BY <2>1, QuietOwners DEF Registered
  <2>3. CASE slot'[s] = f
    BY <2>2, <2>3 DEF InSlot
  <2>4. CASE slot'[s] # f
    <3>1. slot'[s].ver > f.ver /\ newest'[f.acct] >= slot'[s].ver
      BY <2>1, <2>2, <2>4 DEF Quiet
    <3>2. slot'[s].ver \in Int /\ f.ver \in Int /\ newest'[f.acct] \in Int
      BY <1>1, <2>1, <2>2, FileFacts DEF TypeOK, Logins, Missing, Other
    <3>3. QED BY <3>1, <3>2 DEF Void
  <2>5. QED BY <2>3, <2>4
<1>4. QED BY <1>2, <1>3

LEMMA Bystander ==
  ASSUME TypeOK, TypeOK', NewestGrows,
         NEW p \in Processes, CommandInv(p), Same(p),
         pc[p] \in Inside => Quiet,
         /\ pc[p] = "overwrite" /\ seen[p] \in stash
         /\ IsLogin(seen[p]) => Owners(seen[p]) = {}
         => seen[p] \in stash'
  PROVE  CommandInv(p)'
<1>2. TargetInv(p)'
  <2>1. CASE pc[p] \notin Inside
    BY <2>1 DEF CommandInv, TargetInv, Same, Inside, Writing, Switching
  <2>2. CASE pc[p] = "removing"
    BY <2>2 DEF CommandInv, TargetInv, Same, Writing, Switching
  <2>3. CASE pc[p] \in Writing
    <3>1. target[p] \in Slots
      BY <2>3 DEF CommandInv, TargetInv, Writing, Switching, Registered
    <3>2. Registered' = Registered
      BY <2>3, QuietOwners DEF Inside
    <3>3. Holds(target[p], auth[p].acct)'
      BY <2>3, <3>1, QuietOwners
         DEF CommandInv, TargetInv, Holds, Same, IsLogin, Inside
    <3>4. QED BY <2>3, <3>1, <3>2, <3>3
              DEF CommandInv, TargetInv, Same, Writing, Switching, IsLogin
  <2>4. QED BY <2>1, <2>2, <2>3 DEF Inside
<1>4. SeenInv(p)'
  <2>1. CASE pc[p] \notin Inside
    BY <2>1 DEF CommandInv, SeenInv, Same, Inside, Writing, Switching
  <2>2. CASE pc[p] \in Inside
    <3>1. /\ \A f : Owners(f)' = Owners(f)
          /\ \A s \in Slots : /\ slot'[s].acct = slot[s].acct
                              /\ slot'[s].ver >= slot[s].ver
      BY <2>2, QuietOwners
    <3>2. Owners(seen[p])' = Owners(seen[p])
      BY <3>1 DEF Owners, Registered, Same
    <3>3. IsLogin(seen[p]) => seen[p] \in Logins
      BY FileFacts DEF TypeOK
    <3>4. IsLogin(seen[p]) /\ (InSlot(seen[p]) \/ Void(seen[p]))
             => (InSlot(seen[p]) \/ Void(seen[p]))'
      <4>1. \A f \in Logins : InSlot(f) \/ Void(f) => (InSlot(f) \/ Void(f))'
        BY <2>2, QuietInSlot
      <4>2. seen'[p] = seen[p]
        BY DEF Same
      <4>3. QED BY <3>3, <4>1, <4>2 DEF InSlot, Void, Registered
    <3>5. CASE pc[p] = "reread"
      <4>1. target[p] \in Slots
        BY <3>5 DEF CommandInv, TargetInv, Switching, Registered
      <4>2. /\ slot[target[p]].ver \in Int /\ slot'[target[p]].ver \in Int
            /\ seen[p].ver \in Int
        BY <4>1, FileFacts DEF TypeOK, Files, Logins, Missing, Other
      <4>3. slot'[target[p]].ver >= seen[p].ver
        BY <3>1, <3>5, <4>1, <4>2 DEF CommandInv, SeenInv
      <4>4. QED BY <3>1, <3>4, <3>5, <4>1, <4>3
                DEF CommandInv, SeenInv, Same, IsLogin
    <3>6. CASE pc[p] = "synced"
      <4>1. owner[p] \in Slots
        BY <3>6 DEF CommandInv, SeenInv, Owners, Registered
      <4>2. /\ slot[owner[p]].ver \in Int /\ slot'[owner[p]].ver \in Int
            /\ seen[p].ver \in Int
        BY <4>1, FileFacts DEF TypeOK, Files, Logins, Missing, Other
      <4>3. slot'[owner[p]].ver >= seen[p].ver
        BY <3>1, <3>6, <4>1, <4>2 DEF CommandInv, SeenInv
      <4>4. QED BY <3>2, <3>4, <3>6, <4>1, <4>3
                DEF CommandInv, SeenInv, Same, IsLogin
    <3>7. CASE pc[p] \notin {"reread", "synced"}
      <4>1. seen[p] = Other("cut") => ~IsLogin(seen[p])
        BY FileFacts DEF OtherKinds
      <4>2. QED BY <3>2, <3>4, <3>7, <4>1
                DEF CommandInv, SeenInv, Same, IsLogin
    <3>8. QED BY <3>5, <3>6, <3>7
  <2>3. QED BY <2>1, <2>2
<1>5. QED BY <1>2, <1>4 DEF CommandInv

(* A step of command q is none of another's; the slots change quietly, or  *)
(* q is the one inside.                                                    *)
LEMMA OthersSame ==
  ASSUME TypeOK, NEW q \in Processes,
         Switch(q) \/ Add(q) \/ TakeSlot(q) \/ Crash(q), ~Discard(q),
         NEW p \in Processes, p # q
  PROVE  Same(p)
<1> USE DEF local
<1>1. CASE End(q)
  BY <1>1 DEF TypeOK, Same, End, Goto
<1>2. CASE Switch(q) /\ ~End(q)
  BY <1>2 DEF TypeOK, Same, Switch, Check, ReadTarget, ReadTargetFails,
              NothingToSync, KeepSlot, SyncBack, SyncWrite, SyncSave, Reread,
              Rescue, Blocked, Overwrite, Finish, Goto
<1>3. CASE Add(q) /\ ~End(q)
  BY <1>3 DEF TypeOK, Same, Add, Capture, Claim, AddWrite, AddSave, SetActive,
              Goto
<1>4. CASE TakeSlot(q) /\ ~End(q)
  BY <1>4 DEF TypeOK, Same, TakeSlot, Remove, RemoveSave, Import, ImportSave,
              Goto
<1>5. QED BY <1>1, <1>2, <1>3, <1>4 DEF Crash

LEMMA QuietStep ==
  ASSUME TypeOK, NEW q \in Processes, Switch(q) \/ Add(q) \/ Crash(q)
  PROVE  \/ UNCHANGED <<slot, ident>> /\ Quiet
         \/ SyncWrite(q) \/ SyncSave(q) \/ AddWrite(q) \/ AddSave(q)
<1> USE DEF disk
<1>1. UNCHANGED <<slot, ident>> => Quiet
  BY DEF Quiet
<1>2. CASE Switch(q)
  BY <1>1, <1>2 DEF Switch, Check, ReadTarget, ReadTargetFails, NothingToSync,
                    KeepSlot, SyncBack, Reread, Rescue, Blocked, Overwrite,
                    Finish
<1>3. CASE Add(q) \/ Crash(q)
  BY <1>1, <1>3 DEF Add, Capture, Claim, SetActive, Discard, Crash
<1>4. QED BY <1>2, <1>3

LEMMA HomesIn ==
  ASSUME TypeOK, NEW a, NEW s \in Homes(a)
  PROVE  s \in Slots /\ ident[s] \in {a, NoAccount}
<1> DEFINE known == {t \in Slots : ident[t] = a}
<1>1. known \in SUBSET Nat
  BY SwitcherAssumption
<1>2. known # {} => First(known) \in known
  BY <1>1, FirstIs
<1>3. QED BY <1>2 DEF Homes, Registered

LEMMA GentleStep ==
  ASSUME TypeOK, NEW q \in Processes, CommandInv(q),
         Switch(q) \/ Add(q) \/ Crash(q)
  PROVE  Gentle
<1>1. CASE Quiet
  BY <1>1, QuietIsGentle
<1>2. CASE SyncWrite(q)
  <2>1. /\ IsLogin(seen[q]) /\ owner[q] \in Slots
        /\ Holds(owner[q], seen[q].acct) /\ seen[q].acct # NoAccount
    <3>1. IsLogin(seen[q]) /\ owner[q] \in Owners(seen[q])
      BY <1>2 DEF CommandInv, SeenInv, SyncWrite
    <3>2. seen[q].acct \in Accounts
      BY <3>1, FileFacts DEF TypeOK
    <3>3. QED BY <3>1, <3>2, SwitcherAssumption
              DEF Owners, Holds, IsLogin, Registered
  <2>2. /\ ident' = ident
        /\ \A s \in Slots : slot'[s] = IF s = owner[q] THEN seen[q] ELSE slot[s]
    BY <1>2 DEF SyncWrite, TypeOK
  <2>3. QED BY <2>1, <2>2 DEF Gentle, Matching, Holds, IsLogin
<1>3. CASE AddWrite(q)
  <2>1. PICK s \in Homes(auth[q].acct) : slot' = [slot EXCEPT ![s] = auth[q]]
    BY <1>3 DEF AddWrite
  <2>2. s \in Slots /\ ident[s] \in {auth[q].acct, NoAccount}
    BY <2>1, HomesIn
  <2>3. IsLogin(auth[q]) /\ ident' = ident
    BY <1>3 DEF CommandInv, TargetInv, AddWrite
  <2>4. \A t \in Slots : slot'[t] = IF t = s THEN auth[q] ELSE slot[t]
    BY <2>1, <2>2 DEF TypeOK
  <2>5. NoAccount \notin Accounts
    BY SwitcherAssumption
  <2>6. QED BY <2>2, <2>3, <2>4, <2>5 DEF Gentle, Matching, Holds, IsLogin
<1>4. CASE AddSave(q)
  <2>1. /\ target[q] \in Slots /\ Holds(target[q], auth[q].acct)
        /\ auth[q].acct # NoAccount
    <3>1. /\ target[q] \in Slots /\ Holds(target[q], auth[q].acct)
          /\ IsLogin(auth[q])
      BY <1>4 DEF CommandInv, TargetInv, AddSave, Inside, Writing
    <3>2. auth[q].acct \in Accounts
      BY <3>1, FileFacts DEF TypeOK
    <3>3. QED BY <3>1, <3>2, SwitcherAssumption
  <2>2. slot' = slot
    BY <1>4 DEF AddSave
  <2>3. \A s \in Slots : ident'[s] = IF s = target[q] THEN auth[q].acct
                                     ELSE ident[s]
    BY <1>4 DEF AddSave, TypeOK
  <2>4. QED BY <2>1, <2>2, <2>3 DEF Gentle, Matching, Holds, IsLogin
<1>5. CASE SyncSave(q)
  <2>1. /\ owner[q] \in Slots /\ slot[owner[q]].acct = seen[q].acct
        /\ seen[q].acct # NoAccount
    <3>1. IsLogin(seen[q]) /\ owner[q] \in Owners(seen[q])
      BY <1>5 DEF CommandInv, SeenInv, SyncSave
    <3>2. seen[q].acct \in Accounts
      BY <3>1, FileFacts DEF TypeOK
    <3>3. QED BY <3>1, <3>2, SwitcherAssumption DEF Owners, Registered
  <2>2. slot' = slot
    BY <1>5 DEF SyncSave
  <2>3. \A s \in Slots : ident'[s] = IF s = owner[q] THEN seen[q].acct
                                     ELSE ident[s]
    BY <1>5 DEF SyncSave, TypeOK
  <2>4. QED BY <2>1, <2>2, <2>3 DEF Gentle, Matching, Holds, IsLogin
<1>6. QED BY <1>1, <1>2, <1>3, <1>4, <1>5, QuietStep

(* A rescue copy goes: only a switch that relies on it alone notices.      *)
LEMMA DropKeeps ==
  ASSUME TypeOK, TypeOK', NewestGrows, NEW c, Drop(c),
         NEW p \in Processes, CommandInv(p),
         UNCHANGED <<slot, ident, newest, pc[p], target[p], auth[p],
                     stored[p], owner[p], entry[p]>>
  PROVE  CommandInv(p)'
<1> DEFINE relies == pc[p] = "overwrite" /\ seen[p] = c /\ Owners(c) = {}
<1>1. /\ stash' = stash \ {c}
      /\ seen'[p] = IF relies THEN Missing ELSE seen[p]
  BY DEF Drop
<1>2. Registered' = Registered
  BY DEF Registered
<1>3. CASE relies
  <2>1. seen'[p] = Missing /\ ~IsLogin(Missing) /\ Missing # Other("cut")
    BY <1>1, <1>3, FileFacts DEF Missing, Other
  <2>2. TargetInv(p)'
    BY <1>2, <1>3 DEF CommandInv, TargetInv, Writing, Switching, Holds, IsLogin
  <2>3. QED BY <1>3, <2>1, <2>2 DEF CommandInv, SeenInv
<1>4. CASE ~relies
  <2>1. Same(p)
    BY <1>1, <1>4 DEF Same
  <2>2. Quiet
    BY DEF Quiet
  <2>3. ASSUME pc[p] = "overwrite", seen[p] \in stash,
               IsLogin(seen[p]) => Owners(seen[p]) = {}
        PROVE  seen[p] \in stash'
    <3>1. CASE IsLogin(seen[p])
      BY <1>1, <1>4, <2>3, <3>1
    <3>2. CASE ~IsLogin(seen[p])
      <4>1. seen[p].acct = NoAccount
        BY <3>2, FileFacts DEF TypeOK
      <4>2. \A s \in Slots : IsLogin(slot[s]) => slot[s].acct # NoAccount
        BY FileFacts, SwitcherAssumption DEF TypeOK
      <4>3. Owners(seen[p]) = {}
        BY <4>1, <4>2 DEF Owners, Registered, IsLogin
      <4>4. QED BY <1>1, <1>4, <2>3, <4>3
    <3>3. QED BY <3>1, <3>2
  <2>4. QED BY <2>1, <2>2, <2>3, Bystander
<1>5. QED BY <1>3, <1>4

(* The other commands, when q takes a step.                                *)
LEMMA OthersKeep ==
  ASSUME TypeOK, TypeOK', LockInv, NewestGrows,
         \A p \in Processes : CommandInv(p),
         NEW q \in Processes, Switch(q) \/ Add(q) \/ TakeSlot(q) \/ Crash(q),
         NEW p \in Processes, p # q
  PROVE  CommandInv(p)'
<1>1. CASE Discard(q)
  <2>1. /\ Drop(entry[q])
        /\ UNCHANGED <<slot, ident, newest, pc[p], target[p], auth[p],
                       stored[p], owner[p], entry[p]>>
    BY <1>1 DEF Discard, Goto, TypeOK
  <2>2. QED BY <2>1, DropKeeps
<1>2. CASE ~Discard(q)
  <2>1. Same(p)
    BY <1>2, OthersSame
  <2>2. ASSUME pc[p] \in Inside
        PROVE  Quiet
    <3>1. lock = p /\ pc[q] \notin Inside /\ lock # NoProcess
      BY <2>2, SwitcherAssumption DEF LockInv
    <3>2. ~ (SyncWrite(q) \/ SyncSave(q) \/ AddWrite(q) \/ AddSave(q))
      BY <3>1 DEF SyncWrite, SyncSave, AddWrite, AddSave, Inside, Writing,
                  Switching
    <3>3. ~TakeSlot(q)
      BY <3>1 DEF TakeSlot, Remove, RemoveSave, Import, ImportSave, Inside,
                  Writing
    <3>4. QED BY <3>2, <3>3, QuietStep
  <2>3. stash \subseteq stash'
    BY <1>2
       DEF Switch, Check, ReadTarget, ReadTargetFails, NothingToSync, KeepSlot,
           SyncBack, SyncWrite, SyncSave, Reread, Rescue, Stashed, Blocked,
           Overwrite, Finish, Add, Capture, Claim, AddWrite, AddSave,
           SetActive, TakeSlot, Remove, RemoveSave, Import, ImportSave, Crash,
           disk
  <2>4. QED BY <2>1, <2>2, <2>3, Bystander
<1>3. QED BY <1>1, <1>2

-----------------------------------------------------------------------------
(* What a command relies on, through its own steps.                        *)
LEMMA EndKeeps ==
  ASSUME TypeOK, NEW p \in Processes, End(p)
  PROVE  CommandInv(p)'
<1>1. pc'[p] = "idle" /\ seen'[p] = Missing
  BY DEF TypeOK, End, Goto
<1>2. QED BY <1>1 DEF CommandInv, TargetInv, SeenInv, Writing, Switching

LEMMA SwitchKeeps ==
  ASSUME TypeOK, TypeOK', VersionInv,
         NEW p \in Processes, CommandInv(p), Switch(p)
  PROVE  CommandInv(p)'
<1> USE DEF disk, activity, local
<1>1. ~IsLogin(Missing) /\ Missing # Other("cut")
  BY FileFacts DEF Missing, Other
<1>2. CASE Check(p)
  <2>1. /\ pc'[p] = "checked" /\ seen'[p] = Missing /\ target'[p] \in Slots
    BY <1>2 DEF Check, Goto, TypeOK, Registered, CommandInv, SeenInv
  <2>2. QED BY <2>1 DEF CommandInv, TargetInv, SeenInv, Inside, Writing,
                        Switching
<1>3. CASE ReadTarget(p)
  <2>1. /\ pc'[p] = "target" /\ seen'[p] = Missing /\ slot' = slot
        /\ target'[p] = target[p] /\ target[p] \in Registered
        /\ Registered' = Registered
        /\ IsLogin(slot[target[p]]) /\ auth'[p] = slot[target[p]]
    BY <1>3 DEF ReadTarget, CanActivate, Goto, TypeOK, Registered, CommandInv,
                SeenInv, TargetInv, IsLogin
  <2>2. QED BY <2>1 DEF CommandInv, TargetInv, SeenInv, Inside, Writing,
                        Switching, Holds, IsLogin
<1>4. CASE ReadTargetFails(p) \/ Blocked(p) \/ Finish(p)
  BY <1>4, EndKeeps DEF ReadTargetFails, Blocked, Finish
<1> DEFINE Stays ==
      /\ slot' = slot /\ Registered' = Registered
      /\ target'[p] = target[p] /\ auth'[p] = auth[p]
      /\ pc[p] \in Switching /\ pc'[p] \in Switching
<1>5. Stays => TargetInv(p)'
  BY DEF CommandInv, TargetInv, Inside, Writing, Switching, Holds, IsLogin
<1>6. CASE NothingToSync(p)
  <2>1. Stays /\ pc'[p] = "rescue" /\ seen'[p] = Missing
    BY <1>6 DEF NothingToSync, Goto, TypeOK, Registered, CommandInv, SeenInv,
                Switching
  <2>2. QED BY <1>1, <1>5, <2>1 DEF CommandInv, SeenInv
<1>7. CASE KeepSlot(p) \/ SyncBack(p)
  <2> DEFINE s == First(Owners(live))
  <2>1. IsLogin(live) /\ s \in Owners(live)
    BY <1>7, OwnersFirst DEF KeepSlot, SyncBack, IsLogin
  <2>2. /\ s \in Slots /\ s \in Registered
        /\ IsLogin(slot[s]) /\ slot[s].acct = live.acct
    BY <2>1 DEF Owners, Registered, IsLogin
  <2>3. /\ slot[s].ver \in Nat /\ live.ver \in Nat /\ live.acct \in Accounts
        /\ newest[live.acct] \in Nat
    BY <2>1, <2>2, FileFacts DEF TypeOK
  <2>4. seen'[p] = live /\ slot' = slot /\ newest' = newest /\ ident' = ident
    BY <1>7 DEF KeepSlot, SyncBack, TypeOK
  <2>5. Owners(seen[p])' = Owners(live)
    BY <2>4 DEF Owners, Registered
  <2> HIDE DEF s
  <2>6. CASE KeepSlot(p)
    <3>1. Stays /\ pc'[p] = AfterSync(p, s) /\ slot[s].ver > live.ver
      BY <2>6 DEF KeepSlot, Goto, TypeOK, Registered, AfterSync, Switching,
                  SlotIsNewer, s
    <3>2. Void(live)'
      <4>1. slot[s].ver <= newest[live.acct]
        BY <2>2 DEF VersionInv, Known
      <4>2. live.ver < newest[live.acct]
        BY <2>3, <3>1, <4>1
      <4>3. live' = live
        BY <2>6 DEF KeepSlot
      <4>4. QED BY <2>4, <4>2, <4>3 DEF Void
    <3>3. Void(seen[p])' /\ IsLogin(seen[p])'
      BY <2>1, <2>4, <3>2, <2>6 DEF Void, IsLogin, KeepSlot
    <3>4. CASE s = target[p]
      <4>1. pc'[p] = "reread"
        BY <3>1, <3>4 DEF AfterSync
      <4>2. slot[target[p]].ver >= live.ver
        BY <2>3, <3>1, <3>4
      <4>3. QED BY <1>5, <2>2, <2>4, <3>1, <3>3, <3>4, <4>1, <4>2
                DEF CommandInv, SeenInv
    <3>5. CASE s # target[p]
      <4>1. pc'[p] = "rescue"
        BY <3>1, <3>5 DEF AfterSync
      <4>2. Owners(seen[p])' # {target[p]}
        BY <2>1, <2>5, <3>5
      <4>3. QED BY <1>5, <3>1, <3>3, <4>1, <4>2 DEF CommandInv, SeenInv
    <3>6. QED BY <3>4, <3>5
  <2>7. CASE SyncBack(p)
    <3>1. /\ Stays /\ pc'[p] = "syncing" /\ owner'[p] = s
          /\ stored'[p] = slot[s] /\ ~ (slot[s].ver > live.ver)
      BY <2>7 DEF SyncBack, Goto, TypeOK, Registered, Switching,
                  SlotIsNewer, s
    <3>2. stored'[p].ver <= live.ver
      BY <2>3, <3>1
    <3>3. QED BY <1>5, <2>1, <2>2, <2>4, <2>5, <3>1, <3>2
              DEF CommandInv, SeenInv, IsLogin
  <2>8. QED BY <1>7, <2>6, <2>7
<1>8. CASE SyncWrite(p)
  <2> DEFINE s == owner[p]
  <2>1. /\ IsLogin(seen[p]) /\ s \in Registered /\ s \in Slots
        /\ IsLogin(slot[s]) /\ slot[s].acct = seen[p].acct
    BY <1>8 DEF SyncWrite, CommandInv, SeenInv, Owners, Registered, IsLogin
  <2>2. seen[p].ver \in Nat
    BY <2>1, FileFacts DEF TypeOK
  <2>3. /\ \A t \in Slots : slot'[t] = IF t = s THEN seen[p] ELSE slot[t]
        /\ UNCHANGED <<seen, auth, target, owner>> /\ pc'[p] = "synced"
        /\ pc[p] = "syncing" /\ Registered' = Registered
    BY <1>8 DEF SyncWrite, TypeOK, Goto, Registered
  <2>4. target[p] \in Registered /\ target[p] \in Slots /\ IsLogin(auth[p])
        /\ Holds(target[p], auth[p].acct)
    BY <2>3 DEF CommandInv, TargetInv, Writing, Switching, Registered
  <2>5. Holds(target[p], auth[p].acct)'
    BY <2>1, <2>3, <2>4 DEF Holds, IsLogin
  <2>6. slot'[s] = seen[p] /\ s \in Registered'
    BY <2>1, <2>3
  <2>7. InSlot(seen[p])'
    BY <2>3, <2>6 DEF InSlot
  <2>8. s \in Owners(seen[p])'
    BY <2>1, <2>3, <2>6 DEF Owners, IsLogin
  <2>9. TargetInv(p)'
    BY <2>3, <2>4, <2>5 DEF TargetInv, Writing, Switching, IsLogin
  <2>10. SeenInv(p)'
    BY <2>1, <2>2, <2>3, <2>6, <2>7, <2>8 DEF SeenInv, IsLogin
  <2>11. QED BY <2>9, <2>10 DEF CommandInv
<1>81. CASE SyncSave(p)
  <2> DEFINE s == owner[p]
  <2>1. /\ IsLogin(seen[p]) /\ s \in Registered /\ s \in Slots
        /\ IsLogin(slot[s]) /\ slot[s].acct = seen[p].acct
        /\ slot[s].ver >= seen[p].ver /\ (InSlot(seen[p]) \/ Void(seen[p]))
    BY <1>81 DEF SyncSave, CommandInv, SeenInv, Owners, Registered, IsLogin
  <2>2. seen[p].acct \in Accounts /\ seen[p].acct # NoAccount
    BY <2>1, FileFacts, SwitcherAssumption DEF TypeOK
  <2>3. /\ \A t \in Slots : ident'[t] = IF t = s THEN seen[p].acct ELSE ident[t]
        /\ UNCHANGED <<seen, auth, target, slot, newest>>
        /\ pc'[p] = AfterSync(p, s) /\ pc[p] = "synced"
    BY <1>81 DEF SyncSave, TypeOK, Goto
  <2>4. Registered' = Registered
    BY <2>1, <2>2, <2>3 DEF Registered
  <2>5. target[p] \in Registered /\ target[p] \in Slots /\ IsLogin(auth[p])
        /\ Holds(target[p], auth[p].acct)
    BY <2>3 DEF CommandInv, TargetInv, Writing, Switching, Registered
  <2>6. (InSlot(seen[p]) \/ Void(seen[p]))'
    BY <2>1, <2>3, <2>4 DEF InSlot, Void
  <2>7. pc'[p] \in {"reread", "rescue"}
    BY <2>3 DEF AfterSync
  <2>8. TargetInv(p)'
    BY <2>3, <2>4, <2>5, <2>7 DEF TargetInv, Writing, Switching, Holds, IsLogin
  <2>9. CASE s = target[p]
    <3>1. pc'[p] = "reread"
      BY <2>3, <2>9 DEF AfterSync
    <3>2. QED BY <2>1, <2>3, <2>6, <2>8, <2>9, <3>1
              DEF CommandInv, SeenInv, IsLogin
  <2>10. CASE s # target[p]
    <3>1. pc'[p] = "rescue"
      BY <2>3, <2>10 DEF AfterSync
    <3>2. s \in Owners(seen[p])'
      BY <2>1, <2>3, <2>4 DEF Owners, IsLogin
    <3>3. Owners(seen[p])' # {target[p]}
      BY <2>10, <3>2
    <3>4. QED BY <2>1, <2>3, <2>6, <2>8, <3>1, <3>3
              DEF CommandInv, SeenInv, IsLogin
  <2>11. QED BY <2>9, <2>10
<1>9. CASE Reread(p)
  <2>1. /\ target[p] \in Registered /\ target[p] \in Slots
        /\ IsLogin(auth[p]) /\ Holds(target[p], auth[p].acct)
        /\ IsLogin(seen[p]) /\ slot[target[p]].acct = seen[p].acct
        /\ slot[target[p]].ver >= seen[p].ver
        /\ InSlot(seen[p]) \/ Void(seen[p])
    BY <1>1, <1>9 DEF Reread, CommandInv, TargetInv, SeenInv, Inside, Writing,
                      Switching, Registered
  <2>2. /\ UNCHANGED <<slot, ident, newest, stash, seen, target>>
        /\ Registered' = Registered
        /\ auth'[p] = slot[target[p]] /\ pc'[p] = "rescue"
    BY <1>9 DEF Reread, TypeOK, Goto, Registered
  <2>3. TargetInv(p)'
    BY <2>1, <2>2 DEF TargetInv, Inside, Writing, Switching, Holds, IsLogin
  <2>4. (InSlot(seen[p]) \/ Void(seen[p]))'
    BY <2>1, <2>2 DEF InSlot, Void
  <2>5. QED BY <2>1, <2>2, <2>3, <2>4 DEF CommandInv, SeenInv, IsLogin
<1>10. CASE Rescue(p)
  <2>1. /\ Stays /\ pc[p] = "rescue" /\ pc'[p] = "overwrite"
        /\ UNCHANGED <<slot, ident, newest>> /\ stash \subseteq stash'
    BY <1>10 DEF Rescue, Stashed, TypeOK, Goto, Registered, Switching
  <2>2. CASE IsLogin(live) /\ Owners(live) # {}
    <3>1. seen' = seen
      BY <1>10, <2>2 DEF Rescue, IsLogin
    <3>2. Owners(seen[p])' = Owners(seen[p])
      BY <2>1, <3>1 DEF Owners
    <3>3. /\ InSlot(seen[p])' = InSlot(seen[p])
          /\ Void(seen[p])' = Void(seen[p])
      BY <2>1, <3>1 DEF InSlot, Void
    <3>4. IsLogin(seen[p]) => InSlot(seen[p]) \/ Void(seen[p])
      BY <1>1, <2>1 DEF CommandInv, SeenInv
    <3>5. seen[p] # Other("cut")
      BY <1>1, <2>1, FileFacts DEF CommandInv, SeenInv, OtherKinds
    <3>6. QED BY <1>1, <1>5, <2>1, <3>1, <3>2, <3>3, <3>4, <3>5
              DEF CommandInv, SeenInv, IsLogin
  <2>3. CASE ~ (IsLogin(live) /\ Owners(live) # {})
    <3>1. /\ seen'[p] = live
          /\ WorthKeeping(live) => live \in stash'
      BY <1>10, <2>3 DEF Rescue, Stashed, IsLogin, TypeOK
    <3>2. Owners(seen[p])' = Owners(live)
      BY <2>1, <3>1 DEF Owners
    <3>3. IsLogin(live) \/ live = Other("cut") => seen'[p] \in stash'
      BY <3>1, FileFacts DEF WorthKeeping, IsLogin, OtherKinds
    <3>4. IsLogin(live) => Owners(live) = {}
      BY <2>3
    <3>5. QED BY <1>5, <2>1, <3>1, <3>2, <3>3, <3>4
              DEF CommandInv, SeenInv, IsLogin
  <2>4. QED BY <2>2, <2>3
<1>11. CASE Overwrite(p)
  <2>1. Stays /\ pc'[p] = "saving"
    BY <1>11 DEF Overwrite, Goto, TypeOK, Registered, Switching
  <2>2. QED BY <1>5, <2>1 DEF CommandInv, SeenInv
<1>12. QED
  BY <1>2, <1>3, <1>4, <1>6, <1>7, <1>8, <1>81, <1>9, <1>10, <1>11 DEF Switch

LEMMA AddKeeps ==
  ASSUME TypeOK, TypeOK',
         NEW p \in Processes, CommandInv(p), Add(p) \/ Crash(p)
  PROVE  CommandInv(p)'
<1> USE DEF disk, activity, local
<1>1. CASE SetActive(p) \/ Crash(p)
  BY <1>1, EndKeeps DEF SetActive, Crash
<1>2. CASE Capture(p) \/ Claim(p)
  <2>1. pc'[p] = "adding" /\ auth'[p] \in Logins
    BY <1>2, FileFacts DEF Capture, Claim, Goto, TypeOK, IsLogin
  <2>2. IsLogin(auth[p])'
    BY <2>1, FileFacts DEF IsLogin
  <2>3. seen'[p] = Missing
    BY <1>2 DEF Capture, Claim, CommandInv, SeenInv
  <2>4. QED BY <2>1, <2>2, <2>3
            DEF CommandInv, TargetInv, SeenInv, Writing, Switching
<1>3. CASE AddWrite(p)
  <2>1. PICK s \in Homes(auth[p].acct) :
           /\ slot' = [slot EXCEPT ![s] = auth[p]]
           /\ target' = [target EXCEPT ![p] = s]
    BY <1>3 DEF AddWrite
  <2>2. s \in Slots
    BY <2>1, HomesIn
  <2>3. /\ pc'[p] = "registering" /\ UNCHANGED auth
        /\ target'[p] = s /\ slot'[s] = auth[p] /\ IsLogin(auth[p])
        /\ seen'[p] = Missing
    BY <1>3, <2>1, <2>2 DEF AddWrite, Goto, TypeOK, CommandInv, TargetInv,
                            SeenInv
  <2>4. QED BY <2>2, <2>3 DEF CommandInv, TargetInv, SeenInv, Writing,
                              Switching, Holds, IsLogin
<1>4. CASE AddSave(p)
  <2>1. /\ target[p] \in Slots /\ Holds(target[p], auth[p].acct)
        /\ IsLogin(auth[p])
    BY <1>4 DEF AddSave, CommandInv, TargetInv, Writing
  <2>2. auth[p].acct # NoAccount
    BY <2>1, FileFacts, SwitcherAssumption DEF TypeOK
  <2>3. slot' = slot /\ ident'[target[p]] = auth[p].acct
    BY <1>4, <2>1 DEF AddSave, TypeOK
  <2>4. CASE entry[p] = Missing
    <3>1. /\ pc'[p] = "activating" /\ UNCHANGED <<target, auth>>
          /\ target[p] \in Registered'
      BY <1>4, <2>1, <2>2, <2>3, <2>4 DEF AddSave, Goto, TypeOK, Registered
    <3>2. QED BY <2>1, <2>3, <3>1
              DEF CommandInv, TargetInv, SeenInv, Writing, Switching, Holds,
                  IsLogin
  <2>5. CASE entry[p] # Missing
    <3>1. pc'[p] = "discarding" /\ seen'[p] = Missing
      BY <1>4, <2>5 DEF AddSave, Goto, TypeOK, CommandInv, SeenInv
    <3>2. QED BY <3>1 DEF CommandInv, TargetInv, SeenInv, Writing, Switching
  <2>6. QED BY <2>4, <2>5
<1>5. CASE Discard(p)
  <2>1. pc'[p] = "idle"
    BY <1>5 DEF Discard, Goto, TypeOK
  <2>2. seen'[p] = Missing
    <3>1. \/ seen'[p] = seen[p]
          \/ seen'[p] = Missing
      BY <1>5 DEF Discard, Drop
    <3>2. seen[p] = Missing
      BY <1>5 DEF Discard, CommandInv, SeenInv
    <3>3. QED BY <3>1, <3>2
  <2>3. QED BY <2>1, <2>2 DEF CommandInv, TargetInv, SeenInv, Writing, Switching
<1>6. QED BY <1>1, <1>2, <1>3, <1>4, <1>5 DEF Add

LEMMA TakeKeeps ==
  ASSUME TypeOK, TypeOK',
         NEW p \in Processes, CommandInv(p), TakeSlot(p)
  PROVE  CommandInv(p)'
<1>1. CASE RemoveSave(p) \/ ImportSave(p)
  BY <1>1, EndKeeps DEF RemoveSave, ImportSave
<1>2. CASE Remove(p)
  <2>1. pc'[p] = "removing" /\ target'[p] \in Slots
    BY <1>2 DEF Remove, Registered, Goto, TypeOK
  <2>2. QED BY <2>1 DEF CommandInv, TargetInv, SeenInv, Writing, Switching
<1>3. CASE Import(p)
  <2>1. PICK s \in Slots, a \in Accounts : \E v \in 1..newest[a] :
           /\ slot' = [slot EXCEPT ![s] = Login(a, v)]
           /\ target' = [target EXCEPT ![p] = s]
           /\ auth' = [auth EXCEPT ![p] = Login(a, v)]
    BY <1>3 DEF Import
  <2>11. PICK v \in 1..newest[a] :
           /\ slot' = [slot EXCEPT ![s] = Login(a, v)]
           /\ target' = [target EXCEPT ![p] = s]
           /\ auth' = [auth EXCEPT ![p] = Login(a, v)]
    BY <2>1
  <2>2. /\ pc'[p] = "importing" /\ target'[p] = s
        /\ auth'[p] = Login(a, v) /\ slot'[s] = Login(a, v)
    BY <1>3, <2>11 DEF Import, Goto, TypeOK
  <2>3. IsLogin(Login(a, v))
    BY DEF IsLogin, Login
  <2>4. QED BY <2>2, <2>3 DEF CommandInv, TargetInv, SeenInv, Writing,
                              Switching, Holds, IsLogin
<1>4. QED BY <1>1, <1>2, <1>3 DEF TakeSlot

(* ... and through what Codex and the purge do.                            *)
LEMMA CodexKeeps ==
  ASSUME TypeOK, TypeOK', VersionInv, NewestGrows, Codex,
         NEW p \in Processes, CommandInv(p)
  PROVE  CommandInv(p)'
<1> USE DEF disk, activity, local
<1>1. Same(p) /\ UNCHANGED <<stash, ident>>
  BY DEF Codex, CodexDies, CodexBegin, CodexEnd, CodexLeaves, SlotRefresh, Same
<1>2. Quiet
  <2>1. ASSUME NEW s \in Slots, SlotRefresh(s)
        PROVE  Quiet
    <3> DEFINE a == slot[s].acct
    <3>1. a \in Accounts /\ IsLogin(slot[s]) /\ newest[a] \in Nat
          /\ slot[s].ver = newest[a]
      BY <2>1, FileFacts DEF SlotRefresh, TypeOK, IsLogin
    <3>2. newest' = [newest EXCEPT ![a] = newest[a] + 1]
      BY <2>1 DEF SlotRefresh
    <3>3. newest'[a] = newest[a] + 1
      BY <3>1, <3>2 DEF TypeOK
    <3>4. slot' = [slot EXCEPT ![s] = Login(a, newest'[a])]
      BY <2>1 DEF SlotRefresh
    <3>5. /\ IsLogin(slot'[s]) /\ slot'[s].acct = a
          /\ slot'[s].ver = newest[a] + 1
      BY <3>1, <3>3, <3>4, FileFacts DEF TypeOK
    <3>6. \A t \in Slots : t # s => slot'[t] = slot[t]
      BY <3>4 DEF TypeOK
    <3> HIDE DEF a
    <3>7. slot'[s].ver > slot[s].ver /\ newest'[a] >= slot'[s].ver
      BY <3>1, <3>3, <3>5
    <3>8. QED BY <1>1, <3>1, <3>5, <3>6, <3>7 DEF Quiet, a
  <2>2. CASE slot' = slot
    BY <1>1, <2>2 DEF Quiet
  <2>3. QED BY <2>1, <2>2
            DEF Codex, CodexDies, CodexBegin, CodexEnd, CodexLeaves
<1>3. QED BY <1>1, <1>2, Bystander

LEMMA PurgeKeeps ==
  ASSUME TypeOK, TypeOK', NewestGrows, Purge,
         NEW p \in Processes, CommandInv(p)
  PROVE  CommandInv(p)'
<1>1. PICK c \in stash : Drop(c)
  BY DEF Purge
<1>2. UNCHANGED <<slot, ident, newest, pc, target, auth, entry, stored, owner>>
  BY DEF Purge
<1>3. QED BY <1>1, <1>2, DropKeeps

LEMMA CommandStep ==
  ASSUME SwitchInv, TypeOK', Next
  PROVE  \A p \in Processes : CommandInv(p)'
<1>1. TypeOK /\ LockInv /\ VersionInv /\ NewestGrows
      /\ \A p \in Processes : CommandInv(p)
  BY NewestStep DEF SwitchInv
<1>2. CASE Codex \/ Purge
  BY <1>1, <1>2, CodexKeeps, PurgeKeeps
<1>3. ASSUME NEW q \in Processes,
             Switch(q) \/ Add(q) \/ TakeSlot(q) \/ Crash(q),
             NEW p \in Processes
      PROVE  CommandInv(p)'
  <2>1. CASE p = q
    BY <1>1, <1>3, <2>1, SwitchKeeps, AddKeeps, TakeKeeps
  <2>2. CASE p # q
    BY <1>1, <1>3, <2>2, OthersKeep
  <2>3. QED BY <2>1, <2>2
<1>4. QED BY <1>2, <1>3 DEF Next

-----------------------------------------------------------------------------
(* What the registry calls active.                                         *)
LEMMA LiveAccount ==
  ASSUME TypeOK, LiveInv
  PROVE  /\ live.acct \in Accounts <=> IsLogin(live)
         /\ writing # Missing => /\ writing.acct \in Accounts
                                 /\ live.acct = NoAccount
         /\ writing = Missing => writing.acct = NoAccount
<1>1. NoAccount \notin Accounts
  BY SwitcherAssumption
<1>2. writing # Missing => ~IsLogin(live)
  BY DEF LiveInv, IsLogin
<1>3. QED BY <1>1, <1>2, FileFacts DEF TypeOK

(* A command sets activeSlot: to the slot of the login it wrote, and the   *)
(* two are in step if that is still the one.                               *)
LEMMA ActiveSet ==
  ASSUME TypeOK, LiveInv, NEW p \in Processes, CommandInv(p),
         pc[p] \in Settling, active' = target[p],
         adrift' = Replaced(auth[p].acct), UNCHANGED disk
  PROVE  ActiveInv'
<1> USE DEF disk
<1>1. /\ target[p] \in Registered /\ Holds(target[p], auth[p].acct)
      /\ IsLogin(auth[p])
  BY DEF CommandInv, TargetInv, Settling, Inside, Writing, Switching
<1>2. auth[p].acct \in Accounts
  BY <1>1, FileFacts DEF TypeOK
<1>3. Registered' = Registered
  BY DEF Registered
<1>4. ~adrift' => {live.acct, writing.acct} \subseteq {NoAccount, auth[p].acct}
  BY <1>2, LiveAccount, SwitcherAssumption DEF Replaced
<1>5. QED BY <1>1, <1>3, <1>4 DEF ActiveInv, Holds, IsLogin

LEMMA ActiveStep ==
  ASSUME SwitchInv, TypeOK', Next
  PROVE  ActiveInv'
<1> USE DEF disk, activity, local
<1>1. TypeOK /\ LockInv /\ LiveInv /\ ActiveInv
      /\ \A p \in Processes : CommandInv(p)
  BY DEF SwitchInv
<1> DEFINE InStep == /\ active \in Registered /\ IsLogin(slot[active])
                     /\ live.acct \in {NoAccount, slot[active].acct}
                     /\ writing.acct \in {NoAccount, slot[active].acct}
           Settled == \A p \in Processes : pc[p] \notin Settling
<1>2. ~adrift /\ Settled => InStep
  BY <1>1 DEF ActiveInv
<1>3. ASSUME InStep, active' = active, ident' = ident,
             slot'[active].acct = slot[active].acct, IsLogin(slot'[active]),
             live'.acct \in {NoAccount, slot[active].acct},
             writing'.acct \in {NoAccount, slot[active].acct}
      PROVE  ActiveInv'
  BY <1>3 DEF ActiveInv, Registered, IsLogin
<1>4. live.acct \in {NoAccount} \cup Accounts
      /\ (writing # Missing => live.acct = NoAccount)
  BY <1>1, LiveAccount, FileFacts DEF TypeOK
<1>5. ASSUME Codex \/ Purge, ~adrift', Settled'
      PROVE  ActiveInv'
  <2>1. UNCHANGED <<active, ident, pc>> /\ ~adrift
    <3>1. CASE \E a \in Accounts : CodexBegin(a)
      BY <1>5, <3>1, Zenon DEF CodexBegin
    <3>2. CASE UNCHANGED activity
      BY <1>5, <3>2 DEF Codex, CodexDies, CodexBegin, CodexEnd, CodexLeaves,
                        SlotRefresh, Purge
    <3>3. QED BY <1>5, <3>1, <3>2
              DEF Codex, CodexDies, CodexEnd, CodexLeaves, SlotRefresh, Purge
  <2>2. InStep
    BY <1>2, <1>5, <2>1
  <2>3. CASE Purge \/ CodexDies \/ CodexEnd
    BY <1>3, <2>1, <2>2, <2>3, FileFacts
       DEF Purge, CodexDies, CodexEnd, IsLogin
  <2>4. ASSUME NEW a \in Accounts, CodexBegin(a)
        PROVE  ActiveInv'
    <3>1. live.acct = a /\ newest'[a] \in Nat
      BY <1>5, <2>4 DEF CodexBegin, TypeOK
    <3>2. writing'.acct = a /\ live'.acct = NoAccount /\ slot' = slot
      BY <2>4, <3>1, FileFacts DEF CodexBegin, OtherKinds
    <3>3. a = slot[active].acct
      BY <2>2, <3>1, SwitcherAssumption
    <3>4. QED BY <1>3, <2>1, <2>2, <3>2, <3>3 DEF IsLogin
  <2>5. ASSUME NEW k \in Leavings, CodexLeaves(k)
        PROVE  ActiveInv'
    <3>1. live'.acct = NoAccount /\ UNCHANGED <<writing, slot>>
      BY <2>5, FileFacts, SwitcherAssumption DEF CodexLeaves, OtherKinds
    <3>2. QED BY <1>3, <2>1, <2>2, <3>1 DEF IsLogin
  <2>6. ASSUME NEW s \in Slots, SlotRefresh(s)
        PROVE  ActiveInv'
    <3>1. /\ slot[s].acct \in Accounts /\ newest'[slot[s].acct] \in Nat
          /\ UNCHANGED <<live, writing>>
          /\ slot' = [slot EXCEPT
                         ![s] = Login(slot[s].acct, newest'[slot[s].acct])]
      BY <2>6, FileFacts DEF SlotRefresh, TypeOK, IsLogin
    <3>2. /\ IsLogin(slot'[s]) /\ slot'[s].acct = slot[s].acct
          /\ \A t \in Slots : t # s => slot'[t] = slot[t]
      BY <3>1, FileFacts DEF TypeOK
    <3>3. active \in Slots
      BY <2>2 DEF Registered
    <3>4. QED BY <1>3, <2>1, <2>2, <3>1, <3>2, <3>3 DEF IsLogin
  <2>7. QED BY <1>5, <2>3, <2>4, <2>5, <2>6 DEF Codex
<1>6. ASSUME NEW p \in Processes, Finish(p) \/ SetActive(p)
      PROVE  ActiveInv'
  BY <1>1, <1>6, ActiveSet DEF Finish, SetActive, ActiveAfter, Settling
<1>7. ASSUME NEW p \in Processes, ~adrift', Settled',
             Switch(p) \/ Add(p) \/ Crash(p), ~ (Finish(p) \/ SetActive(p))
      PROVE  ActiveInv'
  <2>1. ~Overwrite(p)
    BY <1>7 DEF Overwrite, Goto, TypeOK, Settling
  <2>2. active' = active /\ pc[p] \notin Settling /\ ~adrift
    <3>1. CASE AddWrite(p) \/ Crash(p)
      BY <1>7, <3>1, Zenon DEF AddWrite, Crash, Settling
    <3>2. CASE ~ (AddWrite(p) \/ Crash(p))
      BY <1>7, <2>1, <3>2
         DEF Switch, Check, ReadTarget, ReadTargetFails, NothingToSync, KeepSlot,
             SyncBack, SyncWrite, SyncSave, Reread, Rescue, Blocked, Add,
             Capture, Claim, AddSave, Discard, Settling
    <3>3. QED BY <3>1, <3>2
  <2>3. Settled
    <3>1. \A q \in Processes : q # p => pc'[q] = pc[q]
      <4>1. CASE Discard(p)
        BY <1>1, <4>1 DEF Discard, Goto, TypeOK
      <4>2. CASE ~Discard(p)
        BY <1>1, <1>7, <4>2, OthersSame DEF Same
      <4>3. QED BY <4>1, <4>2
    <3>2. QED BY <1>7, <2>2, <3>1
  <2>4. InStep
    BY <1>2, <1>7, <2>2, <2>3
  <2>5. UNCHANGED <<live, writing>>
    BY <1>7, <2>1
       DEF Switch, Check, ReadTarget, ReadTargetFails, NothingToSync, KeepSlot,
           SyncBack, SyncWrite, SyncSave, Reread, Rescue, Blocked, Add,
           Capture, Claim, AddWrite, AddSave, Discard, Crash
  <2>6. Gentle
    BY <1>1, <1>7, GentleStep
  <2>7. active \in Slots /\ active \in Registered'
    BY <2>4, <2>6 DEF Gentle, Registered
  <2>8. IsLogin(slot'[active]) /\ slot'[active].acct = slot[active].acct
    <3>1. CASE UNCHANGED <<slot, ident>>
      BY <2>4, <3>1 DEF IsLogin
    <3>2. CASE SyncWrite(p)
      <4>1. /\ IsLogin(seen[p]) /\ owner[p] \in Slots
            /\ slot[owner[p]].acct = seen[p].acct
        BY <1>1, <3>2
           DEF SyncWrite, CommandInv, SeenInv, Owners, Registered
      <4>2. \A s \in Slots : slot'[s] = IF s = owner[p] THEN seen[p]
                                        ELSE slot[s]
        BY <1>1, <3>2 DEF SyncWrite, TypeOK
      <4>3. QED BY <2>4, <2>7, <4>1, <4>2 DEF IsLogin
    <3>3. CASE AddWrite(p)
      <4>1. PICK s \in Homes(auth[p].acct) :
               /\ slot' = [slot EXCEPT ![s] = auth[p]]
               /\ target' = [target EXCEPT ![p] = s]
        BY <3>3 DEF AddWrite
      <4>2. s \in Slots /\ target'[p] = s /\ IsLogin(auth[p])
        BY <1>1, <3>3, <4>1, HomesIn
           DEF TypeOK, CommandInv, TargetInv, AddWrite
      <4>3. s = active => slot[active].acct = auth[p].acct
        BY <1>7, <3>3, <4>2 DEF AddWrite
      <4>4. \A t \in Slots : slot'[t] = IF t = s THEN auth[p] ELSE slot[t]
        BY <1>1, <4>1 DEF TypeOK
      <4>5. QED BY <2>4, <2>7, <4>2, <4>3, <4>4 DEF IsLogin
    <3>4. CASE AddSave(p) \/ SyncSave(p)
      BY <2>4, <3>4 DEF AddSave, SyncSave, IsLogin
    <3>5. QED BY <1>1, <1>7, <3>1, <3>2, <3>3, <3>4, QuietStep
  <2>9. QED BY <2>2, <2>4, <2>5, <2>7, <2>8 DEF ActiveInv, IsLogin
<1>8. adrift' \/ ~Settled' => ActiveInv'
  BY DEF ActiveInv
<1>9. ASSUME NEW p \in Processes, TakeSlot(p), ~adrift', Settled'
      PROVE  ActiveInv'
  <2>1. /\ pc[p] \in {"idle", "removing", "importing"} /\ ~adrift
        /\ UNCHANGED <<live, writing>>
    <3>1. /\ pc[p] \in {"idle", "removing", "importing"}
          /\ UNCHANGED <<live, writing>>
      BY <1>9 DEF TakeSlot, Remove, RemoveSave, Import, ImportSave
    <3>2. CASE Remove(p)
      BY <1>9, <3>2, Zenon DEF Remove
    <3>3. CASE Import(p)
      BY <1>9, <3>3, Zenon DEF Import
    <3>4. CASE RemoveSave(p) \/ ImportSave(p)
      BY <1>9, <3>4 DEF RemoveSave, ImportSave
    <3>5. QED BY <1>9, <3>1, <3>2, <3>3, <3>4 DEF TakeSlot
  <2>2. lock \in {p, NoProcess}
    BY <1>1, <1>9 DEF TakeSlot, Remove, RemoveSave, Import, ImportSave, LockInv,
                      Inside, Writing
  <2>3. Settled
    <3>1. \A q \in Processes : pc[q] \in Settling => lock = q
      BY <1>1 DEF LockInv, Settling, Inside, Writing, Switching
    <3>2. QED BY <2>1, <2>2, <3>1, SwitcherAssumption DEF Settling
  <2>4. InStep /\ active \in Slots /\ active # 0
    BY <1>2, <2>1, <2>3, SwitcherAssumption DEF Registered
  <2>5. CASE Remove(p)
    <3>1. PICK s \in Registered :
             /\ \A t \in Slots : t # s => slot'[t] = slot[t]
             /\ adrift' = (adrift \/ s = active)
      BY <1>1, <2>5 DEF Remove, Registered, TypeOK
    <3>2. active # s
      BY <1>9, <3>1
    <3>3. slot'[active] = slot[active]
      BY <2>4, <3>1, <3>2
    <3>4. QED BY <1>3, <2>1, <2>4, <2>5, <3>3 DEF Remove
  <2>6. CASE RemoveSave(p)
    <3>1. target[p] # active /\ active' = active /\ slot' = slot
      BY <2>1, <2>6 DEF SwitchInv, RemovalInv, RemoveSave
    <3>2. ident'[active] = ident[active]
      BY <1>1, <2>4, <2>6, <3>1 DEF RemoveSave, TypeOK
    <3>3. QED BY <2>1, <2>4, <3>1, <3>2 DEF ActiveInv, Registered, IsLogin
  <2>7. CASE Import(p)
    <3>1. PICK s \in Slots, a \in Accounts : \E v \in 1..newest[a] :
             /\ slot' = [slot EXCEPT ![s] = Login(a, v)]
             /\ adrift' = (adrift \/ (s = active /\ slot[s].acct # a))
      BY <2>7 DEF Import
    <3>2. PICK v \in 1..newest[a] : slot' = [slot EXCEPT ![s] = Login(a, v)]
      BY <3>1
    <3>3. IsLogin(Login(a, v)) /\ Login(a, v).acct = a
      BY DEF IsLogin, Login
    <3>4. s = active => slot[active].acct = a
      BY <1>9, <3>1
    <3>5. IsLogin(slot'[active]) /\ slot'[active].acct = slot[active].acct
      BY <1>1, <2>4, <3>2, <3>3, <3>4 DEF TypeOK, IsLogin
    <3>6. QED BY <1>3, <2>1, <2>4, <2>7, <3>5 DEF Import
  <2>8. CASE ImportSave(p)
    <3>1. active' = active /\ slot' = slot
      BY <2>4, <2>8 DEF ImportSave
    <3>2. auth[p].acct # NoAccount
      <4>1. auth[p].acct \in Accounts
        BY <1>1, <2>8, FileFacts
           DEF ImportSave, CommandInv, TargetInv, Writing, TypeOK
      <4>2. QED BY <4>1, SwitcherAssumption
    <3>3. ident' = [ident EXCEPT ![target[p]] = auth[p].acct]
      BY <2>8 DEF ImportSave
    <3>4. active \in Registered'
      BY <1>1, <2>4, <3>2, <3>3 DEF Registered, TypeOK
    <3>5. QED BY <2>1, <2>4, <3>1, <3>4 DEF ActiveInv, IsLogin
  <2>9. QED BY <1>9, <2>5, <2>6, <2>7, <2>8 DEF TakeSlot
<1>10. QED BY <1>5, <1>6, <1>7, <1>8, <1>9 DEF Next

(* activeSlot and the slot being removed.                                  *)
LEMMA RemovalStep ==
  ASSUME SwitchInv, TypeOK', Next
  PROVE  RemovalInv'
<1> USE DEF disk, activity, local
<1>1. TypeOK /\ LockInv /\ RemovalInv
  BY DEF SwitchInv
<1>2. CASE Codex \/ Purge
  <2>1. UNCHANGED <<pc, target, active>>
    BY <1>2 DEF Codex, CodexDies, CodexBegin, CodexEnd, CodexLeaves,
                SlotRefresh, Purge
  <2>2. adrift => adrift'
    <3>1. CASE \E a \in Accounts : CodexBegin(a)
      BY <3>1, Zenon DEF CodexBegin
    <3>2. CASE UNCHANGED activity
      BY <3>2
    <3>3. QED BY <1>2, <3>1, <3>2
              DEF Codex, CodexDies, CodexEnd, CodexLeaves, SlotRefresh, Purge
  <2>3. QED BY <1>1, <2>1, <2>2 DEF RemovalInv
<1>3. ASSUME NEW q \in Processes,
             Switch(q) \/ Add(q) \/ TakeSlot(q) \/ Crash(q),
             NEW p \in Processes, pc'[p] = "removing"
      PROVE  adrift' \/ target'[p] # active'
  <2>1. CASE Remove(q) /\ q = p
    BY <1>1, <2>1, Zenon DEF Remove, TypeOK
  <2>2. CASE q = p /\ ~Remove(q)
    BY <1>1, <1>3, <2>2
       DEF TypeOK, Switch, Check, ReadTarget, ReadTargetFails, NothingToSync,
           KeepSlot, SyncBack, SyncWrite, SyncSave, AfterSync, Reread, Rescue,
           Blocked, Overwrite, Finish, Add, Capture, Claim, AddWrite, AddSave,
           SetActive, Discard, TakeSlot, RemoveSave, Import, ImportSave, Crash,
           End, Goto
  <2>3. CASE q # p
    <3>1. pc'[p] = pc[p] /\ target'[p] = target[p]
      <4>1. CASE Discard(q)
        BY <1>1, <2>3, <4>1 DEF Discard, Goto, TypeOK
      <4>2. CASE ~Discard(q)
        BY <1>1, <1>3, <2>3, <4>2, OthersSame DEF Same
      <4>3. QED BY <4>1, <4>2
    <3>2. lock = p /\ pc[q] \notin Inside /\ lock # NoProcess
      BY <1>1, <1>3, <2>3, <3>1, SwitcherAssumption DEF LockInv, Inside
    <3>3. ~Finish(q) /\ ~SetActive(q) /\ ~TakeSlot(q) /\ ~AddWrite(q)
      BY <3>2 DEF Finish, SetActive, TakeSlot, Remove, RemoveSave, Import,
                  ImportSave, AddWrite, Inside, Writing, Switching
    <3>4. active' = active /\ (adrift => adrift')
      <4>1. CASE Crash(q)
        BY <4>1, Zenon DEF Crash
      <4>2. CASE ~Crash(q)
        BY <1>3, <3>3, <4>2
           DEF Switch, Check, ReadTarget, ReadTargetFails, NothingToSync,
               KeepSlot, SyncBack, SyncWrite, SyncSave, Reread, Rescue, Blocked,
               Overwrite, Add, Capture, Claim, AddSave, Discard
      <4>3. QED BY <4>1, <4>2
    <3>5. QED BY <1>1, <1>3, <3>1, <3>4 DEF RemovalInv
  <2>4. QED BY <2>1, <2>2, <2>3
<1>4. QED BY <1>2, <1>3 DEF Next, RemovalInv

-----------------------------------------------------------------------------
LEMMA SwitchInit == Init => SwitchInv
<1>1. SUFFICES ASSUME Init PROVE SwitchInv
  OBVIOUS
<1>2. TypeOK
  BY <1>1, TypeInit
<1>3. LockInv /\ LiveInv /\ RemovalInv /\ ActiveInv
  BY <1>1, SwitcherAssumption
     DEF Init, LockInv, LiveInv, RemovalInv, ActiveInv, Inside, Writing, Switching
<1>4. \A a \in Accounts : Known(Login(a, 1))
  BY <1>1 DEF Init, Known, Login
<1>5. VersionInv
  BY <1>1, <1>4, FileFacts DEF Init, VersionInv, Known
<1>6. \A p \in Processes : CommandInv(p)
  BY <1>1 DEF Init, CommandInv, TargetInv, SeenInv, Inside, Writing, Switching
<1>7. QED BY <1>2, <1>3, <1>5, <1>6 DEF SwitchInv

LEMMA SwitchStep ==
  ASSUME SwitchInv, [Next]_vars
  PROVE  SwitchInv'
<1>1. CASE Next
  <2>1. TypeOK'
    BY <1>1, TypeSwitch, TypeAdd, TypeTake, TypeCodex DEF Next, SwitchInv
  <2>2. LockInv' /\ LiveInv'
    BY <1>1, LockStep, LiveStep DEF SwitchInv
  <2>3. VersionInv'
    BY <1>1, <2>1, VersionStep DEF SwitchInv
  <2>4. (\A p \in Processes : CommandInv(p))' /\ RemovalInv' /\ ActiveInv'
    BY <1>1, <2>1, CommandStep, RemovalStep, ActiveStep
  <2>5. QED BY <2>1, <2>2, <2>3, <2>4 DEF SwitchInv
<1>2. CASE UNCHANGED vars
  BY <1>2 DEF vars, disk, activity, local, SwitchInv, TypeOK, LockInv, LiveInv,
              VersionInv, Known, CommandInv, TargetInv, SeenInv,
              RemovalInv, ActiveInv, Holds, Matching, InSlot, Void, Owners,
              Registered, IsLogin
<1>3. QED BY <1>1, <1>2

(* What a command relies on, and what the registry calls active, hold      *)
(* together through all steps of commands, Codex and crashes.              *)
THEOREM SwitchInductive == Spec => []SwitchInv
<1>1. SwitchInv /\ [Next]_vars => SwitchInv'
  BY SwitchStep
<1>2. QED BY <1>1, SwitchInit, PTL DEF Spec

(* Every variable of Switcher keeps its type (Switcher!TypeOK).            *)
THEOREM SwitcherTypeCorrect == Spec => []TypeOK
<1>1. SwitchInv => TypeOK
  BY DEF SwitchInv
<1>2. QED BY <1>1, SwitchInductive, PTL

(* The slots that keep account a, as Gentle speaks of them.                *)
LEMMA KeepsIs ==
  ASSUME NEW a \in Accounts, NEW s
  PROVE  s \in Keeps(a) <=> Matching(s, a)
BY SwitcherAssumption DEF Keeps, Matching, Holds, Registered, IsLogin

(* Only remove and import take a slot from the account it keeps, and only  *)
(* the slot they work on.                                                  *)
LEMMA TakesOnly ==
  ASSUME TypeOK, NEW p \in Processes, TakeSlot(p),
         NEW s \in Slots, s \notin {target[p], target'[p]}
  PROVE  slot'[s] = slot[s] /\ ident'[s] = ident[s]
<1>1. CASE Remove(p)
  BY <1>1 DEF Remove, Registered, TypeOK
<1>2. CASE Import(p)
  BY <1>2 DEF Import, TypeOK
<1>3. CASE RemoveSave(p) \/ ImportSave(p)
  BY <1>3 DEF RemoveSave, ImportSave, TypeOK
<1>4. QED BY <1>1, <1>2, <1>3 DEF TakeSlot

LEMMA NextGentle ==
  ASSUME SwitchInv, TypeOK', [Next]_vars, \A p \in Processes : ~TakeSlot(p)
  PROVE  Gentle
<1> USE DEF disk, activity, local
<1>1. TypeOK /\ \A p \in Processes : CommandInv(p)
  BY DEF SwitchInv
<1>2. CASE UNCHANGED <<slot, ident>>
  BY <1>2 DEF Gentle, Matching, Holds, IsLogin
<1>3. ASSUME NEW s \in Slots, SlotRefresh(s)
      PROVE  Gentle
  <2>1. /\ ident' = ident
        /\ slot' = [slot EXCEPT
                       ![s] = Login(slot[s].acct, newest'[slot[s].acct])]
    BY <1>3 DEF SlotRefresh
  <2>2. /\ IsLogin(slot'[s]) /\ slot'[s].acct = slot[s].acct
        /\ \A t \in Slots : t # s => slot'[t] = slot[t]
    BY <1>1, <2>1 DEF TypeOK, IsLogin, Login
  <2>3. QED BY <1>3, <2>1, <2>2 DEF Gentle, Matching, Holds, IsLogin, SlotRefresh
<1>4. CASE Codex \/ Purge
  BY <1>2, <1>3, <1>4 DEF Codex, CodexDies, CodexBegin, CodexEnd, CodexLeaves,
                          Purge
<1>5. ASSUME NEW p \in Processes, Switch(p) \/ Add(p) \/ Crash(p)
      PROVE  Gentle
  BY <1>1, <1>5, GentleStep
<1>6. CASE UNCHANGED vars
  BY <1>2, <1>6 DEF vars
<1>7. QED BY <1>4, <1>5, <1>6 DEF Next

(* What a claim relies on when it drops the rescue copy: its account has a *)
(* slot, which no switch, add, claim, Codex or crash takes; only remove    *)
(* and import take a slot, the one they work on (unclaimed --claim).       *)
THEOREM ClaimAlwaysLeavesAccount == Spec => ClaimLeavesAccount
<1> DEFINE Added == \A p \in Processes, a \in Accounts :
              AddSave(p) /\ a = auth[p].acct => Keeps(a)' # {}
           Kept == \A a \in Accounts : \A s \in Keeps(a) :
              \/ s \in Keeps(a)'
              \/ \E p \in Processes :
                    TakeSlot(p) /\ s \in {target[p], target'[p]}
<1>1. ASSUME SwitchInv, SwitchInv', NEW p \in Processes, NEW a \in Accounts,
             AddSave(p), a = auth[p].acct
      PROVE  Keeps(a)' # {}
  <2>1. target[p] \in Slots /\ Holds(target[p], a) /\ TypeOK
    BY <1>1 DEF SwitchInv, CommandInv, TargetInv, AddSave, Writing
  <2>2. slot' = slot /\ ident'[target[p]] = a
    BY <1>1, <2>1 DEF AddSave, TypeOK
  <2>3. a # NoAccount
    BY SwitcherAssumption
  <2>4. target[p] \in Keeps(a)'
    BY <2>1, <2>2, <2>3 DEF Keeps, Registered, Holds, IsLogin
  <2>5. QED BY <2>4
<1>2. ASSUME SwitchInv, SwitchInv', [Next]_vars, NEW a \in Accounts,
             NEW s \in Keeps(a)
      PROVE  \/ s \in Keeps(a)'
             \/ \E p \in Processes :
                   TakeSlot(p) /\ s \in {target[p], target'[p]}
  <2>1. Matching(s, a) /\ s \in Slots /\ TypeOK /\ TypeOK'
    BY <1>2, KeepsIs DEF Matching, SwitchInv
  <2>2. CASE \A p \in Processes : ~TakeSlot(p)
    <3>1. Matching(s, a)'
      BY <1>2, <2>1, <2>2, NextGentle DEF Gentle
    <3>2. QED BY <3>1, SwitcherAssumption
              DEF Keeps, Matching, Holds, Registered, IsLogin
  <2>3. ASSUME NEW p \in Processes, TakeSlot(p),
               s \notin {target[p], target'[p]}
        PROVE  s \in Keeps(a)'
    <3>1. slot'[s] = slot[s] /\ ident'[s] = ident[s]
      BY <2>1, <2>3, TakesOnly
    <3>2. QED BY <1>2, <3>1 DEF Keeps, Registered
  <2>4. QED BY <2>2, <2>3
<1>3. SwitchInv /\ SwitchInv' /\ [Next]_vars => Added /\ Kept
  BY <1>1, <1>2
<1>4. QED BY <1>3, SwitchInductive, PTL DEF Spec, ClaimLeavesAccount

(* activeSlot names a slot that holds the live account, but for the steps  *)
(* and accidents that ActiveIsLive names (activate, capture_current).      *)
THEOREM ActiveAlwaysLive == Spec => []ActiveIsLive
<1>1. SwitchInv => ActiveIsLive
  <2>1. SUFFICES ASSUME SwitchInv, IsLogin(live), ~adrift,
                        \A p \in Processes : pc[p] \notin Settling
                 PROVE  active \in Registered /\ slot[active].acct = live.acct
    BY DEF ActiveIsLive, Settling, IsLogin
  <2>2. live.acct \in Accounts
    BY <2>1, LiveAccount DEF SwitchInv
  <2>3. QED BY <2>1, <2>2, SwitcherAssumption DEF SwitchInv, ActiveInv
<1>2. QED BY <1>1, SwitchInductive, PTL

-----------------------------------------------------------------------------
(* Switching to the account that is live already, when one slot has it,    *)
(* never puts an older login of it into use (sync_live_to_slot, activate). *)
THEOREM LiveNeverGoesBackAlways == Spec => LiveNeverGoesBack
<1>1. ASSUME SwitchInv, NEW p \in Processes, Overwrite(p), live = seen[p],
             live.acct = auth[p].acct, Owners(live) = {target[p]}
      PROVE  live'.ver >= live.ver
  <2>1. TypeOK /\ CommandInv(p) /\ pc[p] = "overwrite" /\ live' = auth[p]
    BY <1>1 DEF SwitchInv, Overwrite
  <2>2. IsLogin(auth[p])
    BY <2>1 DEF CommandInv, TargetInv, Inside, Writing, Switching
  <2>3. IsLogin(live)
    BY <1>1, <2>1, <2>2, FileFacts, SwitcherAssumption DEF TypeOK
  <2>4. QED BY <1>1, <2>1, <2>3 DEF CommandInv, SeenInv
<1> DEFINE Step == \A p \in Processes :
              /\ Overwrite(p) /\ live = seen[p]
              /\ live.acct = auth[p].acct /\ Owners(live) = {target[p]}
              => live'.ver >= live.ver
<1>2. SwitchInv => Step
  BY <1>1
<1>3. QED BY <1>2, SwitchInductive, PTL DEF LiveNeverGoesBack

(* A login of the newest version is the only one of its account.           *)
LEMMA NewestIs ==
  ASSUME TypeOK, NEW a \in Accounts, NEW f \in Logins, f.acct = a,
         f.ver = newest[a]
  PROVE  f = Login(a, newest[a])
BY FileFacts DEF TypeOK

(* Sync-back replaces a login of the same account that is no newer.        *)
LEMMA SyncKeepsHeld ==
  ASSUME SwitchInv, NEW p \in Processes, SyncWrite(p),
         slot[owner[p]] = stored[p], NEW a \in Accounts, Held(a)
  PROVE  Held(a)'
<1> DEFINE l == Login(a, newest[a])
           s == owner[p]
<1>1. TypeOK /\ CommandInv(p) /\ VersionInv
  BY DEF SwitchInv
<1>2. /\ IsLogin(seen[p]) /\ s \in Registered /\ s \in Slots
      /\ stored[p].acct = seen[p].acct /\ stored[p].ver <= seen[p].ver
      /\ IsLogin(slot[s])
  BY <1>1 DEF SyncWrite, CommandInv, SeenInv, Owners, Registered, IsLogin
<1>3. /\ seen[p] \in Logins /\ seen[p].acct \in Accounts
      /\ seen[p].ver \in Nat /\ slot[s].ver \in Nat
      /\ seen[p].ver <= newest[seen[p].acct] /\ newest[a] \in Nat
  BY <1>1, <1>2, FileFacts DEF TypeOK, VersionInv, Known
<1>4. /\ UNCHANGED <<live, writing, ident, stash, newest>>
      /\ \A t \in Slots : slot'[t] = IF t = s THEN seen[p] ELSE slot[t]
  BY <1>1 DEF SyncWrite, activity, TypeOK
<1>5. l \in Logins /\ l.acct = a /\ l.ver = newest[a]
  BY <1>3, FileFacts
<1>6. CASE l \in {live, writing} \cup stash
  BY <1>4, <1>6 DEF Held
<1>7. ASSUME NEW t \in Registered, slot[t] = l
      PROVE  Held(a)'
  <2>1. t \in Slots /\ t \in Registered'
    BY <1>4, <1>7 DEF Registered
  <2>2. slot'[t] = l
    <3>1. CASE t # s
      BY <1>4, <1>7, <2>1, <3>1
    <3>2. CASE t = s
      <4>1. stored[p] = l /\ seen[p].acct = a
        BY <1>2, <1>5, <1>7, <3>2
      <4>2. seen[p].ver = newest[a]
        BY <1>2, <1>3, <1>5, <4>1
      <4>3. seen[p] = l
        BY <1>1, <1>3, <4>1, <4>2, NewestIs
      <4>4. QED BY <1>4, <2>1, <3>2, <4>3
    <3>3. QED BY <3>1, <3>2
  <2>3. Login(a, newest[a])' = l
    BY <1>4 DEF Login
  <2>4. QED BY <2>1, <2>2, <2>3 DEF Held
<1>8. QED BY <1>6, <1>7 DEF Held

(* What the overwrite replaces has been saved, or is no longer good.       *)
LEMMA OverwriteKeepsHeld ==
  ASSUME SwitchInv, NEW p \in Processes, Overwrite(p), live = seen[p],
         writing = Missing
  PROVE  /\ \A a \in Accounts : Held(a) => Held(a)'
         /\ live.kind = "cut" => live \in stash
<1>1. TypeOK /\ CommandInv(p) /\ pc[p] = "overwrite"
  BY DEF SwitchInv, Overwrite
<1>2. UNCHANGED <<slot, ident, stash, newest, writing>>
  BY DEF Overwrite
<1>3. ASSUME NEW a \in Accounts, Held(a)
      PROVE  Held(a)'
  <2> DEFINE l == Login(a, newest[a])
  <2>1. l \in Logins /\ l.acct = a /\ l.ver = newest[a] /\ newest[a] \in Nat
    BY <1>1, FileFacts DEF TypeOK
  <2>2. Login(a, newest[a])' = l /\ Registered' = Registered
    BY <1>2 DEF Login, Registered
  <2>3. CASE l \in stash \/ \E s \in Registered : slot[s] = l
    BY <1>2, <2>2, <2>3 DEF Held
  <2>4. CASE l = live
    <3>1. IsLogin(seen[p]) /\ ~Void(seen[p])
      BY <2>1, <2>4, FileFacts DEF Void
    <3>2. InSlot(seen[p]) \/ seen[p] \in stash
      BY <1>1, <3>1 DEF CommandInv, SeenInv
    <3>3. QED BY <2>3, <2>4, <3>2 DEF InSlot
  <2>5. l # writing
    BY <2>1, FileFacts
  <2>6. QED BY <1>3, <2>3, <2>4, <2>5 DEF Held
<1>4. ASSUME live.kind = "cut"
      PROVE  live \in stash
  <2>1. live = Other("cut")
    BY <1>1, <1>4, FileFacts DEF TypeOK, Files, Logins, Other
  <2>2. QED BY <1>1, <2>1 DEF CommandInv, SeenInv
<1>5. QED BY <1>3, <1>4

(* A switch destroys no account's newest login and no cut-off live file,   *)
(* but in the windows the property names (sync_live_to_slot, activate,     *)
(* rescue_unregistered_live).                                              *)
THEOREM SwitchAlwaysKeepsNewest == Spec => SwitchKeepsNewest
<1> DEFINE Destroys(p) ==
              \/ SyncWrite(p) /\ slot[owner[p]] = stored[p]
              \/ Overwrite(p) /\ live = seen[p] /\ writing = Missing
           Kept == /\ \A a \in Accounts : Held(a) => Held(a)'
                   /\ live.kind = "cut" => live \in stash \cup {live'}
<1>1. ASSUME SwitchInv, NEW p \in Processes, Destroys(p)
      PROVE  Kept
  <2>1. CASE SyncWrite(p) /\ slot[owner[p]] = stored[p]
    <3>1. live' = live
      BY <2>1 DEF SyncWrite
    <3>2. QED BY <1>1, <2>1, <3>1, SyncKeepsHeld
  <2>2. CASE Overwrite(p) /\ live = seen[p] /\ writing = Missing
    BY <1>1, <2>2, OverwriteKeepsHeld
  <2>3. QED BY <1>1, <2>1, <2>2
<1>2. SwitchInv => \A p \in Processes : Destroys(p) => Kept
  BY <1>1
<1>3. QED BY <1>2, SwitchInductive, PTL DEF SwitchKeepsNewest
=============================================================================
