------------------------------ MODULE Switcher ------------------------------
(***************************************************************************)
(* Switching accounts: activate, sync_live_to_slot, slot_owning and        *)
(* rescue_unregistered_live of switcher.py, and the stash of unclaimed.py, *)
(* with the other commands that put a login into a slot or take a slot     *)
(* away: capture_current (`codexswap add'), `unclaimed --claim', `import'  *)
(* and `remove'.  add_token is an import of a key into a free slot.  What  *)
(* swap and move do is in Registry: they renumber slots and keep the login *)
(* of each.                                                                *)
(*                                                                         *)
(* The live auth.json belongs to Codex, which rewrites it whenever it      *)
(* likes and takes no lock; a slot's auth.json is rewritten by the Codex   *)
(* that a probe or `codexswap run' starts in the slot's home.  So every    *)
(* read and every write of these files is a step of its own.  codexswap's  *)
(* writes are atomic renames made under the lock (FileLock); Codex's write *)
(* of the live file is not atomic and passes through a cut file.           *)
(*                                                                         *)
(* A credential is an account and a version.  Refresh tokens rotate: only  *)
(* the newest version of an account can be refreshed, and refreshing makes *)
(* a newer one.  The order of versions is the order of their last_refresh  *)
(* stamps, which every credential is taken to carry.                       *)
(***************************************************************************)
EXTENDS Integers, FiniteSets

CONSTANTS
    Processes,  \* codexswap commands and daemons
    Accounts,
    Slots,      \* bound: the slots that are used
    MaxVersion, \* bound: how often an account's credential is renewed
    MaxStash,   \* bound: the rescue copies kept at a time
    Leavings,   \* what Codex may leave in place of the live login
    NoAccount, NoProcess

ASSUME SwitcherAssumption ==
    /\ Slots \subseteq Nat \ {0}
    /\ MaxVersion \in Nat /\ MaxStash \in Nat
    /\ NoAccount \notin Accounts /\ NoProcess \notin Processes
    /\ Leavings \subseteq {"missing", "unusable", "odd"}

(* What an auth.json can be: a usable login of an account, or a file that  *)
(* is missing, blank, cut off (does not parse), valid JSON without a       *)
(* credential, or a credential whose id_token cannot be decoded.           *)
Login(a, v) == [kind |-> "login", acct |-> a, ver |-> v]
Other(k) == [kind |-> k, acct |-> NoAccount, ver |-> 0]
Logins == [kind : {"login"}, acct : Accounts, ver : Nat]
OtherKinds == {"missing", "blank", "cut", "unusable", "odd"}
Files == Logins \cup {Other(k) : k \in OtherKinds}
Missing == Other("missing")

VARIABLES
    live,     \* the live auth.json
    writing,  \* the login Codex is in the middle of writing there, or Missing
    slot,     \* each slot's auth.json
    ident,    \* accounts.json: the account registered in each slot
    active,   \* accounts.json: activeSlot, 0 for none
    stash,    \* unclaimed/: the logins, and the cut files
    adrift,   \* ghost: activeSlot could not be kept in step with the live file
    newest,   \* ghost: the version the server accepts, 0 for no login yet
    lock,     \* who holds the file lock
    pc,       \* where each process is
    target,   \* the slot its command works on
    auth,     \* the credential it is about to write
    seen,     \* the live file the switch has taken care of
    stored,   \* sync_live_to_slot: what it read from the owner's slot
    owner,    \*   the slot it is about to write, 0 for none
    entry     \* the stash entry being claimed, or Missing

disk == <<live, writing, slot, ident, stash>>
activity == <<active, adrift>>
local == <<target, auth, seen, stored, owner, entry>>
vars == <<disk, activity, newest, lock, pc, local>>

PcSet == {"idle", "checked", "target", "syncing", "synced", "reread",
          "rescue", "overwrite", "saving", "adding", "registering",
          "activating", "discarding", "removing", "importing"}

TypeOK ==
    /\ live \in Files /\ writing \in Logins \cup {Missing}
    /\ slot \in [Slots -> Logins \cup {Missing}]
    /\ ident \in [Slots -> Accounts \cup {NoAccount}]
    /\ active \in Slots \cup {0} /\ adrift \in BOOLEAN
    /\ stash \subseteq Logins \cup {Other("cut")}
    /\ newest \in [Accounts -> Nat]
    /\ lock \in Processes \cup {NoProcess}
    /\ pc \in [Processes -> PcSet]
    /\ target \in [Processes -> Slots \cup {0}]
    /\ auth \in [Processes -> Logins \cup {Missing}]
    /\ seen \in [Processes -> Files]
    /\ stored \in [Processes -> Logins \cup {Missing}]
    /\ owner \in [Processes -> Slots \cup {0}]
    /\ entry \in [Processes -> Logins \cup {Missing}]

Registered == {s \in Slots : ident[s] # NoAccount}
First(S) == CHOOSE s \in S : \A t \in S : s <= t

(* Any home in which every login is of the first version: slots may be     *)
(* empty, may lack their file, may hold another account than the registry  *)
(* says (a hand-copied file, a restored backup), and one account may be in *)
(* two slots (import keeps every entry).                                   *)
Init ==
    /\ live \in {Login(a, 1) : a \in Accounts} \cup {Missing}
    /\ writing = Missing
    /\ ident \in [Slots -> Accounts \cup {NoAccount}]
    /\ slot \in [Slots -> {Login(a, 1) : a \in Accounts} \cup {Missing}]
    /\ \A s \in Slots : ident[s] = NoAccount => slot[s] = Missing
    /\ active = 0 /\ adrift = TRUE
    /\ stash = {}
    /\ newest = [a \in Accounts |-> 1]
    /\ lock = NoProcess
    /\ pc = [p \in Processes |-> "idle"]
    /\ target = [p \in Processes |-> 0]
    /\ auth = [p \in Processes |-> Missing]
    /\ seen = [p \in Processes |-> Missing]
    /\ stored = [p \in Processes |-> Missing]
    /\ owner = [p \in Processes |-> 0]
    /\ entry = [p \in Processes |-> Missing]

-----------------------------------------------------------------------------
(* As if slot_owning trusted the registry's label instead of the file.     *)
OwnersByLabel(f) == {s \in Registered : ident[s] = f.acct}

(* slot_owning: the slots whose own file holds the account of login f; the *)
(* first in order answers.                                                 *)
Owners(f) ==
    {s \in Registered : slot[s].kind = "login" /\ slot[s].acct = f.acct}

Goto(p, l) == pc' = [pc EXCEPT ![p] = l]

(* The command is over, by return or by exception: the lock is free and    *)
(* the locals are dead.                                                    *)
End(p) ==
    /\ Goto(p, "idle")
    /\ lock' = IF lock = p THEN NoProcess ELSE lock
    /\ target' = [target EXCEPT ![p] = 0]
    /\ auth' = [auth EXCEPT ![p] = Missing]
    /\ seen' = [seen EXCEPT ![p] = Missing]
    /\ stored' = [stored EXCEPT ![p] = Missing]
    /\ owner' = [owner EXCEPT ![p] = 0]
    /\ entry' = [entry EXCEPT ![p] = Missing]

-----------------------------------------------------------------------------
(* activate.                                                               *)

(* The process check passed, or --force skipped it, before the lock is     *)
(* taken.  Nothing keeps a Codex from starting right after the check, so   *)
(* it restrains Codex in no way below.                                     *)
Check(p) ==
    /\ pc[p] = "idle"
    /\ \E t \in Registered : target' = [target EXCEPT ![p] = t]
    /\ Goto(p, "checked")
    /\ UNCHANGED <<disk, activity, newest, lock,
                   auth, seen, stored, owner, entry>>

(* Lock, reload, look the slot up again, and read and validate its file.   *)
CanActivate(s) == s \in Registered /\ slot[s].kind = "login"

ReadTarget(p) ==
    /\ pc[p] = "checked" /\ lock = NoProcess
    /\ CanActivate(target[p])
    /\ lock' = p
    /\ auth' = [auth EXCEPT ![p] = slot[target[p]]]
    /\ Goto(p, "target")
    /\ UNCHANGED <<disk, activity, newest, target, seen, stored, owner, entry>>

ReadTargetFails(p) ==
    /\ pc[p] = "checked" /\ lock = NoProcess
    /\ ~CanActivate(target[p])
    /\ End(p)
    /\ UNCHANGED <<disk, activity, newest>>

(* sync_live_to_slot up to its comparison of the two last_refresh stamps.  *)
(* A live file that is missing, does not parse or holds no credential has  *)
(* nothing to sync; nor does a login no slot holds.                        *)
NothingToSync(p) ==
    /\ pc[p] = "target"
    /\ \/ live.kind \in {"missing", "blank", "cut", "unusable"}
       \/ live.kind = "login" /\ Owners(live) = {}
    /\ Goto(p, "rescue")
    /\ UNCHANGED <<disk, activity, newest, lock, local>>

(* As if the live copy always won.                                         *)
NeverNewer(s) == FALSE
SlotIsNewer(s) == slot[s].ver > live.ver

(* As if the target were not read again when it is the slot synced.        *)
NoReread(p, s) == "rescue"
AfterSync(p, s) == IF s = target[p] THEN "reread" ELSE "rescue"

(* The slot was refreshed after the live copy was written: keep it.        *)
KeepSlot(p) ==
    /\ pc[p] = "target" /\ live.kind = "login" /\ Owners(live) # {}
    /\ LET s == First(Owners(live))
       IN  /\ SlotIsNewer(s)
           /\ Goto(p, AfterSync(p, s))
    /\ seen' = [seen EXCEPT ![p] = live]
    /\ UNCHANGED <<disk, activity, newest, lock,
                   target, auth, stored, owner, entry>>

SyncBack(p) ==
    /\ pc[p] = "target" /\ live.kind = "login" /\ Owners(live) # {}
    /\ LET s == First(Owners(live))
       IN  /\ ~SlotIsNewer(s)
           /\ owner' = [owner EXCEPT ![p] = s]
           /\ stored' = [stored EXCEPT ![p] = slot[s]]
    /\ seen' = [seen EXCEPT ![p] = live]
    /\ Goto(p, "syncing")
    /\ UNCHANGED <<disk, activity, newest, lock, target, auth, entry>>

(* Its write: the slot's file ...                                          *)
SyncWrite(p) ==
    /\ pc[p] = "syncing"
    /\ slot' = [slot EXCEPT ![owner[p]] = seen[p]]
    /\ Goto(p, "synced")
    /\ stored' = [stored EXCEPT ![p] = Missing]
    /\ UNCHANGED <<live, writing, ident, stash, activity, newest, lock,
                   target, auth, seen, owner, entry>>

(* ... and the registry.                                                   *)
SyncSave(p) ==
    /\ pc[p] = "synced"
    /\ ident' = [ident EXCEPT ![owner[p]] = seen[p].acct]
    /\ Goto(p, AfterSync(p, owner[p]))
    /\ owner' = [owner EXCEPT ![p] = 0]
    /\ UNCHANGED <<live, writing, slot, stash, activity, newest, lock,
                   target, auth, seen, stored, entry>>

(* Sync-back wrote or kept the target's own slot: activate what is there.  *)
Reread(p) ==
    /\ pc[p] = "reread"
    /\ auth' = [auth EXCEPT ![p] = slot[target[p]]]
    /\ Goto(p, "rescue")
    /\ UNCHANGED <<disk, activity, newest, lock,
                   target, seen, stored, owner, entry>>

(* What rescue_unregistered_live keeps of a live file no slot holds, a file *)
(* without a credential being nothing to lose.                             *)
KeepsAll(f) == f # Missing
WorthKeeping(f) == f.kind \in {"login", "cut"}

(* stash and stash_raw: the same login arriving twice is one entry.        *)
Stashed(f) == stash \cup {f}

(* rescue_unregistered_live.                                               *)
Rescue(p) ==
    /\ pc[p] = "rescue"
    /\ live.kind \notin {"blank", "odd"}
    /\ IF live.kind = "login" /\ Owners(live) # {}
       THEN UNCHANGED <<stash, seen>>
       ELSE /\ stash' = IF WorthKeeping(live) THEN Stashed(live) ELSE stash
            /\ Cardinality(stash') <= MaxStash
            /\ seen' = [seen EXCEPT ![p] = live]
    /\ Goto(p, "overwrite")
    /\ UNCHANGED <<live, writing, slot, ident, activity, newest, lock,
                   target, auth, stored, owner, entry>>

(* A live file the switch can neither sync nor rescue: stash_raw refuses a *)
(* blank one, and slot_owning raises for an id_token it cannot decode, in  *)
(* sync_live_to_slot already.                                              *)
Blocked(p) ==
    /\ \/ pc[p] = "target" /\ live.kind = "odd"
       \/ pc[p] = "rescue" /\ live.kind \in {"blank", "odd"}
    /\ End(p)
    /\ UNCHANGED <<disk, activity, newest>>

(* The live file is replaced; a Codex in the middle of writing it goes on  *)
(* writing to a file nobody will read.                                     *)
Overwrite(p) ==
    /\ pc[p] = "overwrite"
    /\ live' = auth[p]
    /\ writing' = Missing
    /\ Goto(p, "saving")
    /\ seen' = [seen EXCEPT ![p] = Missing]
    /\ UNCHANGED <<slot, ident, stash, activity, newest, lock,
                   target, auth, stored, owner, entry>>

(* The live login is no longer that of account a, nor is it about to be.   *)
Replaced(a) == a \notin {live.acct, writing.acct}

Finish(p) ==
    /\ pc[p] = "saving"
    /\ active' = target[p]
    /\ adrift' = Replaced(auth[p].acct)
    /\ End(p)
    /\ UNCHANGED <<disk, newest>>

-----------------------------------------------------------------------------
(* capture_current and `unclaimed --claim', which meet in add_from_auth.   *)

(* The live file is read before the lock is taken.                         *)
Capture(p) ==
    /\ pc[p] = "idle" /\ live.kind = "login"
    /\ auth' = [auth EXCEPT ![p] = live]
    /\ Goto(p, "adding")
    /\ UNCHANGED <<disk, activity, newest, lock,
                   target, seen, stored, owner, entry>>

Claim(p) ==
    /\ pc[p] = "idle"
    /\ \E c \in stash \ {Other("cut")} :
          /\ entry' = [entry EXCEPT ![p] = c]
          /\ auth' = [auth EXCEPT ![p] = c]
    /\ Goto(p, "adding")
    /\ UNCHANGED <<disk, activity, newest, lock, target, seen, stored, owner>>

(* As if the slot were picked from a snapshot taken before anything was    *)
(* registered.                                                             *)
HomesUnaware(a) == Slots

(* The slots add_from_auth may pick: the first one registered for the      *)
(* account, or any free one (the next, or the one asked for).              *)
Homes(a) ==
    LET known == {s \in Slots : ident[s] = a}
    IN  IF known # {} THEN {First(known)} ELSE Slots \ Registered

(* add_from_auth: lock, reload, write the slot's file ...                  *)
AddWrite(p) ==
    /\ pc[p] = "adding" /\ lock = NoProcess
    /\ \E s \in Homes(auth[p].acct) :
          /\ slot' = [slot EXCEPT ![s] = auth[p]]
          /\ target' = [target EXCEPT ![p] = s]
    /\ adrift' = (adrift \/ (target'[p] = active
                              /\ slot[active].acct # auth[p].acct))
    /\ lock' = p
    /\ Goto(p, "registering")
    /\ UNCHANGED <<live, writing, ident, stash, active, newest,
                   auth, seen, stored, owner, entry>>

(* ... and the registry.                                                   *)
AddSave(p) ==
    /\ pc[p] = "registering"
    /\ ident' = [ident EXCEPT ![target[p]] = auth[p].acct]
    /\ IF entry[p] = Missing
       THEN lock' = lock /\ Goto(p, "activating") /\ UNCHANGED <<target, auth>>
       ELSE /\ lock' = NoProcess /\ Goto(p, "discarding")
            /\ target' = [target EXCEPT ![p] = 0]
            /\ auth' = [auth EXCEPT ![p] = Missing]
    /\ UNCHANGED <<live, writing, slot, stash, activity, newest,
                   seen, stored, owner, entry>>

(* As if a capture left activeSlot at the account before it.               *)
StaysActive(p) == active
ActiveAfter(p) == target[p]

(* capture_current: "the captured account is by definition the one Codex   *)
(* is using", which it need not be any more.                               *)
SetActive(p) ==
    /\ pc[p] = "activating"
    /\ active' = ActiveAfter(p)
    /\ adrift' = Replaced(auth[p].acct)
    /\ End(p)
    /\ UNCHANGED <<disk, newest>>

(* A rescue copy goes.  A switch that relies on it alone (a claim that is  *)
(* over by now, or the user, drops it) has then taken care of nothing.     *)
Drop(c) ==
    /\ stash' = stash \ {c}
    /\ seen' = [p \in Processes |->
                   IF pc[p] = "overwrite" /\ seen[p] = c /\ Owners(c) = {}
                   THEN Missing ELSE seen[p]]

(* discard: the rescue copy is dropped once the registry has the           *)
(* credential; if another claim dropped it first, the command fails.       *)
Discard(p) ==
    /\ pc[p] = "discarding"
    /\ Drop(entry[p])
    /\ Goto(p, "idle")
    /\ entry' = [entry EXCEPT ![p] = Missing]
    /\ UNCHANGED <<live, writing, slot, ident, activity, newest, lock,
                   target, auth, stored, owner>>

(* `unclaimed --purge': the user drops a rescue copy, without the lock.    *)
Purge ==
    /\ \E c \in stash : Drop(c)
    /\ UNCHANGED <<live, writing, slot, ident, activity, newest, lock,
                   pc, target, auth, stored, owner, entry>>

-----------------------------------------------------------------------------
(* The commands that take a slot, whoever has it: remove, import --force.  *)

(* remove: the home goes first, or stays when rmtree cannot delete it ...  *)
Remove(p) ==
    /\ pc[p] = "idle" /\ lock = NoProcess
    /\ \E s \in Registered : \E f \in {Missing, slot[s]} :
          /\ slot' = [slot EXCEPT ![s] = f]
          /\ target' = [target EXCEPT ![p] = s]
          /\ adrift' = (adrift \/ s = active)
    /\ lock' = p
    /\ Goto(p, "removing")
    /\ UNCHANGED <<live, writing, ident, stash, active, newest,
                   auth, seen, stored, owner, entry>>

(* ... and the registry last.                                              *)
RemoveSave(p) ==
    /\ pc[p] = "removing"
    /\ ident' = [ident EXCEPT ![target[p]] = NoAccount]
    /\ active' = IF active = target[p] THEN 0 ELSE active
    /\ End(p)
    /\ UNCHANGED <<live, writing, slot, stash, adrift, newest>>

(* import of an export that holds one login (bound): into its own slot if  *)
(* that is free or with --force, else into a free one.  The login is one   *)
(* of any version there has been ...                                       *)
Import(p) ==
    /\ pc[p] = "idle" /\ lock = NoProcess
    /\ \E s \in Slots, a \in Accounts : \E v \in 1..newest[a] :
          /\ slot' = [slot EXCEPT ![s] = Login(a, v)]
          /\ target' = [target EXCEPT ![p] = s]
          /\ auth' = [auth EXCEPT ![p] = Login(a, v)]
          /\ adrift' = (adrift \/ (s = active /\ slot[s].acct # a))
    /\ lock' = p
    /\ Goto(p, "importing")
    /\ UNCHANGED <<live, writing, ident, stash, active, newest,
                   seen, stored, owner, entry>>

(* ... and the slot the export calls active is, if there is no other.      *)
ImportSave(p) ==
    /\ pc[p] = "importing"
    /\ ident' = [ident EXCEPT ![target[p]] = auth[p].acct]
    /\ active' \in {active} \cup (IF active = 0 THEN {target[p]} ELSE {})
    /\ End(p)
    /\ UNCHANGED <<live, writing, slot, stash, adrift, newest>>

Crash(p) ==
    /\ pc[p] # "idle"
    /\ adrift' = (adrift \/ pc[p] \in {"saving", "activating"})
    /\ End(p)
    /\ UNCHANGED <<disk, active, newest>>

-----------------------------------------------------------------------------
(* Codex, as switcher.py's comments take it to behave.                     *)

(* A Codex that dies in the middle of its write leaves the cut file.       *)
CodexDies ==
    /\ writing # Missing
    /\ writing' = Missing
    /\ UNCHANGED <<live, slot, ident, stash, activity, newest, lock,
                   pc, local>>

(* Codex renews the live login, or logs another account in: the new login  *)
(* exists on the server, and the write of the file has begun.              *)
CodexBegin(a) ==
    /\ writing = Missing
    /\ newest[a] < MaxVersion
    /\ newest' = [newest EXCEPT ![a] = @ + 1]
    /\ writing' = Login(a, newest'[a])
    /\ \E k \in {"blank", "cut"} : live' = Other(k)
    /\ adrift' = (adrift \/ live.acct # a)
    /\ UNCHANGED <<slot, ident, stash, active, lock, pc, local>>

CodexEnd ==
    /\ writing # Missing
    /\ live' = writing
    /\ writing' = Missing
    /\ UNCHANGED <<slot, ident, stash, activity, newest, lock, pc, local>>

(* A logout removes the login or leaves a file without one; another        *)
(* release of Codex writes a login this one cannot decode.                 *)
CodexLeaves(k) ==
    /\ writing = Missing
    /\ live' = Other(k)
    /\ UNCHANGED <<writing, slot, ident, stash, activity, newest, lock,
                   pc, local>>

(* The Codex of a probe, or of `codexswap run', renews the slot's login.   *)
SlotRefresh(s) ==
    /\ slot[s].kind = "login"
    /\ LET a == slot[s].acct
       IN  /\ slot[s].ver = newest[a] /\ newest[a] < MaxVersion
           /\ newest' = [newest EXCEPT ![a] = @ + 1]
           /\ slot' = [slot EXCEPT ![s] = Login(a, newest'[a])]
    /\ UNCHANGED <<live, writing, ident, stash, activity, lock, pc, local>>

Codex ==
    \/ CodexDies \/ CodexEnd
    \/ \E a \in Accounts : CodexBegin(a)
    \/ \E k \in Leavings : CodexLeaves(k)
    \/ \E s \in Slots : SlotRefresh(s)

Switch(p) ==
    \/ Check(p) \/ ReadTarget(p) \/ ReadTargetFails(p)
    \/ NothingToSync(p) \/ KeepSlot(p) \/ SyncBack(p) \/ SyncWrite(p)
    \/ SyncSave(p) \/ Reread(p) \/ Rescue(p) \/ Blocked(p)
    \/ Overwrite(p) \/ Finish(p)

Add(p) ==
    \/ Capture(p) \/ Claim(p)
    \/ AddWrite(p) \/ AddSave(p) \/ SetActive(p) \/ Discard(p)

TakeSlot(p) ==
    \/ Remove(p) \/ RemoveSave(p) \/ Import(p) \/ ImportSave(p)

Next ==
    \/ Codex \/ Purge
    \/ \E p \in Processes : Switch(p) \/ Add(p) \/ TakeSlot(p) \/ Crash(p)

Spec == Init /\ [][Next]_vars

-----------------------------------------------------------------------------
(* Properties.                                                             *)

(* The newest login of an account is somewhere it can be got back from: in *)
(* use, in a registered slot, in the stash, or in Codex's hands.           *)
Held(a) ==
    LET l == Login(a, newest[a])
    IN  \/ l \in {live, writing} \cup stash
        \/ \E s \in Registered : slot[s] = l

(* A switch destroys no account's newest login and no cut-off live file:   *)
(* not by its sync-back, unless the slot was renewed after sync-back read  *)
(* it, and not by the overwrite, unless Codex wrote the live file after    *)
(* the switch had taken care of it (activate's "the window ... is as small *)
(* as it can be made"), or the rescue copy was dropped under it, by the    *)
(* user or by a claim whose slot has gone.                                 *)
SwitchKeepsNewest ==
    [][\A p \in Processes :
          \/ SyncWrite(p) /\ slot[owner[p]] = stored[p]
          \/ Overwrite(p) /\ live = seen[p] /\ writing = Missing
          => /\ \A a \in Accounts : Held(a) => Held(a)'
             /\ live.kind = "cut" => live \in stash \cup {live'}]_vars

(* Switching to the account that is live already, when one slot has it,    *)
(* never puts an older login of it into use (sync_live_to_slot's stamps    *)
(* and activate's second read of the target).                              *)
LiveNeverGoesBack ==
    [][\A p \in Processes :
          /\ Overwrite(p) /\ live = seen[p]
          /\ live.acct = auth[p].acct /\ Owners(live) = {target[p]}
          => live'.ver >= live.ver]_vars

(* The slots registered for account a in which a login of it is.           *)
Keeps(a) == {s \in Registered : ident[s] = a /\ slot[s].kind = "login"
                                             /\ slot[s].acct = a}

(* What a claim relies on when it drops the rescue copy after the lock was *)
(* given up (`_unclaimed'): add_from_auth has put the account into a slot  *)
(* of its own, and no slot that keeps its account is taken by a switch, an *)
(* add, another claim, Codex or a crash of any of them - only by a remove  *)
(* or an import of that very slot, against which a claim is not protected. *)
ClaimLeavesAccount ==
    [][/\ \A p \in Processes, a \in Accounts :
             AddSave(p) /\ a = auth[p].acct => Keeps(a)' # {}
       /\ \A a \in Accounts : \A s \in Keeps(a) :
             \/ s \in Keeps(a)'
             \/ \E p \in Processes :
                   TakeSlot(p) /\ s \in {target[p], target'[p]}]_vars

(* When no command is between a write and its entry in the registry,       *)
(* activeSlot names a slot that holds the live account, unless Codex has   *)
(* logged in another one, a command died in between, a capture took so     *)
(* long that its login was replaced, the active slot was removed, or an    *)
(* account was added or imported to an active slot that held somebody      *)
(* else's (capture_current: "auto and reset targeting A while B was        *)
(* live").                                                                 *)
ActiveIsLive ==
    live.kind = "login" /\ ~adrift =>
        \/ active \in Registered /\ slot[active].acct = live.acct
        \/ \E p \in Processes : pc[p] \in {"saving", "activating"}

(* _unclaimed: "Drop the rescue copy only once the registry provably holds *)
(* the credential": a newest login about to be dropped is in a slot.       *)
ClaimKeepsLogin ==
    \A p \in Processes :
        pc[p] = "discarding" /\ entry[p].ver = newest[entry[p].acct] =>
            \E s \in Registered : slot[s] = entry[p]
=============================================================================
