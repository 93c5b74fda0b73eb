------------------------------ MODULE Readings ------------------------------
(***************************************************************************)
(* Usage readings: how cli.py takes them, shows them, keeps them and       *)
(* decides on them.  A command loads the registry, looks for a kept        *)
(* reading, probes the slot's home without the lock, records what it got,  *)
(* and shows it or, `reset use', spends a reset credit on it and forgets   *)
(* the readings that the reset made wrong.                                 *)
(*                                                                         *)
(* A reading is kept twice: in usage-cache.json and, as lastSeenUsage, in  *)
(* accounts.json, both under the slot number the command loaded.  While it *)
(* works, slots are renumbered, accounts added, removed and logged in, and *)
(* other commands probe and redeem.  The lock is held by the registry      *)
(* operation in `job', or by a command that is writing.                    *)
(***************************************************************************)
EXTENDS Integers

CONSTANTS
    Commands,
    Accounts,
    Anonymous,  \* those whose login carries no account id
    Names,      \* what the server may call each account in a reading
    Slots,      \* bound: the slots that are used
    Enrolled,   \* the registries a behaviour may begin with
    MaxCredits, \* the reset credits each account starts with
    MaxChanges, \* bound: registry operations and logins into a home
    NoAccount

ASSUME ReadingsAssumption ==
    /\ Anonymous \subseteq Accounts
    /\ NoAccount \notin Accounts
    /\ Names \in [Accounts -> SUBSET (Accounts \cup {NoAccount})]
    /\ \A a \in Accounts : Names[a] \subseteq {a, NoAccount}
    /\ Enrolled \subseteq [Slots -> Accounts \cup {NoAccount}]
    /\ MaxCredits \in Nat /\ MaxChanges \in Nat

Someone == Accounts \cup {NoAccount}

(* What the server said of account `of', naming it or not, when it had     *)
(* spent so many credits; the next one is the one it offers.  How old a    *)
(* reading may be to pass for fresh is left open: any kept one may, or not.*)
Readings == [of : Someone, names : Someone, spent : 0..MaxCredits]
NoReading == [of |-> NoAccount, names |-> NoAccount, spent |-> 0]

VARIABLES
    home,    \* the account whose login each slot's home holds
    ident,   \* accounts.json: the account of each slot
    seen,    \* accounts.json: its lastSeenUsage
    cache,   \* usage-cache.json
    job,     \* the registry operation that holds the lock
    spent,   \* the server: credits each account has spent
    pc,      \* where each command is
    slot,    \* the slot it works on
    acct,    \*   whose it was when it loaded the registry
    reading, \* the reading it goes by
    whose,   \* ghost: whose login redeem found in the home, then whose
             \*   credit it spent
    late,    \* ghost: accounts whose reset a reading may have missed
    changes

disk == <<home, ident, seen, cache>>
local == <<slot, acct, reading, whose>>
vars == <<disk, job, spent, pc, local, late, changes>>

PcSet == {"idle", "probing", "probed", "fetched", "recording", "show",
          "decide", "checked", "forget", "forgetting"}

NoJob == [op |-> "none", stage |-> "none", from |-> 0, to |-> 0,
          acct |-> NoAccount]
Jobs == [op : {"none", "swap", "move", "remove", "add"},
         stage : {"none", "cache", "save"},
         from : Slots \cup {0}, to : Slots \cup {0}, acct : Someone]

Registered == {s \in Slots : ident[s] # NoAccount}
Vacant == Slots \ Registered
Writing == {c \in Commands : pc[c] \in {"recording", "forgetting"}}
LockFree == job = NoJob /\ Writing = {}

Init ==
    /\ ident \in Enrolled
    /\ home = ident
    /\ seen = [s \in Slots |-> NoReading]
    /\ cache = [s \in Slots |-> NoReading]
    /\ job = NoJob
    /\ spent = [a \in Accounts |-> 0]
    /\ pc = [c \in Commands |-> "idle"]
    /\ slot = [c \in Commands |-> 0]
    /\ acct = [c \in Commands |-> NoAccount]
    /\ reading = [c \in Commands |-> NoReading]
    /\ whose = [c \in Commands |-> NoAccount]
    /\ late = {}
    /\ changes = 0

-----------------------------------------------------------------------------
Goto(c, l) == pc' = [pc EXCEPT ![c] = l]
Take(c, r) == reading' = [reading EXCEPT ![c] = r]

(* The command is over, by return or by exception; its locals are dead.    *)
End(c) ==
    /\ Goto(c, "idle")
    /\ slot' = [slot EXCEPT ![c] = 0]
    /\ acct' = [acct EXCEPT ![c] = NoAccount]
    /\ reading' = [reading EXCEPT ![c] = NoReading]
    /\ whose' = [whose EXCEPT ![c] = NoAccount]

(* The account id a login carries.                                         *)
Id(a) == IF a \in Anonymous THEN NoAccount ELSE a

(* As if a reading were taken for what its slot says.                      *)
Whatever(r, a) == TRUE
(* UsageSnapshot.describes: unknown on either side matches.                *)
Describes(r, a) == r.names = NoAccount \/ Id(a) = NoAccount \/ r.names = a

(* _cached: the cache, or else what the registry had seen last.            *)
Usable(r, a) == r # NoReading /\ Describes(r, a)
Cached(s) ==
    IF Usable(cache[s], ident[s]) THEN cache[s]
    ELSE IF Usable(seen[s], ident[s]) THEN seen[s] ELSE NoReading

(* The registry is loaded, without the lock, the account looked up and the *)
(* cache read.  What a registry operation does between the two reads shows *)
(* as well in the states between its own writes.                           *)
Load(c, l) ==
    /\ pc[c] = "idle"
    /\ \E s \in Registered :
          /\ slot' = [slot EXCEPT ![c] = s]
          /\ acct' = [acct EXCEPT ![c] = ident[s]]
          /\ Take(c, Cached(s))
    /\ Goto(c, l)
    /\ UNCHANGED <<disk, job, spent, whose, late, changes>>

(* --no-probe, or a reading that is fresh enough: no probe ...             *)
UseKept(c) == Load(c, "show")
(* ... or none that is, or a command that insists on a probe; what is kept *)
(* is then what a failed probe falls back to.                              *)
Probe(c) == Load(c, "probing")

(* As if the credit spent last were still on offer.                        *)
AnswersBehind(c) ==
    {[of |-> a, names |-> a, spent |-> spent[a] - 1] :
        a \in {home[slot[c]]} \cap Accounts}
(* from_api: what the server says of the login in the home.                *)
Answers(c) ==
    {[of |-> home[slot[c]], names |-> n, spent |-> spent[home[slot[c]]]] :
        n \in IF home[slot[c]] = NoAccount THEN {} ELSE Names[home[slot[c]]]}

(* The app-server answers for the slot's home ...                          *)
ProbeAnswers(c) ==
    /\ pc[c] = "probing"
    /\ \E r \in Answers(c) : Describes(r, acct[c]) /\ Take(c, r)
    /\ Goto(c, "probed")
    /\ UNCHANGED <<disk, job, spent, slot, acct, whose, late, changes>>

(* ... or turns out to hold another account: no reading of it is shown,    *)
(* and `reset use' refuses.                                                *)
ProbeMismatched(c) ==
    /\ pc[c] = "probing"
    /\ \E r \in Answers(c) : ~Describes(r, acct[c])
    /\ Take(c, NoReading)
    /\ Goto(c, "show")
    /\ UNCHANGED <<disk, job, spent, slot, acct, whose, late, changes>>

(* A probe may fail for any reason; what was kept is shown as stale.       *)
ProbeFails(c) ==
    /\ pc[c] = "probing"
    /\ Goto(c, "decide")
    /\ UNCHANGED <<disk, job, spent, local, late, changes>>

(* _backend_fallback, if that is allowed: after a probe that failed, or    *)
(* whose reading could not be recorded.  After a mismatch the kept reading *)
(* stays.                                                                  *)
Unrecordable(c) == ident[slot[c]] = NoAccount \/ ~LockFree
AsksBackend(c) ==
    \/ pc[c] = "probing"
    \/ pc[c] = "probed" /\ Unrecordable(c)

BackendAnswers(c) ==
    /\ AsksBackend(c)
    /\ \E r \in Answers(c) : Describes(r, acct[c]) /\ Take(c, r)
    /\ Goto(c, "fetched")
    /\ UNCHANGED <<disk, job, spent, slot, acct, whose, late, changes>>

BackendMismatched(c) ==
    /\ AsksBackend(c)
    /\ \E r \in Answers(c) : ~Describes(r, acct[c])
    /\ Goto(c, "show")
    /\ UNCHANGED <<disk, job, spent, local, late, changes>>

(* The reading is of a moment before the account's last reset.             *)
Outdated(r) == r # NoReading /\ r.spent < spent[r.of]

(* record_usage: lock, reload, the cache ...                               *)
RecordCache(c) ==
    /\ pc[c] \in {"probed", "fetched"} /\ LockFree
    /\ ident[slot[c]] # NoAccount
    /\ cache' = [cache EXCEPT ![slot[c]] = reading[c]]
    /\ late' = IF Outdated(reading[c]) THEN late \cup {reading[c].of} ELSE late
    /\ Goto(c, "recording")
    /\ UNCHANGED <<home, ident, seen, job, spent, local, changes>>

(* ... and the registry.                                                   *)
RecordSave(c) ==
    /\ pc[c] = "recording"
    /\ seen' = [seen EXCEPT ![slot[c]] = reading[c]]
    /\ Goto(c, "decide")
    /\ UNCHANGED <<home, ident, cache, job, spent, local, late, changes>>

(* The slot is gone, or the lock is busy: the reading is used all the same.*)
RecordFails(c) ==
    /\ pc[c] \in {"probed", "fetched"} /\ Unrecordable(c)
    /\ Goto(c, "decide")
    /\ UNCHANGED <<disk, job, spent, local, late, changes>>

(* The reading, or none, is printed or used to choose an account; or       *)
(* `reset use' was told of a mismatch, has no credit to spend, is a dry    *)
(* run, is not confirmed, or fails the check below.                        *)
Show(c) ==
    /\ pc[c] \in {"show", "decide"}
    /\ End(c)
    /\ UNCHANGED <<disk, job, spent, late, changes>>

-----------------------------------------------------------------------------
(* reset use.                                                              *)

(* As if the account were not checked one last time.                       *)
Whoever(c) == TRUE
(* redeem: if the reading named an account, the home's login must.         *)
StillTheirs(c) ==
    reading[c].names # NoAccount => Id(home[slot[c]]) = reading[c].names

Check(c) ==
    /\ pc[c] = "decide"
    /\ reading[c] # NoReading /\ reading[c].spent < MaxCredits
    /\ StillTheirs(c)
    /\ whose' = [whose EXCEPT ![c] = home[slot[c]]]
    /\ Goto(c, "checked")
    /\ UNCHANGED <<disk, job, spent, slot, acct, reading, late, changes>>

(* The server spends the credit of whoever is logged in there, unless it   *)
(* is that account's and spent already.  The answer may be lost.           *)
Redeem(c) ==
    /\ pc[c] = "checked"
    /\ LET a == home[slot[c]]
       IN  /\ a # NoAccount /\ spent[a] < MaxCredits
           /\ reading[c].of = a => reading[c].spent = spent[a]
           /\ spent' = [spent EXCEPT ![a] = @ + 1]
           /\ \/ /\ Goto(c, "forget")
                 /\ whose' = [whose EXCEPT ![c] = a]
                 /\ Take(c, NoReading)
                 /\ UNCHANGED <<slot, acct, late>>
              \/ End(c) /\ late' = late \cup {a}
    /\ UNCHANGED <<disk, job, changes>>

RedeemFails(c) ==
    /\ pc[c] = "checked"
    /\ End(c)
    /\ UNCHANGED <<disk, job, spent, late, changes>>

(* forget_usage: lock, reload, the cache ...  A reading of the account     *)
(* that has been renumbered away, or is kept for another slot, stays.      *)
Elsewhere(c) ==
    \E s \in Slots \ {slot[c]} : whose[c] \in {cache[s].of, seen[s].of}

ForgetCache(c) ==
    /\ pc[c] = "forget" /\ LockFree
    /\ cache' = [cache EXCEPT ![slot[c]] = NoReading]
    /\ late' = IF Elsewhere(c) THEN late \cup {whose[c]} ELSE late
    /\ Goto(c, "forgetting")
    /\ UNCHANGED <<home, ident, seen, job, spent, local, changes>>

(* As if the cache were the only place.                                    *)
SeenStays(c) == seen' = seen
SeenGoes(c) == seen' = [seen EXCEPT ![slot[c]] = NoReading]

(* ... and the registry.                                                   *)
ForgetSave(c) ==
    /\ pc[c] = "forgetting"
    /\ SeenGoes(c)
    /\ End(c)
    /\ UNCHANGED <<home, ident, cache, job, spent, late, changes>>

(* The lock stays busy, or the process dies.                               *)
Forgets(c) == pc[c] \in {"forget", "forgetting"}
Unforgotten(c) ==
    late' = IF Forgets(c) THEN late \cup {whose[c]} ELSE late

ForgetBusy(c) ==
    /\ pc[c] = "forget" /\ ~LockFree
    /\ End(c) /\ Unforgotten(c)
    /\ UNCHANGED <<disk, job, spent, changes>>

Crash(c) ==
    /\ pc[c] # "idle"
    /\ End(c) /\ Unforgotten(c)
    /\ UNCHANGED <<disk, job, spent, changes>>

Command(c) ==
    \/ UseKept(c) \/ Probe(c)
    \/ ProbeAnswers(c) \/ ProbeMismatched(c) \/ ProbeFails(c)
    \/ BackendAnswers(c) \/ BackendMismatched(c)
    \/ RecordCache(c) \/ RecordSave(c) \/ RecordFails(c) \/ Show(c)
    \/ Check(c) \/ Redeem(c) \/ RedeemFails(c)
    \/ ForgetCache(c) \/ ForgetSave(c) \/ ForgetBusy(c)
    \/ Crash(c)

-----------------------------------------------------------------------------
(* The registry (module Registry), as far as it moves readings.            *)

Change == changes < MaxChanges /\ changes' = changes + 1

(* What f has of the slots after the operation; `none' is an empty place.  *)
Renumbered(f, j, none) ==
    [s \in Slots |->
        IF s = j.to /\ j.op # "remove" THEN f[j.from]
        ELSE IF s = j.from THEN IF j.op = "swap" THEN f[j.to] ELSE none
        ELSE f[s]]

Begin(j) ==
    /\ LockFree /\ Change
    /\ job' = j
    /\ home' = Renumbered(home, j, NoAccount)
    /\ UNCHANGED <<ident, seen, cache, spent, pc, local, late>>

Work(o, s, t) == [op |-> o, stage |-> "cache", from |-> s, to |-> t,
                  acct |-> NoAccount]
Swap(s, t) == s # t /\ {s, t} \subseteq Registered /\ Begin(Work("swap", s, t))
Move(s, t) ==
    /\ s \in Registered /\ t \in Vacant /\ home[t] = NoAccount
    /\ Begin(Work("move", s, t))
Remove(s) == s \in Registered /\ Begin(Work("remove", s, s))

(* add_from_auth: the account's own slot, or a free one.                   *)
Add(a) ==
    /\ LockFree /\ Change
    /\ \E s \in IF \E t \in Slots : ident[t] = a
                THEN {t \in Slots : ident[t] = a} ELSE Vacant :
          /\ home' = [home EXCEPT ![s] = a]
          /\ job' = [op |-> "add", stage |-> "save", from |-> s, to |-> s,
                     acct |-> a]
    /\ UNCHANGED <<ident, seen, cache, spent, pc, local, late>>

WriteCache ==
    /\ job.stage = "cache"
    /\ cache' = Renumbered(cache, job, NoReading)
    /\ job' = [job EXCEPT !.stage = "save"]
    /\ UNCHANGED <<home, ident, seen, spent, pc, local, late, changes>>

SaveRegistry ==
    /\ job.stage = "save"
    /\ IF job.op = "add"
       THEN /\ ident' = [ident EXCEPT ![job.from] = job.acct]
            /\ seen' = seen
       ELSE /\ ident' = Renumbered(ident, job, NoAccount)
            /\ seen' = Renumbered(seen, job, NoReading)
    /\ job' = NoJob
    /\ UNCHANGED <<home, cache, spent, pc, local, late, changes>>

(* The process dies, and leaves what it has done.                          *)
JobDies ==
    /\ job # NoJob
    /\ job' = NoJob
    /\ UNCHANGED <<disk, spent, pc, local, late, changes>>

(* A damaged accounts.json is put aside; the cache and the homes stay.     *)
Quarantine ==
    /\ LockFree /\ Registered # {} /\ Change
    /\ ident' = [s \in Slots |-> NoAccount]
    /\ seen' = [s \in Slots |-> NoReading]
    /\ UNCHANGED <<home, cache, job, spent, pc, local, late>>

(* Somebody logs in or out in a slot's home, or copies a file there.       *)
LogIn(s) ==
    /\ Change
    /\ \E a \in Someone : home' = [home EXCEPT ![s] = a]
    /\ UNCHANGED <<ident, seen, cache, job, spent, pc, local, late>>

World ==
    \/ \E s, t \in Slots : Swap(s, t) \/ Move(s, t)
    \/ \E s \in Slots : Remove(s) \/ LogIn(s)
    \/ \E a \in Accounts : Add(a)
    \/ WriteCache \/ SaveRegistry \/ JobDies \/ Quarantine

Next == World \/ \E c \in Commands : Command(c)

Spec == Init /\ [][Next]_vars

-----------------------------------------------------------------------------
(* Properties.                                                             *)

(* Every variable has its type.                                            *)
TypeOK ==
    /\ home \in [Slots -> Someone] /\ ident \in [Slots -> Someone]
    /\ seen \in [Slots -> Readings] /\ cache \in [Slots -> Readings]
    /\ job \in Jobs
    /\ spent \in [Accounts -> 0..MaxCredits]
    /\ pc \in [Commands -> PcSet]
    /\ slot \in [Commands -> Slots \cup {0}]
    /\ acct \in [Commands -> Someone]
    /\ reading \in [Commands -> Readings]
    /\ whose \in [Commands -> Someone]
    /\ late \subseteq Accounts
    /\ changes \in 0..MaxChanges

(* However readings and slots were shuffled since it was taken, a reading  *)
(* that names its account is shown, or decided on, for that account only   *)
(* (_cached: "Showing it would attribute one person's usage to another").  *)
ShownIsOwn ==
    \A c \in Commands :
        /\ pc[c] \in {"show", "decide"} /\ reading[c].names # NoAccount
        /\ acct[c] \notin Anonymous
        => reading[c].of = acct[c]

(* A credit comes out of the balance of the account that the reading the   *)
(* user decided on was taken of, and that the user named, unless the       *)
(* reading named nobody or the home changed after redeem had looked at it  *)
(* (redeem: "the account is checked one last time").                       *)
SpentAsDecided ==
    [][\A c \in Commands :
          /\ Redeem(c)
          /\ reading[c].names # NoAccount /\ home[slot[c]] = whose[c]
          => LET a == home[slot[c]]
             IN  a = reading[c].of /\ Id(acct[c]) \in {NoAccount, a}]_vars

(* "Every cached number for this slot is wrong, not merely stale, so the   *)
(* next read must probe again" (_reset): no reading from before a reset is *)
(* kept once the command has forgotten, except that of a probe recorded    *)
(* after the reset, one kept under another number, or after a reset the    *)
(* command did not hear of, or could not forget.                           *)
ResetIsSeen ==
    \A s \in Slots : \A r \in {cache[s], seen[s]} :
        Outdated(r) => \/ r.of \in late
                       \/ \E c \in Commands : Forgets(c) /\ whose[c] = r.of
=============================================================================
