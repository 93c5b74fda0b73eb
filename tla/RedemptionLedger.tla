-------------------------- MODULE RedemptionLedger --------------------------
(***************************************************************************)
(* The shared ledger of reset-credit redemptions: AutoState and            *)
(* RedemptionJournal of auto.py, with the part of run() and tick() that    *)
(* drives them.                                                            *)
(*                                                                         *)
(* Several daemons share one state.json.  Each of them, on every tick,     *)
(* reads the clock, loads the file, may decide to spend a reset credit,    *)
(* reserves the spend under the file lock, sends the request, writes down  *)
(* its outcome, and saves again when the tick is over.  Loading and every  *)
(* locked section are atomic here: the file is replaced by rename and all  *)
(* of its writers hold the lock.  Between any two of those steps another   *)
(* daemon may run, the clock may move, the daemon may die, and the file    *)
(* may be damaged by something that is not codexswap.                      *)
(*                                                                         *)
(* An entry's key (attempt, at, slot, creditId) never changes once the     *)
(* entry exists, and `attempt' is a fresh uuid, so a copy of the history   *)
(* is a function from attempts to what that copy knows of each one, and    *)
(* `at' is one function shared by all the copies.                          *)
(***************************************************************************)
EXTENDS Integers, FiniteSets

CONSTANTS
    Daemons,    \* the processes that run `codexswap auto' on one home
    Attempts,   \* the uuids; a bound on how many redemptions are attempted
    Cap,        \* reset.maxPerDay; 0 means there is no cap
    Day,        \* _DAY, the length of the cap's window
    Retention,  \* 30 * _DAY, how long an in-memory entry is kept
    Bound,      \* 200, the number of entries prune() aims for
    MaxClock,   \* bound: the clock stops here
    MaxDamage,  \* bound: how often the file is damaged from outside
    NoAttempt   \* no redemption is under way

ASSUME LedgerAssumption ==
    /\ IsFiniteSet(Daemons) /\ Daemons # {}
    /\ IsFiniteSet(Attempts)
    /\ Cap \in Nat
    /\ Day \in Nat \ {0}
    /\ Retention \in Nat /\ Retention >= Day
    /\ Bound \in Nat
    /\ MaxClock \in Nat /\ MaxDamage \in Nat
    /\ NoAttempt \notin Attempts

NoTime == -1
Time == Nat \cup {NoTime}

(* As if the server's own words were stored as they come.                  *)
OutcomesAnyString == {"reset", "noCredit", "unrecognised"}
(* What redeemer() can answer: "reset" stands for every outcome that is    *)
(* not in _UNSPENT_OUTCOMES.                                               *)
Outcomes == {"reset", "noCredit"}
(* What one copy of the history says of an attempt.                        *)
Status == {"absent", "pending", "reset", "noCredit"}
History == [Attempts -> Status]
Empty == [a \in Attempts |-> "absent"]

VARIABLES
    clock,      \* time.time()
    ledger,     \* state.json: "redemptions"
    marker,     \* state.json: "historyUnknownSince"
    readable,   \* state.json parses (a missing file is an empty, readable one)
    pc,         \* where each daemon is in run() and tick()
    now,        \* the time its current tick started
    mem,        \* its AutoState.redemptions
    since,      \* its AutoState.history_unknown_since
    current,    \* the attempt its tick is making
    at,         \* the time stamp of each entry, NoTime before it exists
    truth,      \* ghost: what really became of each attempt
    lastBad,    \* ghost: the last time the file was unreadable
    damages     \* how often the file was damaged so far

shared == <<ledger, marker, readable>>
local == <<now, mem, since, current>>
ghosts == <<truth, lastBad, damages>>
vars == <<clock, shared, pc, local, at, ghosts>>

PcSet == {"off", "idle", "woken", "loaded", "reserved", "answered", "saving"}

-----------------------------------------------------------------------------
(* Operations on one copy of the history.                                  *)

(* As if the saver's copy of an entry always replaced the stored one.      *)
NewerWins(s, m) == IF m = "absent" THEN s ELSE m

(* _merge_history, for one key: the stored entry stays unless it is        *)
(* missing, or pending while the other copy knows the outcome.             *)
Later(s, m) ==
    IF s = "absent" \/ (s = "pending" /\ m \notin {"absent", "pending"})
    THEN m
    ELSE s

(* As if the saver's copy replaced the whole stored history.               *)
MergeMineOnly(stored, mine) == mine
Merge(stored, mine) == [a \in Attempts |-> Later(stored[a], mine[a])]

(* _adopt_other_processes: take over the keys this copy has not seen.      *)
Adopt(mine, stored) ==
    [a \in Attempts |-> IF mine[a] = "absent" THEN stored[a] ELSE mine[a]]

(* redeemed_last_24h: the entries counted at time t.                       *)
Counted(h, t) ==
    {a \in Attempts : /\ h[a] \in {"pending", "reset"}
                      /\ t - Day <= at[a] /\ at[a] <= t}

CapAllows(h, t) == Cap = 0 \/ Cardinality(Counted(h, t)) < Cap

(* prune, with `stamps' the time of each entry: entries past the retention *)
(* go; of the rest, the ones the cap may still count stay, and the newest  *)
(* others up to the bound.                                                 *)
Recent(h, stamps, t) ==
    {a \in Attempts : h[a] # "absent" /\ stamps[a] >= t - Retention}

Protected(h, stamps, t) ==
    {a \in Recent(h, stamps, t) : stamps[a] >= t - Day /\ h[a] # "noCredit"}

Keepable(h, stamps, t) ==
    LET recent == Recent(h, stamps, t)
        protected == Protected(h, stamps, t)
    IN  {K \in SUBSET recent :
            /\ protected \subseteq K
            /\ Cardinality(K) <= Bound \/ K = protected
            /\ Cardinality(K) >= Bound \/ K = recent
            /\ \A x \in K \ protected, y \in recent \ K : stamps[x] >= stamps[y]}

KeepOnly(h, K) == [a \in Attempts |-> IF a \in K THEN h[a] ELSE "absent"]

-----------------------------------------------------------------------------
(* Operations on the file.                                                 *)

(* The later of two stamps of an unreadable history.                       *)
NewestStamp(x, y) == IF x >= y THEN x ELSE y

(* As if the stamp were renewed for as long as there is one.               *)
RenewedStamp == IF readable /\ marker = NoTime THEN NoTime ELSE clock
(* AutoState.load: a file that does not parse is an empty history whose    *)
(* marker is the time it was found.                                        *)
StoredStamp == IF readable THEN marker ELSE clock

(* As if a marker in a file that parses meant nothing.                     *)
MarkerIgnored(t) == ~readable
(* Whether the last day's history may be missing entries.                  *)
HistoryUnknown(t) == ~readable \/ (marker # NoTime /\ t - marker < Day)

(* AutoState.save, whole: prune the copy h, merge it with what is stored,  *)
(* carry the marker over, write.                                           *)
Save(d, h, stamps) ==
    LET stamp == NewestStamp(since[d], StoredStamp)
        carried == stamp # NoTime /\ clock - stamp < Day
    IN  \E K \in Keepable(h, stamps, clock) :
          /\ mem' = [mem EXCEPT ![d] = KeepOnly(h, K)]
          /\ ledger' = Merge(ledger, KeepOnly(h, K))
          /\ marker' = IF carried THEN stamp ELSE NoTime
          /\ since' = [since EXCEPT ![d] = IF carried THEN stamp ELSE @]
          /\ readable' = TRUE

Load(d) ==
    /\ mem' = [mem EXCEPT ![d] = ledger]
    /\ since' = [since EXCEPT ![d] = StoredStamp]

-----------------------------------------------------------------------------
Init ==
    /\ clock = 0
    /\ ledger = Empty /\ marker = NoTime /\ readable = TRUE
    /\ pc = [d \in Daemons |-> "off"]
    /\ now = [d \in Daemons |-> 0]
    /\ mem = [d \in Daemons |-> Empty]
    /\ since = [d \in Daemons |-> NoTime]
    /\ current = [d \in Daemons |-> NoAttempt]
    /\ at = [a \in Attempts |-> NoTime]
    /\ truth = [a \in Attempts |-> "absent"]
    /\ lastBad = NoTime /\ damages = 0

(* run() before its loop: the first AutoState.load().                      *)
Start(d) ==
    /\ pc[d] = "off"
    /\ pc' = [pc EXCEPT ![d] = "idle"]
    /\ Load(d)
    /\ UNCHANGED <<clock, shared, now, current, at, ghosts>>

(* The top of the loop: now = time.time().                                 *)
Wake(d) ==
    /\ pc[d] = "idle"
    /\ pc' = [pc EXCEPT ![d] = "woken"]
    /\ now' = [now EXCEPT ![d] = clock]
    /\ UNCHANGED <<clock, shared, mem, since, current, at, ghosts>>

(* Settings.load, AccountStore.load, then AutoState.load().                *)
Reload(d) ==
    /\ pc[d] = "woken"
    /\ pc' = [pc EXCEPT ![d] = "loaded"]
    /\ Load(d)
    /\ UNCHANGED <<clock, shared, now, current, at, ghosts>>

(* One of the first two raised: `finally' saves the previous tick's copy.  *)
ReloadFails(d) ==
    /\ pc[d] = "woken"
    /\ pc' = [pc EXCEPT ![d] = "saving"]
    /\ UNCHANGED <<clock, shared, local, at, ghosts>>

(* The tick ends without a redemption: idle, cooldown, a failed probe, a   *)
(* switch, or a policy that says no.                                       *)
NoRedemption(d) ==
    /\ pc[d] = "loaded"
    /\ pc' = [pc EXCEPT ![d] = "saving"]
    /\ UNCHANGED <<clock, shared, local, at, ghosts>>

(* reserve(), refused: the history is unknown, or the cap is used up once  *)
(* the other daemons' entries are adopted.                                 *)
Refuse(d) ==
    /\ pc[d] = "loaded"
    /\ CapAllows(mem[d], now[d])
    /\ \/ HistoryUnknown(now[d]) /\ mem' = mem
       \/ /\ ~HistoryUnknown(now[d])
          /\ ~CapAllows(Adopt(mem[d], ledger), now[d])
          /\ mem' = [mem EXCEPT ![d] = Adopt(mem[d], ledger)]
    /\ pc' = [pc EXCEPT ![d] = "saving"]
    /\ UNCHANGED <<clock, shared, now, since, current, at, ghosts>>

(* reserve(), granted: the pending entry is stamped with the tick's start  *)
(* and is in the file before the lock is released.                         *)
Grant(d) ==
    /\ pc[d] = "loaded"
    /\ CapAllows(mem[d], now[d])
    /\ ~HistoryUnknown(now[d])
    /\ CapAllows(Adopt(mem[d], ledger), now[d])
    /\ \E a \in Attempts :
          /\ truth[a] = "absent"
          /\ at' = [at EXCEPT ![a] = now[d]]
          /\ truth' = [truth EXCEPT ![a] = "pending"]
          /\ current' = [current EXCEPT ![d] = a]
          /\ Save(d, [Adopt(mem[d], ledger) EXCEPT ![a] = "pending"], at')
    /\ pc' = [pc EXCEPT ![d] = "reserved"]
    /\ UNCHANGED <<clock, now, lastBad, damages>>

(* redeemer() returned, and tick() writes the outcome into its own entry,  *)
(* which the prune of a tick that lasted a day has already dropped.        *)
Redeem(d) ==
    /\ pc[d] = "reserved"
    /\ \E o \in Outcomes :
          /\ mem' = [mem EXCEPT ![d][current[d]] = IF @ = "absent" THEN @ ELSE o]
          /\ truth' = [truth EXCEPT ![current[d]] = o]
    /\ pc' = [pc EXCEPT ![d] = "answered"]
    /\ UNCHANGED <<clock, shared, now, since, current, at, lastBad, damages>>

(* redeemer() raised: a refused identity, a timeout, a lost answer.  The   *)
(* entry stays pending and nobody knows whether the credit was spent.      *)
RedeemFails(d) ==
    /\ pc[d] = "reserved"
    /\ pc' = [pc EXCEPT ![d] = "saving"]
    /\ current' = [current EXCEPT ![d] = NoAttempt]
    /\ UNCHANGED <<clock, shared, now, mem, since, at, ghosts>>

(* settle().                                                               *)
Settle(d) ==
    /\ pc[d] = "answered"
    /\ Save(d, mem[d], at)
    /\ pc' = [pc EXCEPT ![d] = "saving"]
    /\ current' = [current EXCEPT ![d] = NoAttempt]
    /\ UNCHANGED <<clock, now, at, ghosts>>

(* settle() could not take the lock: the outcome waits for the next save.  *)
SettleBusy(d) ==
    /\ pc[d] = "answered"
    /\ pc' = [pc EXCEPT ![d] = "saving"]
    /\ current' = [current EXCEPT ![d] = NoAttempt]
    /\ UNCHANGED <<clock, shared, now, mem, since, at, ghosts>>

(* The `finally' of the loop; `now' is dead until the next tick sets it.    *)
EndTick(d) ==
    /\ pc[d] = "saving"
    /\ Save(d, mem[d], at)
    /\ pc' = [pc EXCEPT ![d] = "idle"]
    /\ now' = [now EXCEPT ![d] = 0]
    /\ UNCHANGED <<clock, current, at, ghosts>>

(* The process ends, for whatever reason: its memory is gone.              *)
Crash(d) ==
    /\ pc[d] # "off"
    /\ pc' = [pc EXCEPT ![d] = "off"]
    /\ now' = [now EXCEPT ![d] = 0]
    /\ mem' = [mem EXCEPT ![d] = Empty]
    /\ since' = [since EXCEPT ![d] = NoTime]
    /\ current' = [current EXCEPT ![d] = NoAttempt]
    /\ UNCHANGED <<clock, shared, at, ghosts>>

(* Something outside codexswap damages the file: its history is lost.      *)
Damage ==
    /\ readable /\ damages < MaxDamage
    /\ damages' = damages + 1
    /\ readable' = FALSE
    /\ ledger' = Empty
    /\ marker' = NoTime
    /\ lastBad' = clock
    /\ UNCHANGED <<clock, pc, local, at, truth>>

Advance ==
    /\ clock < MaxClock
    /\ clock' = clock + 1
    /\ lastBad' = IF readable THEN lastBad ELSE clock'
    /\ UNCHANGED <<shared, pc, local, at, truth, damages>>

Step(d) ==
    \/ Start(d) \/ Wake(d) \/ Reload(d) \/ ReloadFails(d)
    \/ NoRedemption(d) \/ Refuse(d) \/ Grant(d)
    \/ Redeem(d) \/ RedeemFails(d)
    \/ Settle(d) \/ SettleBusy(d) \/ EndTick(d) \/ Crash(d)

Next == Damage \/ Advance \/ \E d \in Daemons : Step(d)

Spec == Init /\ [][Next]_vars

-----------------------------------------------------------------------------
(* Properties.                                                             *)

(* Every variable has its type: in particular no copy of the history ever  *)
(* holds an outcome the code does not know how to count.                   *)
TypeOK ==
    /\ clock \in Nat
    /\ ledger \in History
    /\ marker \in Time
    /\ readable \in BOOLEAN
    /\ pc \in [Daemons -> PcSet]
    /\ now \in [Daemons -> Nat]
    /\ mem \in [Daemons -> History]
    /\ since \in [Daemons -> Time]
    /\ current \in [Daemons -> Attempts \cup {NoAttempt}]
    /\ at \in [Attempts -> Time]
    /\ truth \in History
    /\ lastBad \in Time
    /\ damages \in Nat

(* The attempts that may have cost a credit and are younger than a day.    *)
Chargeable ==
    {a \in Attempts : truth[a] \in {"pending", "reset"} /\ clock - Day < at[a]}

(* Every attempt that may have cost a credit within the last day is in     *)
(* the file as one that counts, or the file says that its history is not   *)
(* to be trusted for as long as that attempt would count.  No crash, merge *)
(* of two daemons' copies, prune or damaged file gives an allowance back   *)
(* (_merge_history, AutoState.save, AutoState.prune).                      *)
SpendOnRecord ==
    \A a \in Chargeable :
        \/ ledger[a] \in {"pending", "reset"}
        \/ ~readable
        \/ marker >= at[a]

(* A reservation is granted only while fewer than Cap attempts of the last *)
(* day, of all the daemons together and stamped no later than this tick's  *)
(* start, may have cost a credit (RedemptionJournal.reserve).              *)
GrantWithinCap ==
    [][\A d \in Daemons :
          Grant(d) /\ Cap > 0 =>
              Cardinality({a \in Chargeable : at[a] <= now[d]}) < Cap]_vars

(* What the daily cap really bounds when daemons reserve with the time     *)
(* their tick started: each daemon but one may be a single attempt late.   *)
OvershootBounded ==
    Cap > 0 => Cardinality(Chargeable) <= Cap + Cardinality(Daemons) - 1

(* "cap across accounts per rolling 24 hours": the file's readers take the *)
(* cap to be on the total.                                                 *)
DailyCap == Cap > 0 => Cardinality(Chargeable) <= Cap

(* Once an outcome is in the file it stays there, whatever stale copy of   *)
(* the entry another daemon saves, until the file is damaged.              *)
SettledIsFinal ==
    [][\A a \in Attempts :
          ledger[a] \in {"reset", "noCredit"} /\ readable' =>
              ledger'[a] = ledger[a]]_vars

(* The refusal to redeem after a damaged file ends: the marker is never    *)
(* younger than the last moment the file really was unreadable, however    *)
(* many daemons go on saving it (AutoState.save's "latest of the two").    *)
RefusalEnds == marker <= lastBad

-----------------------------------------------------------------------------
(* The strengthening under which the properties above are inductive.       *)

(* Every attempt is stamped, no stamp is in the future, and an unreadable  *)
(* file holds nothing.                                                     *)
StampInv ==
    /\ \A a \in Attempts : at[a] <= clock /\ (truth[a] # "absent" => at[a] # NoTime)
    /\ \A d \in Daemons : now[d] <= clock /\ since[d] <= lastBad
    /\ lastBad <= clock
    /\ ~readable => lastBad = clock /\ ledger = Empty

(* A copy knows only attempts that were reserved, and calls a credit       *)
(* unspent only when it is.                                                *)
Sound(h) ==
    \A a \in Attempts : /\ truth[a] = "absent" => h[a] = "absent"
                        /\ h[a] = "noCredit" => truth[a] = "noCredit"

CopyInv == Sound(ledger) /\ \A d \in Daemons : Sound(mem[d])

(* A redemption under way belongs to one daemon and has no outcome yet.    *)
OwnerInv ==
    \A d \in Daemons : pc[d] = "reserved" =>
        /\ current[d] \in Attempts
        /\ truth[current[d]] = "pending"
        /\ \A e \in Daemons : pc[e] = "reserved" /\ current[e] = current[d] => e = d

(* The daemons whose tick started before some attempt of the last day was  *)
(* stamped, and which may still reserve: the cap check of each one misses  *)
(* that attempt.                                                           *)
Late ==
    {d \in Daemons : /\ pc[d] \in {"woken", "loaded"}
                     /\ \E a \in Chargeable : at[a] > now[d]}

(* Every attempt above the cap uses up one daemon that was late, and the   *)
(* daemon that stamped last is never late.                                 *)
LateInv ==
    /\ Late # Daemons
    /\ Cap > 0 /\ Cardinality(Chargeable) >= Cap =>
          Cardinality(Chargeable) + Cardinality(Late)
              <= Cap + Cardinality(Daemons) - 1

LedgerInv ==
    TypeOK /\ StampInv /\ CopyInv /\ OwnerInv /\ RefusalEnds /\ SpendOnRecord
=============================================================================
