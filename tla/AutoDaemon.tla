----------------------------- MODULE AutoDaemon -----------------------------
(***************************************************************************)
(* The daemon loop of auto.py: run, tick and _AutoAccounts, with the part  *)
(* of state.json that is not the redemption ledger (that is module         *)
(* RedemptionLedger): cooldownUntil and the counters of failed probes.     *)
(* Policy has the rules a tick decides by.                                 *)
(*                                                                         *)
(* A tick samples the clock, loads the state, probes the active account,   *)
(* then the others, decides, acts, and saves the state.  Probing takes     *)
(* time; other daemons, the user and the accounts' usage go on meanwhile.  *)
(* The accounts stay registered, and are enabled or disabled between the   *)
(* ticks; how long a daemon sleeps is left open.                           *)
(*                                                                         *)
(* Moments are kept relative to the clock: Advance lowers them all, down   *)
(* to Never, which stands for everything earlier and for null.  A tick     *)
(* that began `age' ago works with the moment -age.                        *)
(***************************************************************************)
EXTENDS Policy

CONSTANTS
    Daemons,
    Slots,           \* the registered slots
    Keys,            \* those that hold an API key
    Levels,          \* the usage percentages there are
    CreditSets,      \* the sets of reset credits an account may have
    PolicyValues,    \* what reset.policy is set to, now and then
    StrategyValues,  \* what autoswitch.strategy is set to
    CooldownTime,    \* autoswitch.cooldownSeconds
    UnhealthyTicks,  \* autoswitch.unhealthyTicks
    MaxAge,          \* bound: how long a tick takes
    MaxSwaps         \* bound: how often two slots are swapped

ASSUME DaemonAssumption ==
    /\ Slots \subseteq Nat \ {NoSlot} /\ Keys \subseteq Slots
    /\ Levels \subseteq 0..100
    /\ CreditSets \subseteq SUBSET [available : BOOLEAN, left : Int]
    /\ PolicyValues \subseteq Policies /\ StrategyValues \subseteq Strategies
    /\ UnhealthyTicks \in 1..20
    /\ CooldownTime \in Nat /\ MaxAge \in Nat /\ MaxSwaps \in Nat

Readings == Levels \cup {Unknown}
Failed == -2   \* for a reading, when the probe fails
Never == -MaxAge
Moments == Never..CooldownTime

VARIABLES
    active,    \* accounts.json: activeSlot
    cooldown,  \* state.json: cooldownUntil
    unhealthy, \* state.json: the failures of each slot, up to UnhealthyTicks
    tick,      \* what each daemon knows and does
    pause,     \* ghost: the cooldown of the last action that was saved
    failed,    \* ghost: the ticks in a row that failed to probe the account
               \*        of each slot while it was the active one
    arrived,   \* ghost: how a daemon's switch found the active account
    swaps      \* swaps so far

state == <<cooldown, unhealthy>>
ghosts == <<pause, failed, arrived, swaps>>
vars == <<active, state, tick, ghosts>>

(* What a tick knows of each slot: Absent if it does not take part.        *)
Absent == 101
Known(enabled, r) ==
    [s \in Slots |-> IF s \in DOMAIN r THEN r[s]
                     ELSE IF s \in enabled THEN Unknown ELSE Absent]
Nobody == [slot |-> NoSlot, percent |-> Unknown]
NoReading == [binding |-> Unknown, percent |-> Unknown, credits |-> {}]
NoOthers == [s \in Slots |-> Absent]

(* A daemon that runs no tick; only its AutoState object is left of it.    *)
Resting(pc, until, counts) ==
    [pc |-> pc, cooldown |-> until, unhealthy |-> counts, age |-> 0,
     at |-> NoSlot, probe |-> "none", reading |-> NoReading,
     others |-> NoOthers, cleared |-> {}, policy |-> "never",
     strategy |-> "best", disturbed |-> FALSE, target |-> Nobody,
     acted |-> FALSE, due |-> Never]
Off(pc) == Resting(pc, Never, [s \in Slots |-> 0])

Init ==
    /\ active \in Slots \cup {NoSlot}
    /\ cooldown = Never /\ unhealthy = [s \in Slots |-> 0]
    /\ tick = [d \in Daemons |-> Off("down")]
    /\ pause = Never /\ failed = [s \in Slots |-> 0]
    /\ arrived = Nobody /\ swaps = 0

At(d, pc) == tick[d].pc = pc
Ticking(d) == tick[d].pc \notin {"down", "broken", "asleep"}
OneMore(n) == Min({n + 1, UnhealthyTicks})

(* The tick goes on without, or ends and needs no more of, what it read.   *)
Picking(t) ==
    [t EXCEPT !.pc = "picking", !.policy = "never",
              !.reading = [NoReading EXCEPT !.percent = t.reading.percent],
              !.others = IF t.target.slot \in Keys THEN @ ELSE NoOthers,
              !.strategy = IF t.target.slot \in Keys THEN @ ELSE "best",
              !.disturbed = @ /\ t.target.slot \in Keys]
Ending(t) ==
    [t EXCEPT !.pc = "ending", !.policy = "never", !.reading = NoReading,
              !.others = NoOthers, !.strategy = "best",
              !.disturbed = FALSE, !.target = Nobody]
Ends(d) == tick' = [tick EXCEPT ![d] = Ending(@)]

(* As if an action started no cooldown.                                    *)
NoPause(d) == tick[d].cooldown
(* As if the tick's duration were added to it.                             *)
Prolonged(d) == CooldownTime + tick[d].age
(* now + settings.cooldown_seconds                                         *)
CooldownUntil(d) == CooldownTime - tick[d].age
Acted(d) ==
    tick' = [tick EXCEPT ![d] = [Ending(@) EXCEPT
                !.acted = TRUE, !.cooldown = CooldownUntil(d)]]

-----------------------------------------------------------------------------
Start(d) ==
    /\ tick[d].pc \in {"down", "broken"}
    /\ tick' = [tick EXCEPT ![d] = Resting("asleep", cooldown, unhealthy)]
    /\ UNCHANGED <<active, state, ghosts>>

(* now = time.time()                                                       *)
Wake(d) ==
    /\ At(d, "asleep")
    /\ tick' = [tick EXCEPT ![d].pc = "woken", ![d].due = pause]
    /\ UNCHANGED <<active, state, ghosts>>

(* The state and the registry are loaded; the first three steps of tick.   *)
Load(d) ==
    /\ At(d, "woken")
    /\ \E enabled \in BOOLEAN :
          tick' = [tick EXCEPT
              ![d].cooldown = cooldown, ![d].unhealthy = unhealthy,
              ![d].at = active,
              ![d].pc = IF ~enabled \/ -tick[d].age < cooldown THEN "ending"
                        ELSE IF active = NoSlot THEN "considering"
                        ELSE "probing"]
    /\ UNCHANGED <<active, state, ghosts>>

(* Step 4, a failure: it counts, and too many make the account unusable.   *)
ProbeFails(d) ==
    LET s == tick[d].at
        count == OneMore(tick[d].unhealthy[s])
    IN  /\ At(d, "probing") /\ s \notin Keys
        /\ tick' = [tick EXCEPT
              ![d].unhealthy[s] = count, ![d].probe = "failed",
              ![d].pc = IF count < UnhealthyTicks THEN "ending"
                        ELSE "considering"]
        /\ UNCHANGED <<active, state, ghosts>>

(* As if a success left the count of failures alone.                       *)
KeepCount(n) == n
Healthy(n) == 0

(* Steps 4 and 5, a success; nothing is known of an API key's usage.       *)
ProbeActive(d) ==
    LET s == tick[d].at
    IN  /\ At(d, "probing")
        /\ \E binding, model \in IF s \in Keys THEN {Unknown} ELSE Readings :
           \E credits \in IF s \in Keys THEN {{}} ELSE CreditSets :
              LET percent == Worst({binding, model})
                  idle == percent # Unknown /\ percent < Threshold
              IN  tick' = [tick EXCEPT
                     ![d].unhealthy[s] = Healthy(@), ![d].probe = "ok",
                     ![d].reading =
                        IF idle THEN NoReading
                        ELSE [binding |-> binding, percent |-> percent,
                              credits |-> credits],
                     ![d].pc = IF idle THEN "ending" ELSE "considering"]
        /\ UNCHANGED <<active, state, ghosts>>

(* Step 6.  `enabled' are the other accounts that are enabled, `r' is what *)
(* is known of those that are no API keys, from the cache or from a probe, *)
(* read one after the other in the order of the slots.  Of those `probed'  *)
(* the tick has asked there and then, which clears their failures.         *)
Ordinary(d, enabled) == enabled \ (Keys \cup {tick[d].at})
Answers(r) == {[slot |-> s, percent |-> r[s]] :
                  s \in {t \in DOMAIN r : r[t] # Failed}}
Clear(counts, probed) ==
    [s \in Slots |-> IF s \in probed THEN 0 ELSE counts[s]]
Cleared(t, probed) ==
    [t EXCEPT !.unhealthy = Clear(t.unhealthy, probed), !.cleared = probed]

(* As if keys were candidates like the others.                             *)
AllKeys(keys, r) == keys
(* _AutoAccounts.probe of a key has its own look at the ordinary accounts, *)
(* and fails if it finds one eligible.                                     *)
KeysLeft(keys, r) ==
    IF \E c \in Answers(r) : Eligible(c) THEN {} ELSE keys

(* That look is at the registry as record_usage has reloaded it last, and  *)
(* at the cache as it is then; the candidates are of the registry the tick *)
(* began with and of reads of their own.  So if another process has        *)
(* written either file since the tick began, any of the keys may be left.  *)
Looks(d, keys, r) ==
    {look \in [left : SUBSET keys, disturbed : BOOLEAN] :
        ~look.disturbed =>
            active = tick[d].at /\ look.left = KeysLeft(keys, r)}

Candidates(left, r) ==
    Answers(r) \cup {[slot |-> s, percent |-> Unknown] : s \in left}

(* As if a probe that failed told of an exhausted account.                 *)
KnownHeadroom(keys, left, r) ==
    \E c \in Candidates(left, r) :
        c.percent = Unknown \/ c.percent < Threshold
Headroom(keys, left, r) ==
    \/ \E s \in DOMAIN r : r[s] = Failed
    \/ left # keys
    \/ \E c \in Candidates(left, r) :
          c.percent = Unknown \/ c.percent < Threshold

Redeems(d, policy, headroom) ==
    LET reading == tick[d].reading
    IN  /\ tick[d].probe = "ok"
        /\ ShouldRedeem(policy, reading.credits, reading.binding,
                        FALSE, headroom)
        /\ SoonestExpiring(reading.credits) # NoCredit

(* The target that step 8 would come to, with its percentage.              *)
Target(candidates, at, strategy) ==
    LET s == PickTarget(candidates, at, strategy)
    IN  IF s = NoSlot THEN Nobody ELSE CHOOSE c \in candidates : c.slot = s

Considered(t, enabled, r, strategy, probed, look) ==
    [Cleared(t, probed) EXCEPT
        !.others = Known(enabled, r), !.strategy = strategy,
        !.disturbed = look.disturbed,
        !.target = Target(Candidates(look.left, r), t.at, strategy)]

(* Steps 6 to 8, up to what they have to do.  Without a redemption is      *)
(* always possible: the cap may have been reached.                         *)
Consider(d) ==
    /\ At(d, "considering")
    /\ \E enabled \in SUBSET (Slots \ {tick[d].at}) :
       \E r \in [Ordinary(d, enabled) -> Readings \cup {Failed}],
          strategy \in StrategyValues :
       \E probed \in SUBSET {s \in DOMAIN r : r[s] # Failed} :
       \E look \in Looks(d, Keys \cap enabled, r) :
          LET t == Considered(tick[d], enabled, r, strategy, probed, look)
              headroom == Headroom(Keys \cap enabled, look.left, r)
          IN  \/ tick' = [tick EXCEPT ![d] = Picking(t)]
              \/ \E policy \in PolicyValues :
                    /\ Redeems(d, policy, headroom)
                    /\ tick' = [tick EXCEPT ![d] =
                          [t EXCEPT !.pc = "reserving", !.policy = policy]]
    /\ UNCHANGED <<active, state, ghosts>>

(* Step 6 ends the tick: a reading cannot be recorded.  What the probes    *)
(* before it have cleared stays so.                                        *)
ConsiderFails(d) ==
    /\ At(d, "considering")
    /\ \E probed \in SUBSET Ordinary(d, Slots) :
          tick' = [tick EXCEPT ![d] = Ending(Cleared(@, probed))]
    /\ UNCHANGED <<active, state, ghosts>>

(* AutoState.save, for what is not the ledger: this process's copy.        *)
Save(d) == cooldown' = tick[d].cooldown /\ unhealthy' = tick[d].unhealthy

(* Step 7.  The ledger refuses, or saves the attempt.                      *)
Refuse(d) ==
    /\ At(d, "reserving")
    /\ tick' = [tick EXCEPT ![d] = Picking(@)]
    /\ UNCHANGED <<active, state, ghosts>>

Reserve(d) ==
    /\ At(d, "reserving")
    /\ Save(d)
    /\ tick' = [tick EXCEPT ![d] = [Picking(@) EXCEPT !.pc = "redeeming"]]
    /\ UNCHANGED <<active, ghosts>>

(* The outcome is settled, which saves; only "reset" starts the cooldown.  *)
Redeem(d) ==
    /\ At(d, "redeeming")
    /\ Save(d)
    /\ \/ Acted(d)
       \/ tick' = [tick EXCEPT ![d] = Picking(@)]
    /\ UNCHANGED <<active, ghosts>>

NoTarget(d) ==
    /\ At(d, "picking") /\ tick[d].target = Nobody
    /\ Ends(d)
    /\ UNCHANGED <<active, state, ghosts>>

(* Step 9.                                                                 *)
Switch(d) ==
    /\ At(d, "picking") /\ tick[d].target # Nobody
    /\ active' = tick[d].target.slot
    /\ arrived' = tick[d].target
    /\ Acted(d)
    /\ UNCHANGED <<state, pause, failed, swaps>>

(* A CodexSwapError elsewhere in the tick: the registry cannot be written, *)
(* the answer to the redemption is lost, the switch fails.                 *)
TickFails(d) ==
    /\ tick[d].pc \in {"woken", "probing", "reserving", "redeeming",
                       "picking"}
    /\ At(d, "probing") => tick[d].at \notin Keys
    /\ At(d, "picking") => tick[d].target # Nobody
    /\ Ends(d)
    /\ UNCHANGED <<active, state, ghosts>>

(* What a tick that was saved tells of the accounts.                       *)
FailedAfter(d) ==
    [s \in Slots |->
        IF s = tick[d].at /\ tick[d].probe = "failed" THEN OneMore(failed[s])
        ELSE IF \/ s = tick[d].at /\ tick[d].probe = "ok"
                \/ s \in tick[d].cleared THEN 0
        ELSE failed[s]]

(* The `finally' of run.                                                   *)
EndTick(d) ==
    /\ At(d, "ending")
    /\ Save(d)
    /\ tick' = [tick EXCEPT ![d] =
                   Resting("asleep", tick[d].cooldown, tick[d].unhealthy)]
    /\ pause' = IF tick[d].acted THEN CooldownTime - tick[d].age ELSE pause
    /\ failed' = FailedAfter(d)
    /\ UNCHANGED <<active, arrived, swaps>>

(* state.save() gets no lock, and nothing around it catches LockBusy.      *)
SaveBusy(d) ==
    /\ At(d, "ending")
    /\ tick' = [tick EXCEPT ![d] = Off("broken")]
    /\ UNCHANGED <<active, state, ghosts>>

Crash(d) ==
    /\ tick[d].pc \notin {"down", "broken"}
    /\ tick' = [tick EXCEPT ![d] = Off("down")]
    /\ UNCHANGED <<active, state, ghosts>>

-----------------------------------------------------------------------------
(* `codexswap switch', whatever it selects by, and `add', set activeSlot.  *)
UserSwitch(s) ==
    /\ active' = s
    /\ arrived' = Nobody
    /\ UNCHANGED <<state, tick, pause, failed, swaps>>

(* `codexswap swap': what is kept by account follows it to its new slot.   *)
SwapSlots(a, b) ==
    LET New(s) == CASE s = a -> b [] s = b -> a [] OTHER -> s
    IN  /\ swaps < MaxSwaps
        /\ a < b /\ {a, b} \subseteq Slots \ Keys
        /\ active' = New(active)
        /\ failed' = [s \in Slots |-> failed[New(s)]]
        /\ arrived' = [arrived EXCEPT !.slot = New(@)]
        /\ swaps' = swaps + 1
        /\ UNCHANGED <<state, tick, pause>>

Earlier(m) == Max({m - 1, Never})

Advance ==
    /\ \A d \in Daemons : Ticking(d) => tick[d].age < MaxAge
    /\ cooldown' = Earlier(cooldown) /\ pause' = Earlier(pause)
    /\ tick' = [d \in Daemons |->
                  [tick[d] EXCEPT !.cooldown = Earlier(@), !.due = Earlier(@),
                                  !.age = IF Ticking(d) THEN @ + 1 ELSE @]]
    /\ UNCHANGED <<active, unhealthy, failed, arrived, swaps>>

Tick(d) ==
    \/ Start(d) \/ Wake(d) \/ Load(d) \/ ProbeFails(d) \/ ProbeActive(d)
    \/ Consider(d) \/ ConsiderFails(d) \/ Refuse(d) \/ Reserve(d) \/ Redeem(d)
    \/ NoTarget(d) \/ Switch(d) \/ TickFails(d)
    \/ EndTick(d) \/ SaveBusy(d) \/ Crash(d)

Next ==
    \/ \E d \in Daemons : Tick(d)
    \/ \E s \in Slots : UserSwitch(s)
    \/ \E a, b \in Slots : SwapSlots(a, b)
    \/ Advance

Spec == Init /\ [][Next]_vars

-----------------------------------------------------------------------------
(* Properties.                                                             *)

(* Every variable has its type.                                            *)
TypeOK ==
    /\ active \in Slots \cup {NoSlot}
    /\ {cooldown, pause} \subseteq Moments
    /\ unhealthy \in [Slots -> 0..UnhealthyTicks]
    /\ failed \in [Slots -> 0..UnhealthyTicks]
    /\ DOMAIN tick = Daemons
    /\ \A d \in Daemons :
          LET t == tick[d]
          IN  /\ {t.cooldown, t.due} \subseteq Moments /\ t.age \in 0..MaxAge
              /\ t.unhealthy \in [Slots -> 0..UnhealthyTicks]
              /\ t.at \in Slots \cup {NoSlot}
              /\ t.probe \in {"none", "ok", "failed"}
              /\ t.others \in [Slots -> Readings \cup {Failed, Absent}]
              /\ t.cleared \subseteq Slots /\ t.strategy \in Strategies
              /\ t.disturbed \in BOOLEAN
              /\ t.target \in [slot : Slots \cup {NoSlot}, percent : Readings]
    /\ arrived \in [slot : Slots \cup {NoSlot}, percent : Readings]
    /\ swaps \in 0..MaxSwaps

(* README: "After either a switch or a redemption, the default 300-second  *)
(* cooldown pauses decisions": no tick that begins after an action was     *)
(* saved, and within its cooldown, gets as far as probing.                 *)
CooldownPauses ==
    \A d \in Daemons :
        tick[d].pc \in {"probing", "considering", "reserving", "redeeming",
                        "picking"}
        => tick[d].due <= -tick[d].age

(* README: "the daemon waits for 3 consecutive failed ticks before         *)
(* treating it as unusable", also over crashes and other accounts' turns,  *)
(* as long as the slots keep their accounts.                               *)
FailuresAreConsecutive ==
    \A d \in Daemons :
        swaps = 0 /\ tick[d].probe = "failed"
                  /\ tick[d].pc \in {"considering", "picking"}
        => failed[tick[d].at] + 1 >= UnhealthyTicks

(* CONTRACT: hysteresis "prevents ping-ponging between two accounts that   *)
(* both hover at the threshold": the daemon leaves an account it has       *)
(* chosen only after that account's usage rose by the hysteresis.          *)
HysteresisHolds ==
    \A d \in Daemons :
        LET t == tick[d]
        IN  /\ t.pc = "picking" /\ t.target # Nobody /\ t.probe = "ok"
            /\ t.at # NoSlot /\ t.at = arrived.slot
            /\ Unknown \notin {t.reading.percent, arrived.percent}
            => t.reading.percent >= arrived.percent + Hysteresis

(* CONTRACT 6: a credit is spent only on an account whose own reading says *)
(* that it is worth it and that the credit is still good; under            *)
(* "exhausted" only if every other account, API keys included, is known to *)
(* have no headroom; under "expiring" only if it would soon be lost.       *)
NoSpendOnAGuess ==
    \A d \in Daemons :
        LET t == tick[d]
            good == {k \in t.reading.credits : k.available /\ k.left > 0}
        IN  t.pc = "reserving" =>
            /\ t.probe = "ok" /\ good # {}
            /\ t.reading.binding \in MinUsage..100
            /\ t.policy \in {"expiring", "exhausted", "always"}
            /\ t.policy = "exhausted" => \A s \in Slots \ {t.at} :
                                            t.others[s] >= Threshold
            /\ t.policy = "expiring" => \E k \in good : k.left <= ExpiryDays

(* README: "API-key accounts are considered only after all ordinary        *)
(* candidates are ineligible, under both strategies."  A daemon takes a    *)
(* key beside an ordinary account that it knows to be eligible only if     *)
(* another process has written the registry or the cache since its tick    *)
(* began; and under `best' only if the account's usage is unknown.         *)
KeysComeLast ==
    \A d \in Daemons :
        LET t == tick[d]
        IN  t.pc = "picking" /\ t.target.slot \in Keys =>
            \A s \in Slots \ (Keys \cup {t.at}) :
                t.others[s] # Failed
                /\ Eligible([slot |-> s, percent |-> t.others[s]]) =>
                    /\ t.disturbed
                    /\ t.strategy = "best" => t.others[s] = Unknown

(* CONTRACT: "the daemon's contract is to keep running, not to fail" after *)
(* an expected error, of which LockBusy is one.                            *)
KeepsRunning == \A d \in Daemons : tick[d].pc # "broken"
=============================================================================
