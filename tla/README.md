# codexswap: TLA+ models, model checking and proofs

`codexswap` keeps several OpenAI Codex logins in numbered slots, makes one of
them the live `~/.codex/auth.json`, and can run a daemon (`codexswap auto`)
that switches accounts by usage and spends banked reset credits. Everything it
knows is a handful of JSON files under `~/.codexswap`. Any number of codexswap
commands and daemons, the Codex program itself, and the Codex processes that
probes start all read and write these files at the same time. There is no
server: the file lock `<home>/.lock` and atomic renames are the only
coordination. What is hard about the code is therefore not any one function
but what another process did between two of its steps. The models are built
around that.

All source paths below are relative to `src/src/codexswap/`.

## 1. Inventory

| Part | State | Operations | Talks to |
|---|---|---|---|
| Redemption ledger, `auto.py` (`AutoState`, `RedemptionJournal`) | `state.json`: redemption history, unknown-history marker, cooldown, failure counters | `load`, `save` (prune + merge), `reserve`, `settle` | every daemon through the file; the lock |
| Daemon loop, `auto.py` (`run`, `tick`) | interval, back-off, in-memory `AutoState` | probe, decide, redeem or switch, save | registry, policy, app-server client, switcher |
| File lock, `locking.py` | per-process `_locks` registry, OS lock on `.lock` | `__enter__`, `__exit__` | every writer |
| Account registry, `store.py`, `mappings.py` | `accounts.json` (slots, identity, alias, active slot), slot homes, `usage-cache.json`, `mappings.json` | add, remove, swap, move, alias, map/unmap | lock; every command |
| Usage readings, `cli.py`, `store.py`, `models.py`, `resets.py` | `usage-cache.json` and `lastSeenUsage` in `accounts.json`; what a command holds in memory | probe, record, show, `reset use`, forget | app-server client, backend client, registry, server |
| Switching, `switcher.py`, `identity.py` | live `auth.json`, slot `auth.json` files | `activate`, `sync_live_to_slot`, `rescue_unregistered_live`, `capture_current` | registry, unclaimed stash, Codex |
| Unclaimed logins, `unclaimed.py` | `unclaimed/` | `stash`, `stash_raw`, `credential`, `discard` | switcher, `codexswap unclaimed` |
| App-server client, `appserver.py` | one child process, two reader threads, a queue, request ids | `request`, `notify`, `consume_reset_credit`, `probe_usage` | Codex app-server |
| Reset policy and selection, `resets.py`, `strategy.py`, `models.py` | none | `decide`, `eligible`, `pick_target`, `rotate_next` | called by the daemon and `switch` |
| Settings, `settings.py` | `settings.json` | `load`, `set_value`, `save` | lock |
| Export / import, `transfer.py` | envelope file | `export_accounts`, `import_accounts` | registry |
| Backend client, `backend.py` | none | one HTTP request | fallback of a probe |
| CLI, doctor, render, redaction, errors | none of their own | parse, print, diagnose, `purge` | all of the above |

Hard behaviours: many processes over the same files; reads that happen before
the lock is taken and are used under it; a lock-free third party (Codex) that
rewrites the live file, not atomically; requests whose answer is lost although
the server acted; crashes between two writes of one operation; files damaged
from outside; clocks sampled once and used much later. `PROJECT.json` lists
each of these hazards at the line where it bites, with the properties that
would catch it going wrong.

What would make each part correct:

* **Ledger** - an attempt that may have cost a credit is never forgotten while
  the daily cap counts it; the cap holds over all daemons together; a settled
  outcome is never unsettled; refusing after a damaged file ends.
* **Daemon loop** - a failed probe backs off and never spends; a cooldown one
  daemon started is respected; the daemon never gives up because of one error.
* **File lock** - one thread of one process at a time; nesting is safe; nothing
  leaks; waiting ends.
* **Registry** - home, cached usage, mappings and the active mark of an account
  move together; a crash destroys no credential; a reference acts on the
  account it named.
* **Usage readings** - a number is shown for the account it was taken of, and a
  credit spent of the account the user decided on; numbers from before a reset
  do not come back.
* **Switching** - the newest login of an account is never destroyed; a void
  login is never put into use; a login nobody saved is rescued first; what the
  registry calls active is what Codex uses.
* **App-server client** - an answer belongs to its request; every request ends;
  a lost answer is not reported as "not spent".
* **Policy** - no credit is spent outside the configured conditions; selection
  is stable.

## 2. Modules

`Mutex` is what `with FileLock(...)` promises. **`FileLock`** is how
`locking.py` keeps the promise: `Enter` is `__enter__` up to its loop; one turn
of the loop is `Reenter`, `Acquire`, `WaitForThread` or `WaitForProcess`
(everything between `_locks_guard` and its release is one step); `GiveUp` is
the deadline; `Unnest` and `Exit` are the two ends of `__exit__`. A process may
die at any point, and `codexswap purge` may remove the directory with the lock
file in it. `held`/`owner`/`depth` are the process's `_locks` entry, `locked`
is what the OS knows, `handle` the file `__enter__` has open while it polls. An
instance's own `_depths` entry is 1 exactly while its block is open and is not
a variable. Only the fcntl backend is modelled.

**`RedemptionLedger`** is the redemption side of `auto.py`. One action per step
of a daemon that another daemon can come between: `Start`, `Wake` (reads the
clock), `Reload`/`ReloadFails`, `NoRedemption` (the tick ends some other way),
`Refuse`/`Grant` (`reserve()`), `Redeem`/`RedeemFails`, `Settle`/`SettleBusy`,
`EndTick` (the `finally` of the loop), and `Crash`. `Save` is `AutoState.save`
whole: prune, merge, marker. A locked section is one step: its readers see
either the file before the rename or the file after it, and every writer holds
the lock (`FileLock`). Damage from outside happens between locked sections.
The entry's key, slot and credit id never change and are all in the attempt's
name; `"reset"` stands for every outcome not in `_UNSPENT_OUTCOMES`. Ghosts:
`truth` (what became of an attempt), `lastBad` (when the file was last bad).

**`Switcher`** is `activate` step by step, with `sync_live_to_slot` (whose
`SyncWrite` of the slot's file and `SyncSave` of the registry a crash can come
between), `slot_owning`, `rescue_unregistered_live`, and the stash with its
purge. Beside it run the other commands that put a login into a slot or take a
slot away: `add` and `unclaimed --claim`, which meet in `add_from_auth`
(`AddWrite`, `AddSave`) and end with `set_active` or with the discard of the
rescue copy, which a claim does without the lock; and `remove` and `import`
(`TakeSlot`), each as the write of the home and the save of the registry. An
import has one entry here and any login there has been, with or without
`--force`; `add_token` is an import of a key into a free slot. Several entries
at once, and `swap` and `move`, are in `Registry`. Codex is the environment: it renews or replaces the live login through a cut
file, logs out, dies in mid-write, and, started by a probe or by
`codexswap run`, renews a slot's login. A credential is an account and a
version; the server accepts only the newest version (`newest`). The process
check restrains nothing, since `--force` skips it and Codex may start right
after it. Every credential is taken to carry a `last_refresh` stamp.
`active` is `activeSlot`; `adrift` is a ghost: it turns true when nobody could have kept the two in step (Codex logs
another account in, a command dies between its write of a login and its entry
in the registry, the captured login was replaced before `activeSlot` was set,
the active slot is removed, or a login goes into an active slot whose file was
somebody else's) and false when a command sets `activeSlot` at a live login that is still there.
`Leavings` are the files Codex may leave in place of a login.

**`Readings`** follows a usage reading from the probe to the screen, or to the
spent credit. `Load` is the registry read without the lock; `ProbeAnswers`,
`ProbeMismatched`, `ProbeFails` and the same of the backend are the outcomes
of `_probe_all` and `_backend_fallback`; `RecordCache` and `RecordSave` are the
two files `record_usage` writes, `ForgetCache` and `ForgetSave` those of
`forget_usage`; `Check` and `Redeem` are `resets.redeem`, whose answer may be
lost. Beside them slots are swapped, moved, removed and added (`job`, with the
two files such an operation writes), the registry is quarantined, and somebody
logs in or out in a slot's home. A reading keeps of its numbers only whose they
are (`of`), what the server called the account (`names`) and how many credits
it had spent (`spent`), which is what tells a reading from before a reset from
one after it. `late` is the ghost that names the windows in which a reading
from before a reset survives.

**`Registry`** is `store.py` with `mappings.py` and the import of
`transfer.py`. A command resolves its reference to a slot number before it
takes the lock (`Resolve`); the operation then works on whatever has that
number. An operation holds the lock from `Begin*` to its save of
`accounts.json`, so there is one at a time (`job`), but each rename and each
file it writes is a step of its own: a rename may fail (`RenameFails`, with the
rollback, which may fail too), the process may die (`Crash`), and
`accounts.json` may be damaged between operations (`Quarantine`). An *entry* is
one registration, with its alias, disabled flag and last-seen usage inside it.
`AccountTable` is what an operation promises its user: accounts are numbered,
one is in use, directories belong to accounts, and an operation changes this as
a whole, or, after a fault, wrecks it. The refinement shows the table as it
was (`was`) while an operation holds the lock; `clean` turns false only when a
crash or a failed rollback left a home that is not its slot's own
(`HomesMatch`) or took a directory from the entry it belonged to
(`OwnersMatch`), or after a quarantine. A usage reading recorded under a slot number that was swapped away
meanwhile really is wrong in the file; `UsageSnapshot.describes` filters it
when it is used, which is what `Readings` is about. An import writes the logins
of all its entries, one slot after the other, before it registers any of them
(`load` has the slot of each). An entry's alias and disabled flag change by one
save and stand for nothing else here; `config.toml` and the sync of the
credential that `activate` begins with (it is in `Switcher`) are left out.

**`AppServer`** is one `AppServerClient` session: `Request` (write, or a dead
pipe), the loop of `request` line by line (`Skip`, `Answered`, `StreamEnded`,
`TimedOut`, `EmptyAndDead`), `_connection_error` with its join of the stderr
thread (`Joined`, `JoinTimesOut`), the `initialized` notification after the
first answer (`Notify`), and `__exit__` with its escalation from closed stdin
through terminate to kill. The two reader threads (`ReadLine`, `ReadEnd`,
`Listen`) run beside it, and the child (external) replies to the requests in the order they were sent, late or never,
sends messages of its own at any time, uses ids of its own, complains about the login on stderr, and dies.

**`Policy`** has the pure rules: the usage readings of `models.py`,
`strategy.eligible`, `pick_target` and `rotate_next`, `switcher.pick_target`
and `resets.decide`. **`AutoDaemon`** is `run`, `tick` and `_AutoAccounts`
with the part of `state.json` that is no ledger: the cooldown and the failure
counters. A tick is `Wake` (the clock), `Load`, `ProbeFails`/`ProbeActive`,
`Consider` (the other accounts, the reset policy, the target) or
`ConsiderFails` (a reading cannot be recorded; the counters that the probes
before it cleared stay cleared), `Refuse` or `Reserve` and `Redeem`, `NoTarget`
or `Switch`, `TickFails` (a `CodexSwapError` at any other step), and `EndTick` or `SaveBusy`, the `finally`
of `run`. Moments are kept relative to the clock (`Advance` ages them all), so
that the state space stays finite without stopping the clock. What the ledger
answers is left open here (module `RedemptionLedger`); so is which accounts are
enabled, the policy and the strategy, chosen anew at each tick since settings
are reloaded. A failure count saturates at `UnhealthyTicks`. `swap` moves what
belongs to an account but leaves the counter with the slot, as the code does.
What decides whether an API key is offered is a look of its own
(`_AutoAccounts.probe`): it reads the usage cache a second time (auto.py:466;
the candidates' read is auto.py:320), and the registry as `record_usage` has
reloaded it last, while the tick goes on with the accounts and the active slot
it began with. `Looks` gives each look one of two outcomes: it finds what the
candidates show (`KeysLeft`), or, if another process has written one of the two
files since the tick began (`disturbed`), anything. Otherwise the
probes of one tick are one step: every other read concerns one account, and no
write of the daemon comes between that another step could meet. An account that
is disabled in mid-tick counts as disabled from the next tick on.

**`Settings`** is `settings.json` with the `config` commands: `Begin` is the
load that `_dispatch` does, without a lock; `Save` applies the change and
replaces the file; `Edit` is the user's editor. What stands for a key is a
valid value, a rejected one (`Bad`) or nothing; a whole section or the file may
be unreadable. `Reads` is what the next load makes of a key, `Bad` meaning that
`resets.decide` fails closed.

`RedemptionLedgerProofs`, `FileLockProofs`, `SettingsProofs`,
`AutoDaemonProofs` (with the lemmas about `Policy`), `ReadingsProofs`,
`AppServerProofs`, `SwitcherProofs` and `RegistryProofs` hold theorems and
proofs, the `MC*` modules the sets and functions the configurations need.
Operators whose comment begins "As if" are mutations: plausible bugs in the
operator after them, kept to show that a property notices.

## 3. What the runs check

| Run | Question | Bounds |
|---|---|---|
| `ledger` | what the shared ledger promises under two daemons, crashes, lost answers, a busy lock, one damaged file | 2 daemons, 3 attempts, cap 1, day = retention = 2 ticks, bound 1, clock to 2 |
| `ledger_cap` | the daily cap as documented: **violated** | as above, no damage |
| `filelock` | mutual exclusion, nothing leaks, waiting ends, refinement of `Mutex` | 2 processes x 2 threads, nesting 2, 2 purges |
| `switcher` | a switch loses no newest login; live never goes back; only `remove` and `import` take the slot a claim relies on; `activeSlot` is the live account | 2 commands, 2 accounts, 2 slots, one renewal per account, 1 rescue copy at a time |
| `readings` | a reading is shown for its own account; a credit is spent of the account decided on; numbers from before a reset are gone | 2 commands, 2 accounts (one whose login has no id), 2 slots, 1 credit each, 1 change of the registry or a home |
| `registry` | the registry always loads; swap and move lose no credential; every operation is all or nothing (`AccountTable`) | 2 commands, 2 entries, 2 slots, 2 directories, 2 faults |
| `registry_map` | "A directory mapping is a promise": **violated** | as above, 1 directory, no fault |
| `appserver` | answers belong to requests, the end of the stream is kept, a rejected login is reported, sessions end with the child gone | 3 requests, 2 messages out of turn |
| `daemon` | cooldown, consecutive failures, hysteresis, no spending on a guess, API keys last unless another process writes during the tick | 1 daemon, 2 ordinary accounts and a key, 3 levels, cooldown 2, 2 failures, 1 swap |
| `daemon_pair` | the cooldown with a second daemon: **violated** | 2 daemons, 2 accounts |
| `settings` | a command does what it says and keeps the rest; no loss without overlap | 2 commands, 3 keys in 2 sections, 1 edit |
| `settings_lost` | "must not lose each other": **violated** | as above, no edit |

*Why the bounds are enough.* `ledger`: every interference between daemons is
pairwise (one stale copy against one file); three attempts let the cap be
exceeded by one and prune have a choice; `Bound` = 1 makes the 200-entry limit
bite at once. The clock stops at 2, so an entry is never pruned for its age in
this run; the theorems cover all values. `filelock`: two threads in one process
meet in the registry, two processes at the OS lock, and two purges make three
lock files. `switcher`: two slots suffice for every case of "which slot owns
the live login": none, the target, another, both; version 2 is the one
rotation that makes version 1 void. One rescue copy at a
time is enough for a claim and a switch, or two claims, to meet over it, and it
comes and goes as often as switches, claims and purges let it; a second one
would be of the other account, or of the same one's void version (the theorems
have any number). A missing live file is there to begin with; later on Codex
leaves an `unusable` file, which no step tells from a missing one, or an `odd`
one that cannot be decoded. In this run a view of the state leaves `active` out
while it is adrift, when no step reads it (the run has 5.2 million states).
`readings`: a mix-up takes a reading
in flight and one operation that renumbers, registers or logs in; one command
that probes and one that redeems meet in every order, and one credit is one
reset. The second account is the one whose readings cannot be told by its id.
`registry`: a swap needs two entries
in two slots; with one entry the other slot is the free one that moves, adds
and imports go to. One fault cuts an operation off at any step, and a second
one the next operation, after any number of undisturbed ones. There are two
directories because both may be mapped to one slot: a `remove` that dies between
`mappings.json` and `accounts.json`, its home still there, takes both from an
entry that stays, which no operation of the table does; with one directory the
step looks like an unmapping. (The proof of the refinement found this; the run
has 8.7 million states.)
`appserver`: three requests are a handshake, a request that times out and one
that could take its late answer. `daemon`: the levels are the threshold, the
highest eligible one and one between, which is also the redemption minimum, so
every comparison is met on both sides of its boundary; credits are one that
expires within the horizon, one that never does and one that has expired. With
one daemon and a cooldown longer than a tick, ticks begin before, within and
after it. `settings`: two keys share a section and one does not; the one edit
may leave any plausible file, damaged and missing ones included, at any moment.

*Fairness.* `EntryEnds`: a thread inside `__enter__` is scheduled
(`WF(Poll)`), and its deadline comes (`WF(GiveUp)`), which the code's
`time.monotonic() >= deadline` justifies for every finite timeout. Nothing is
assumed about holders letting go. `SessionEnds`: the caller
is scheduled, the deadline of a request and of a wait comes, and a
child that was killed dies; that it does so within the last `wait(timeout=3)`
is assumed. Nothing is assumed about the child answering, or ending by itself.
All other properties are safety properties and need no fairness.

*Deadlock* is checked in all passing runs but `appserver`, where a session that
has ended does nothing more, and `readings`, where everything comes to rest
when the only account was removed and the one change is used up.

### Findings

* `DailyCap`: `reserve()` counts with the time the *tick started*, so an
  attempt another daemon stamped in between is not seen and a shared cap of 1
  is exceeded. `OvershootBounded` is what the code does guarantee: D daemons
  never hold more than `Cap + D - 1` chargeable attempts.
* `MappingPromise`: `import --force` puts another account into a slot a
  directory is mapped to and keeps the mapping, and `map` writes down a slot
  number that a concurrent `remove` has just freed; either way the directory is
  handed to another account, against CONTRACT.md.
* `CooldownPauses` with two daemons: `AutoState.save` writes this process's
  cooldown over the stored one, so a daemon whose tick began before another's
  switch erases the cooldown that the switch started.
* `ChangesSurvive`: `Settings.save` locks only its write, not the load it is
  based on, so two overlapping `config set` commands lose one change, against
  the comment at that very line.

Seen while modelling, without a run of its own:

* A switch is blocked by a blank live file, or by one whose `id_token` does not
  decode (`Switcher!Blocked`), against "Nothing is blocked" in the repository's
  README.md:171.
* `claim` and `add` write a login into a slot without comparing stamps
  (store.py:205; `Switcher!ClaimKeepsLogin` fails).
* A claim drops the rescue copy after it has given the lock up (cli.py:559-562).
  A `remove` of the slot, or an `import --force` over it, in between leaves the
  login nowhere, against the comment there: "Drop the rescue copy only once the
  registry provably holds the credential." `ClaimLeavesAccount` says that these
  two are the only commands that can do so.
* "API-key accounts are considered only after all ordinary candidates are
  ineligible, under both strategies" (the repository's README) does not hold
  under `next-available` if another process writes during the tick. Say the
  daemon began its tick at slot 2, and while it probes slot 1 the user switches
  to slot 1: the registry is reloaded, the look for the key in slot 3 leaves
  slot 1 out as the active one, and the daemon, which still counts from slot 2,
  takes the key in slot 3 beside an eligible slot 1. A reading recorded or
  forgotten between the two reads of the cache does the same. `KeysComeLast` is
  what remains.
* `capture_current` reads the live login before it takes the lock, and sets
  `activeSlot` after; "the captured account is by definition the one Codex is
  using" (switcher.py:260) is false after a switch or a login in between.
* A `remove` that could not delete the home (`rmtree(ignore_errors=True)`) and
  dies between its two last writes leaves the account where it was, usable, but
  its directories unmapped (`Registry!OwnersMatch`).
* A reference resolved before the lock may name another account under it
  (`Registry!NamedEntryOnly` fails).
* `import` registers aliases without `_check_alias`, whose comment says that
  "every path that writes an alias checks here" (store.py:322); two accounts
  may answer to one alias after it.
* "The next read must probe again" (cli.py:507) fails after a `reset use` when a
  probe that was under way records its reading late, when the slot was
  renumbered meanwhile, when the answer was lost, and after a crash or a busy
  lock before `forget_usage`: `late` names these windows.
* `_show_accounts` replaces the account's identity by that of the login in the
  home after the readings were matched against the registry's: without a probe
  (or after a failed one), a reading of A can stand beside B's name if B has
  logged in there. `Readings` says whose reading is shown for which registered
  account, not what name is printed beside it.
* `_backend_fallback` keeps the kept reading after a mismatch, where the
  supported path drops it, and `reset use` decides on a stale kept reading when
  the probe it insists on fails.
* A failure counter stays with its slot through a swap
  (`FailuresAreConsecutive` is limited to runs without one).
* `state.save()` in the `finally` of `run()` raises `LockBusy` out of the
  daemon (`AutoDaemon!SaveBusy`; the contract is `KeepsRunning`).
* The file's own history is never pruned: `save` prunes its copy and then
  merges the stored entries back in (auto.py:149).
* A `config set` on an unreadable `settings.json` turns all other keys,
  `reset.policy` included, from "fails closed" into their defaults.

## 4. What is proved

For every number of daemons, attempts, threads and processes and all values of
the other constants (from the assumptions the modules state on their constants,
and nothing else):

* `RedemptionLedgerProofs`: `TypeCorrect`; `LedgerInductive`, the inductive
  invariant `LedgerInv`; from it `SpendAlwaysOnRecord`, `RefusalAlwaysEnds`,
  `GrantsStayWithinCap`, `SettledStays`; with `LateInv` on top,
  `OvershootIsBounded`.
  `SpendOnRecord` alone is not inductive: a copy that called a spent attempt
  unspent, or two daemons that owned the same attempt, would break it in one
  step, so `LedgerInv` adds that copies are sound (`CopyInv`), owners unique
  (`OwnerInv`) and stamps never in the future (`StampInv`). The overshoot bound
  rests on counting the daemons that are *late*, i.e. whose tick started
  before some chargeable stamp: an attempt above the cap is granted only to a
  late daemon, which thereby stops being late, and the daemon that stamped
  last is never late.
* `FileLockProofs`: `LockInductive` (the registries, the OS locks and the open
  blocks tell the same story), `ExclusionAlways`, `BlocksAlwaysHeld`,
  `NothingEverLeaks`, and `LockIsMutex`: every step of `FileLock` is a step or
  a stutter of `Mutex`.

* `SettingsProofs`: `SettingsInductive` (a command that nothing came in between
  of holds what the file holds), `SettingsTypeCorrect`, `SerialHistoryAlways`,
  `CommandsTakeEffect`, `OthersAlwaysKept`. `SerialHistoryHolds` is not
  inductive: a save could write anything if what the command loaded were not
  tied to the file, which is what the invariant adds.

* `AutoDaemonProofs`, in three parts. What selection and the reset policy
  return, for any number of candidates and credits: `pick_target` an eligible
  one other than the current and none only if there is none, the order of `best`
  has a first element, and a redemption has its reason. From these lemmas
  `DaemonInductive`, and from it `DaemonTypeCorrect`, `HysteresisAlways`,
  `NoSpendAlways`, `KeysAlwaysLast` (unless another process wrote during the
  tick, and under `best` even then for every account whose usage is known).
  None of the three is inductive: that a
  target is eligible and that a tick considers a switch only at the threshold
  must be carried through the steps between the reading and the switch, and the
  eligibility of the account in use through everything that happens until the
  next one. `SelectionsAgree` is about the code's two ways to keep API keys last,
  `_AutoAccounts.probe` and `switcher.pick_target`: in a tick that nobody
  disturbed they choose the same account.
  Third, what holds if one daemon runs: `CooldownAlways`, because the stored
  cooldown, and the copy of every running tick, end no earlier than the last
  saved action asked for (with two daemons the copy may be stale, which is the
  finding of `daemon_pair`), and `FailuresAlwaysConsecutive`. Its invariant
  (`FailInv`) bounds the counters, in the file and in the tick's copy, by the
  ghost's count as it will be once the tick's own probes are booked
  (`CountAfter`): the copy runs ahead of the count from the probe to the end of
  the tick, and a crash or a busy lock then throws it away.
* `SwitcherProofs`: `SwitchInductive`, and from it `SwitcherTypeCorrect`,
  `ClaimAlwaysLeavesAccount`, `ActiveAlwaysLive`, `LiveNeverGoesBackAlways`,
  `SwitchAlwaysKeepsNewest`, for any number of commands, accounts, slots (they
  are numbered from 1, as in the code) and renewals. A command decides by files
  it has read and Codex writes beside it, so the invariant says what each stage
  may still rely on: no file has a newer version than the server knows
  (`VersionInv`); the target holds the account of the login about to be written
  (`TargetInv`), which only a lock holder could change (`LockInv`); and the
  live login that a switch has seen is, from the sync-back on, in a slot, in the
  stash, or void (`SeenInv`). The last is what
  makes the overwrite safe: Codex may rotate that login meanwhile, and then the
  old copy is void rather than lost. `ActiveInv` adds to `ActiveIsLive` the file
  that Codex is about to write, and `RemovalInv` that a slot being removed is not
  the active one unless `activeSlot` is adrift. `ClaimAlwaysLeavesAccount` rests
  on a lemma about each command: a slot that keeps its account is left to it by
  every step but `TakeSlot` of that slot (`NextGentle`), whichever commands meet.
* `RegistryProofs`: `RegistryInductive`, and from it `RegistryTypeCorrect`,
  `RegistryAlwaysLoads`, `CredentialsAlwaysSurvive` and `RegistryIsTable`, for any
  number of commands, entries, slots, directories and faults. What must hold
  whatever went wrong before (`SafeInv`) is kept apart from what holds only as
  long as nothing was cut off (`TableInv`). `JobInv` says that what an operation
  works on stays as it found it at `Begin`, and that the gap in a swap is where
  its stage says: without it a rename could go over a home. `HomesInv` ties each
  stage to the homes: from the stage `cache` on they are those of the registry
  that `SaveNumbers` is about to write (`NextIdent`), before the first rename
  those of the present one. `WasInv` ties the table shown (`was`) to the files:
  after `_remap_directories` each mapping is the renumbered one of the entry that
  had the directory. `RegistryIsTable` is the refinement: every step is one
  operation of `AccountTable` (`NumbersShow`, `AddShows`, `ImportShows`, ...), a
  step the table does not show (`HiddenSteps`), or wrecks it (`Wrecks`).
  `OnlyFaultsWreck` says that this last needs a fault: otherwise the refinement
  would promise little.

* `ReadingsProofs`: `ReadingsInductive`, and from it `ReadingsTypeCorrect`,
  `ShownIsAlwaysOwn`, `ResetIsAlwaysSeen`, `AlwaysSpentAsDecided`, for any
  number of commands, accounts, slots, credits and changes. None of the three
  is inductive. The invariant adds that every kept reading is named for the
  account it is of, or for nobody (`KeptInv`), that what a command holds
  describes the account it loaded and, once checked, the one in the home
  (`DecisionInv`), that a command between its two writes finds in the cache
  what it left there and that a copy elsewhere is in `late` (`WritingInv`), and
  that the lock has one holder (`LockInv`), so that nothing renumbers a slot
  between those writes.
* `AppServerProofs`: `SessionInductive`, and from it `SessionTypeCorrect`,
  `AnswerAlwaysOwn`, `EndAlwaysKept`, `RejectionAlwaysReported`, for any number
  of requests and messages. The invariant adds that an answer keeps the id of
  what it answers on its way through pipe and queue (`LinesInv`), that results
  are counted as requests are (`CountInv`), and that the stderr thread ends
  only after it has seen everything (`StderrInv`).

Every invariant and action property that a passing run checks, and both
refinements, are thereby also theorems. Only model-checked: liveness
(`EntryEnds`, `SessionEnds`), since tlapm has no reasoning about fairness and
ENABLED. The four properties of the runs that expect a violation do not hold of
the code.

## 5. Plan

1. The ledger and the daemon loop composed, so that what `reserve` answers is no
   longer left open in `AutoDaemon`.
2. What is left of `DailyCap`, `MappingPromise` and `ChangesSurvive` once the
   window that breaks each is excluded, as theorems (`OvershootIsBounded` and
   `SerialHistoryAlways` are of this kind already).
3. Aliases, as promises that one word names one account, and `config.toml`.

The order follows what an error would cost: a spent credit and a lost login
come first, wrong numbers in a table later.

## 6. What is not modelled

* Of `backend.py`: the HTTP request itself, its redirects and its errors; a
  probe's fallback is in `Readings`, and nothing calls `consume_reset_credit`.
* `doctor.py`, `render.py`, `redaction.py`, `errors.py`: read-only, or pure
  formatting. So are `watch`, `export` and `upgrade` of the command line.
* The search for running Codex processes (`detect_running_codex`): whatever it
  finds, `--force` and a Codex that starts right after it make it no condition
  of any step.
* Parsing of command lines and of the app-server's JSON; which values a setting
  accepts (`validate`) is abstracted to valid and rejected ones.
* Of the daemon: the log. A dry run writes nothing, `--once` is a daemon that
  ends while it sleeps, and a tick may begin at any time, so every length of
  the sleep and its backoff is covered. Of the lock: the Windows backend. Of
  the registry: aliases, the disabled flag and `config.toml`.
* Recursive operators and induction over data are avoided: sums, minima and
  maxima are those of the community modules.
