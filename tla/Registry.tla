------------------------------ MODULE Registry ------------------------------
(***************************************************************************)
(* The account registry: AccountStore of store.py, mappings.py and the     *)
(* import of transfer.py, with the way cli.py calls them.                  *)
(*                                                                         *)
(* An operation on a slot changes up to four things on disk, one after the *)
(* other: the slots' home directories, usage-cache.json, mappings.json     *)
(* and, last, accounts.json.  It holds the file lock throughout, so `job'  *)
(* is the one operation under way; it may fail at a rename, and the        *)
(* process may die, between any two of its writes.  A command resolves its *)
(* reference to a slot number before it takes the lock.                    *)
(*                                                                         *)
(* An entry is one registration, with the alias, the disabled flag and the *)
(* last seen usage that accounts.json keeps in its record; two             *)
(* registrations of one account are two entries.                           *)
(***************************************************************************)
EXTENDS Integers

CONSTANTS
    Commands,   \* commands that work on a reference
    Entries,    \* bound: the registrations there can be
    Slots,      \* bound: the slots that are used
    Dirs,       \* directories that get mapped
    MaxFaults,  \* bound: failed renames, crashes and damaged registries
    NoOne

ASSUME RegistryAssumption ==
    /\ Slots \subseteq Nat \ {0}
    /\ MaxFaults \in Nat
    /\ NoOne \notin Entries

VARIABLES
    ident,    \* accounts.json: the entry of each slot
    active,   \* accounts.json: activeSlot, 0 for null
    home,     \* the entry whose credential each slot's home holds
    parked,   \* the entries whose home is left in a .swap- directory
    usage,    \* usage-cache.json: the entry each slot's reading was taken of
    mapping,  \* mappings.json: the slot of each directory, 0 for none
    refs,     \* what each command took its reference for, before the lock
    job,      \* the operation that holds the lock
    was,      \* ghost: the table as it was when the operation began
    clean,    \* ghost: no operation was cut off half way
    promised, \* ghost: the entry each directory was mapped for
    faults    \* failures so far

disk == <<ident, active, home, parked, usage, mapping>>
ghosts == <<was, clean, promised>>
vars == <<disk, refs, job, ghosts, faults>>

Someone == Entries \cup {NoOne}
NoRef == [slot |-> 0, entry |-> NoOne]
Loads == [Slots -> Someone]
NoLoad == [s \in Slots |-> NoOne]
NoJob == [op |-> "none", stage |-> "none", from |-> 0, to |-> 0,
          load |-> NoLoad, carried |-> NoOne]
Jobs == [op : {"none", "swap", "move", "remove", "add", "import"},
         stage : {"none", "out", "over", "in", "rename", "rmtree", "write",
                  "cache", "mappings", "save", "activate"},
         from : Slots \cup {0}, to : Slots \cup {0},
         load : Loads, carried : Someone]

Registered == {s \in Slots : ident[s] # NoOne}
Vacant == Slots \ Registered
Free == job = NoJob

(* What the promises are about: where each entry is, with its credential   *)
(* (-1 for a home that is not its own), which one is in use, and whose     *)
(* each directory is.                                                      *)
SlotOf(e) ==
    IF \E s \in Slots : ident[s] = e
    THEN LET s == CHOOSE s \in Slots : ident[s] = e
         IN  IF home[s] = e THEN s ELSE -1
    ELSE 0
EntryAt(s) == IF s = 0 THEN NoOne ELSE ident[s]
View == [where |-> [e \in Entries |-> SlotOf(e)],
         inUse |-> EntryAt(active),
         owner |-> [d \in Dirs |-> EntryAt(mapping[d])]]
NoView == [where |-> [e \in Entries |-> 0],
           inUse |-> NoOne,
           owner |-> [d \in Dirs |-> NoOne]]

HomesMatch == \A s \in Registered : home[s] = ident[s]

Init ==
    /\ ident = [s \in Slots |-> NoOne] /\ active = 0
    /\ home = [s \in Slots |-> NoOne] /\ parked = {}
    /\ usage = [s \in Slots |-> NoOne]
    /\ mapping = [d \in Dirs |-> 0]
    /\ refs = [c \in Commands |-> NoRef]
    /\ job = NoJob
    /\ was = NoView /\ clean = TRUE
    /\ promised = [d \in Dirs |-> NoOne]
    /\ faults = 0

-----------------------------------------------------------------------------
(* A command reads the registry and resolves its reference, without lock.  *)
Resolve(c) ==
    /\ refs[c] = NoRef
    /\ \E s \in Registered :
          refs' = [refs EXCEPT ![c] = [slot |-> s, entry |-> ident[s]]]
    /\ UNCHANGED <<disk, job, ghosts, faults>>

(* The command has the lock and its slot is still registered.              *)
Holding(c) == Free /\ refs[c] # NoRef /\ ident[refs[c].slot] # NoOne
Done(c) == refs' = [refs EXCEPT ![c] = NoRef]

(* get() after the reload: the slot was removed or moved away.             *)
NotFound(c) ==
    /\ Free /\ refs[c] # NoRef /\ ident[refs[c].slot] = NoOne
    /\ Done(c)
    /\ UNCHANGED <<disk, job, ghosts, faults>>

(* record_usage: the reading was taken without the lock, and accepted as   *)
(* that of the entry the command knew in that slot.                        *)
RecordUsage(c) ==
    /\ Holding(c)
    /\ usage' = [usage EXCEPT ![refs[c].slot] = refs[c].entry]
    /\ Done(c)
    /\ UNCHANGED <<ident, active, home, parked, mapping, job,
                   ghosts, faults>>

(* forget_usage; the slot need not be registered any more.                 *)
ForgetUsage(c) ==
    /\ Free /\ refs[c] # NoRef
    /\ usage' = [usage EXCEPT ![refs[c].slot] = NoOne]
    /\ Done(c)
    /\ UNCHANGED <<ident, active, home, parked, mapping, job,
                   ghosts, faults>>

(* activate, for the registry; the rest of it is module Switcher.          *)
Activate(c) ==
    /\ Holding(c) /\ home[refs[c].slot] # NoOne
    /\ active' = refs[c].slot
    /\ Done(c)
    /\ UNCHANGED <<ident, home, parked, usage, mapping, job, ghosts, faults>>

(* set_mapping: the slot is written down without a look at the registry.   *)
SetMapping(c, d) ==
    /\ Free /\ refs[c] # NoRef
    /\ mapping' = [mapping EXCEPT ![d] = refs[c].slot]
    /\ promised' = [promised EXCEPT ![d] = refs[c].entry]
    /\ Done(c)
    /\ UNCHANGED <<ident, active, home, parked, usage, job, was, clean,
                   faults>>

RemoveMapping(d) ==
    /\ Free /\ mapping[d] # 0
    /\ mapping' = [mapping EXCEPT ![d] = 0]
    /\ promised' = [promised EXCEPT ![d] = NoOne]
    /\ UNCHANGED <<ident, active, home, parked, usage, refs, job, was,
                   clean, faults>>

-----------------------------------------------------------------------------
(* An operation takes the lock and reads the registry again.               *)
Begin(op, stage, s, t, l) ==
    /\ Free
    /\ job' = [op |-> op, stage |-> stage, from |-> s, to |-> t,
               load |-> l, carried |-> NoOne]
    /\ was' = View
    /\ UNCHANGED <<disk, clean, promised, faults>>

(* As if a re-add did not look for the entry it already has.               *)
AnySlot(e) == Vacant
(* The slot add_from_auth works on: the entry's own, or any free one (the  *)
(* next, or the one that was asked for).                                   *)
AddSlots(e) ==
    LET known == {s \in Slots : ident[s] = e}
    IN  IF known # {} THEN known ELSE Vacant

BeginAdd(e) ==
    /\ \E s \in AddSlots(e) :
          Begin("add", "write", s, 0, [NoLoad EXCEPT ![s] = e])
    /\ UNCHANGED refs

(* The numbers import gives to the entries of an export, which it takes    *)
(* for new ones: each its own, or a free one if that is taken; --force     *)
(* puts it into a slot that is taken.                                      *)
ImportLoads ==
    {l \in Loads \ {NoLoad} :
        \A s, t \in Slots : l[s] # NoOne => /\ l[s] # ident[t]
                                            /\ l[s] = l[t] => s = t}

BeginImport ==
    /\ \E l \in ImportLoads : Begin("import", "write", 0, 0, l)
    /\ UNCHANGED refs

BeginRemove(c) ==
    /\ Holding(c)
    /\ Begin("remove", "rmtree", refs[c].slot, 0, NoLoad)
    /\ Done(c)

BeginSwap(c) ==
    /\ Holding(c)
    /\ \E t \in Registered \ {refs[c].slot} :
          Begin("swap", "out", refs[c].slot, t, NoLoad)
    /\ Done(c)

(* move_slot to a slot that is not registered and has no home.             *)
BeginMove(c) ==
    /\ Holding(c)
    /\ \E t \in Vacant :
          home[t] = NoOne /\ Begin("move", "rename", refs[c].slot, t, NoLoad)
    /\ Done(c)

MoveRefused(c) ==
    /\ Holding(c)
    /\ \E t \in Vacant : home[t] # NoOne
    /\ Done(c)
    /\ UNCHANGED <<disk, job, ghosts, faults>>

-----------------------------------------------------------------------------
(* The steps of an operation.                                              *)
At(op, stage) == job.op = op /\ job.stage = stage
Goto(stage) == job' = [job EXCEPT !.stage = stage]

(* swap_slots: three renames, through a directory nobody else knows.       *)
SwapOut ==
    /\ At("swap", "out")
    /\ home' = [home EXCEPT ![job.from] = NoOne]
    /\ job' = [job EXCEPT !.stage = "over", !.carried = home[job.from]]
    /\ UNCHANGED <<ident, active, parked, usage, mapping, refs, ghosts,
                   faults>>

SwapOver ==
    /\ At("swap", "over")
    /\ home' = [home EXCEPT ![job.from] = home[job.to], ![job.to] = NoOne]
    /\ Goto("in")
    /\ UNCHANGED <<ident, active, parked, usage, mapping, refs, ghosts,
                   faults>>

SwapIn ==
    /\ At("swap", "in")
    /\ home' = [home EXCEPT ![job.to] = job.carried]
    /\ job' = [job EXCEPT !.stage = "cache", !.carried = NoOne]
    /\ UNCHANGED <<ident, active, parked, usage, mapping, refs, ghosts,
                   faults>>

MoveHome ==
    /\ At("move", "rename")
    /\ home' = [home EXCEPT ![job.to] = home[job.from], ![job.from] = NoOne]
    /\ Goto("cache")
    /\ UNCHANGED <<ident, active, parked, usage, mapping, refs, ghosts,
                   faults>>

(* rmtree(ignore_errors=True): on failure the home stays.                  *)
RemoveHome ==
    /\ At("remove", "rmtree")
    /\ \/ home' = [home EXCEPT ![job.from] = NoOne] /\ faults' = faults
       \/ home' = home /\ faults < MaxFaults /\ faults' = faults + 1
    /\ Goto("cache")
    /\ UNCHANGED <<ident, active, parked, usage, mapping, refs, ghosts>>

(* add and import write the logins, one slot after the other.              *)
Loaded(s) == job.load[s] # NoOne
Written == \A s \in Slots : Loaded(s) => home[s] = job.load[s]

WriteAuth(s) ==
    /\ job.stage = "write"
    /\ Loaded(s) /\ home[s] # job.load[s]
    /\ home' = [home EXCEPT ![s] = job.load[s]]
    /\ UNCHANGED <<ident, active, parked, usage, mapping, refs, job, ghosts,
                   faults>>

(* The usage cache follows the account.                                    *)
WriteCache ==
    /\ job.stage = "cache" \/ (At("import", "write") /\ Written)
    /\ usage' =
          CASE job.op = "import" ->
                 [s \in Slots |-> IF Loaded(s) THEN NoOne ELSE usage[s]]
            [] job.op = "swap" ->
                 [usage EXCEPT ![job.from] = usage[job.to],
                               ![job.to] = usage[job.from]]
            [] job.op = "move" ->
                 [usage EXCEPT ![job.from] = NoOne,
                               ![job.to] = usage[job.from]]
            [] OTHER -> [usage EXCEPT ![job.from] = NoOne]
    /\ Goto(IF job.op = "import" THEN "save" ELSE "mappings")
    /\ UNCHANGED <<ident, active, home, parked, mapping, refs, ghosts, faults>>

(* The number under which the operation leaves what was in slot s.         *)
NewNumber(s) ==
    CASE s = job.from -> job.to
      [] s = job.to /\ job.op = "swap" -> job.from
      [] OTHER -> s

(* _remap_directories.                                                     *)
Remapped(s) == IF s = 0 THEN 0 ELSE NewNumber(s)

WriteMappings ==
    /\ job.stage = "mappings"
    /\ mapping' = [d \in Dirs |-> Remapped(mapping[d])]
    /\ promised' = [d \in Dirs |->
                       IF mapping'[d] = 0 THEN NoOne ELSE promised[d]]
    /\ Goto("save")
    /\ UNCHANGED <<ident, active, home, parked, usage, refs, was,
                   clean, faults>>

(* As if activeSlot stayed when its slot was removed.                      *)
StillActive(s) == s
ActiveAfter(s) == IF s = 0 THEN 0 ELSE NewNumber(s)

Finished == job' = NoJob /\ was' = NoView

(* accounts.json, after remove, swap and move ...                          *)
SaveNumbers ==
    /\ job.op \in {"remove", "swap", "move"} /\ job.stage = "save"
    /\ ident' = [s \in Slots |->
          CASE s = job.to -> ident[job.from]
            [] s = job.from -> IF job.op = "swap" THEN ident[job.to] ELSE NoOne
            [] OTHER -> ident[s]]
    /\ active' = ActiveAfter(active)
    /\ Finished
    /\ UNCHANGED <<home, parked, usage, mapping, refs, clean, promised,
                   faults>>

(* The entries that were put into slots are registered there.              *)
Register ==
    ident' = [s \in Slots |-> IF Loaded(s) THEN job.load[s] ELSE ident[s]]

(* ... after add; `codexswap add' then marks the slot as the active one,   *)
(* claim and add-token do not ...                                          *)
SaveAdded ==
    /\ At("add", "write") /\ Written
    /\ Register
    /\ \/ Finished
       \/ Goto("activate") /\ was' = was
    /\ UNCHANGED <<active, home, parked, usage, mapping, refs,
                   clean, promised, faults>>

SaveActive ==
    /\ At("add", "activate")
    /\ active' = job.from
    /\ Finished
    /\ UNCHANGED <<ident, home, parked, usage, mapping, refs, clean,
                   promised, faults>>

(* ... and after import, which takes the export's active slot over if this *)
(* registry had none.                                                      *)
SaveImported ==
    /\ At("import", "save")
    /\ Register
    /\ active' \in IF active = 0 THEN {0} \cup {s \in Slots : Loaded(s)}
                  ELSE {active}
    /\ Finished
    /\ UNCHANGED <<home, parked, usage, mapping, refs, clean, promised,
                   faults>>

-----------------------------------------------------------------------------
(* Failures.                                                               *)

Fault == faults < MaxFaults /\ faults' = faults + 1

(* As if the temporary directory were cleaned up on the way out.           *)
CleanedUp(e) == parked
(* What is still in the temporary directory stays there.                   *)
Left(e) == parked \cup ({e} \ {NoOne})

(* As if a failed swap put back the first home only.                       *)
HalfRestored ==
    [home EXCEPT ![job.from] = IF job.carried # NoOne THEN job.carried ELSE @]
(* A failed swap, undone: the second home, if it had moved, then the first.*)
Restored ==
    IF job.stage = "in"
    THEN [home EXCEPT ![job.to] = home[job.from], ![job.from] = job.carried]
    ELSE [home EXCEPT ![job.from] =
             IF job.stage = "over" THEN job.carried ELSE @]

(* A rename is attempted only of a directory that exists.                  *)
Renaming ==
    CASE job.stage \in {"out", "rename"} -> home[job.from] # NoOne
      [] job.stage = "over" -> home[job.to] # NoOne
      [] job.stage = "in" -> job.carried # NoOne
      [] OTHER -> FALSE

(* No directory was taken from the entry it belonged to.                   *)
OwnersMatch == \A d \in Dirs : was.owner[d] \in {NoOne, EntryAt(mapping[d])}

(* What the operation has done so far stays; it did nothing visible if     *)
(* every home is still its slot's own and every directory its owner's.     *)
CutOff ==
    /\ parked' = Left(job.carried)
    /\ clean' = (clean /\ HomesMatch' /\ OwnersMatch)

(* A rename of swap_slots or move_slot fails, and so may those that undo   *)
(* the earlier ones: neither, or only the second home is put back.         *)
RenameFails ==
    /\ Renaming
    /\ Fault
    /\ Finished
    /\ UNCHANGED <<ident, active, usage, mapping, refs, promised>>
    /\ \/ job.op = "swap" /\ home' = Restored /\ UNCHANGED <<parked, clean>>
       \/ job.op = "move" /\ UNCHANGED <<home, parked, clean>>
       \/ job.stage \in {"over", "in"} /\ home' = home /\ CutOff
       \/ /\ job.stage = "in"
          /\ home' = [Restored EXCEPT ![job.from] = NoOne]
          /\ CutOff

(* The process dies in the middle of an operation.                         *)
Crash ==
    /\ ~Free
    /\ Fault
    /\ Finished
    /\ UNCHANGED <<ident, active, home, usage, mapping, refs, promised>>
    /\ CutOff

(* accounts.json is damaged from outside, and the next command puts it     *)
(* aside and goes on with an empty one.                                    *)
Quarantine ==
    /\ Free /\ Registered # {}
    /\ Fault
    /\ ident' = [s \in Slots |-> NoOne]
    /\ active' = 0
    /\ clean' = FALSE
    /\ UNCHANGED <<home, parked, usage, mapping, refs, job, was, promised>>

Command(c) ==
    \/ Resolve(c) \/ NotFound(c)
    \/ RecordUsage(c) \/ ForgetUsage(c) \/ Activate(c)
    \/ \E d \in Dirs : SetMapping(c, d)
    \/ BeginRemove(c) \/ BeginSwap(c) \/ BeginMove(c) \/ MoveRefused(c)

Work ==
    \/ SwapOut \/ SwapOver \/ SwapIn \/ MoveHome \/ RemoveHome
    \/ \E s \in Slots : WriteAuth(s)
    \/ WriteCache \/ WriteMappings
    \/ SaveNumbers \/ SaveAdded \/ SaveActive \/ SaveImported

Next ==
    \/ \E c \in Commands : Command(c)
    \/ \E e \in Entries : BeginAdd(e)
    \/ BeginImport
    \/ \E d \in Dirs : RemoveMapping(d)
    \/ Work
    \/ RenameFails \/ Crash \/ Quarantine

Spec == Init /\ [][Next]_vars

-----------------------------------------------------------------------------
(* Properties.                                                             *)

(* Every variable has its type, and no entry is registered twice.          *)
TypeOK ==
    /\ ident \in [Slots -> Someone]
    /\ \A s, t \in Registered : ident[s] = ident[t] => s = t
    /\ active \in Slots \cup {0}
    /\ home \in [Slots -> Someone]
    /\ parked \subseteq Entries
    /\ usage \in [Slots -> Someone]
    /\ mapping \in [Dirs -> Slots \cup {0}]
    /\ refs \in [Commands -> [slot : Slots \cup {0}, entry : Someone]]
    /\ job \in Jobs
    /\ clean \in BOOLEAN
    /\ promised \in [Dirs -> Someone]
    /\ faults \in 0..MaxFaults

(* No operation, failure or crash writes an accounts.json that load()      *)
(* would reject for its activeSlot: the next command would put the whole   *)
(* registry aside (AccountStore.load, remove, swap_slots, move_slot).      *)
RegistryLoads == active # 0 => ident[active] # NoOne

(* The credentials that are somewhere on disk.                             *)
Credentials ==
    (parked \cup {job.carried} \cup {home[s] : s \in Slots}) \ {NoOne}

(* swap and move destroy no credential, wherever they fail, wherever the   *)
(* process dies and whatever an earlier crash has left behind              *)
(* (swap_slots: "Keep credentials in the temporary directory").            *)
CredentialsSurvive ==
    [][job.op \in {"swap", "move"} => Credentials \subseteq Credentials']_vars

(* The registry implements AccountTable: each operation takes effect as a  *)
(* whole when accounts.json is saved, also when a rename failed and was    *)
(* undone, and home, directories and the active mark go with the entry.    *)
Shown == IF ~clean THEN NoView ELSE IF Free THEN View ELSE was
Table == INSTANCE AccountTable WITH
            where <- Shown.where, inUse <- Shown.inUse,
            owner <- Shown.owner, wrecked <- ~clean
ImplementsTable == Table!Spec

(* CONTRACT.md: "A directory mapping is a promise that `run' in that       *)
(* directory uses that account": whoever the mapped slot belongs to is the *)
(* entry the directory was mapped for.                                     *)
MappingPromise ==
    clean /\ Free =>
        \A d \in Dirs : EntryAt(mapping[d]) \in {NoOne, promised[d]}

(* CONTRACT.md: "Two references must never silently select the wrong       *)
(* account": an operation works on the entry its reference was taken for.  *)
NamedEntryOnly ==
    [][\A c \in Commands :
          BeginRemove(c) => ident[refs[c].slot] = refs[c].entry]_vars
=============================================================================
