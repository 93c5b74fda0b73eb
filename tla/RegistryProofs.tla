--------------------------- MODULE RegistryProofs ---------------------------
(***************************************************************************)
(* Theorems about Registry.  The inductive invariant ties each stage of    *)
(* the operation that holds the lock to the homes on disk (JobInv,         *)
(* HomesInv) and to the table as it was when the operation began (WasInv). *)
(***************************************************************************)
EXTENDS Registry, TLAPS

Numbering == {"swap", "move", "remove"}   \* operations on slot numbers
Loading == {"add", "import"}              \* operations that bring in logins
StagesOf(op) ==
    CASE op = "swap" -> {"out", "over", "in", "cache", "mappings", "save"}
      [] op = "move" -> {"rename", "cache", "mappings", "save"}
      [] op = "remove" -> {"rmtree", "cache", "mappings", "save"}
      [] op = "add" -> {"write", "activate"}
      [] op = "import" -> {"write", "save"}
      [] OTHER -> {"none"}

(* A command that has resolved its reference has a slot.                   *)
RefsInv == \A c \in Commands :
              refs[c] \in {NoRef} \cup [slot : Slots, entry : Someone]

(* What an operation on numbers works on stays as it found it.             *)
NumberingInv ==
    job.op \in Numbering =>
        /\ job.from \in Registered
        /\ job.op = "remove" => job.to = 0
        /\ job.op = "swap" => job.to \in Registered \ {job.from}
        /\ job.op = "move" => job.to \in Vacant
        /\ job.stage = "rename" => home[job.to] = NoOne
        /\ job.stage = "over" => home[job.from] = NoOne
        /\ job.stage = "in" => home[job.to] = NoOne

(* The logins an operation brings in are those of different entries, none  *)
(* of which is registered in another slot.                                 *)
LoadingInv ==
    job.op \in Loading =>
        /\ \A s, t \in Slots :
              Loaded(s) /\ job.load[s] \in {job.load[t], ident[t]} => s = t
        /\ job.op = "import" =>
              \A s, t \in Slots : Loaded(s) => job.load[s] # ident[t]
        /\ job.op = "add" =>
              /\ job.from \in Slots
              /\ \A s \in Slots : Loaded(s) <=> s = job.from
              /\ ident[job.from] \in {NoOne, job.load[job.from]}
        /\ job.stage = "activate" => ident[job.from] = job.load[job.from]

JobInv ==
    /\ job \in Jobs
    /\ job.op = "none" => job = NoJob
    /\ job.stage \in StagesOf(job.op)
    /\ job.carried # NoOne => job.stage \in {"over", "in"}
    /\ NumberingInv /\ LoadingInv

(* The registry that SaveNumbers will write.                               *)
NextIdent ==
    [s \in Slots |->
        CASE s = job.to -> ident[job.from]
          [] s = job.from -> IF job.op = "swap" THEN ident[job.to] ELSE NoOne
          [] OTHER -> ident[s]]
HomesMatchNext == \A s \in Slots : NextIdent[s] # NoOne => home[s] = NextIdent[s]

(* Which home is whose, at each stage, as long as nothing was cut off.     *)
HomesInv ==
    /\ job.op \in Numbering /\ job.stage \in {"cache", "mappings", "save"} =>
          HomesMatchNext
    /\ job.stage = "over" =>
          /\ job.carried = ident[job.from]
          /\ \A s \in Registered \ {job.from} : home[s] = ident[s]
    /\ job.stage = "in" =>
          /\ job.carried = ident[job.from] /\ home[job.from] = ident[job.to]
          /\ \A s \in Registered \ {job.from, job.to} : home[s] = ident[s]
    /\ job.op = "import" =>
          /\ \A s \in Registered :
                \/ home[s] = ident[s]
                \/ Loaded(s) /\ home[s] = job.load[s]
          /\ job.stage = "save" => Written
    /\ job.op \in {"none", "add"} \/ job.stage \in {"out", "rename", "rmtree"} =>
          HomesMatch

(* The slot that registry i has for each entry, 0 if it has none.          *)
Places(i) ==
    [e \in Entries |-> IF \E s \in Slots : i[s] = e
                       THEN CHOOSE s \in Slots : i[s] = e
                       ELSE 0]

(* What the table was when the operation began, as far as it matters.      *)
WasInv ==
    ~Free =>
        /\ DOMAIN was = {"where", "inUse", "owner"} /\ DOMAIN was.owner = Dirs
        /\ was.inUse = EntryAt(active)
        /\ \/ /\ was.where = Places(ident)
              /\ IF job.op \in Numbering /\ job.stage = "save"
                 THEN \A d \in Dirs : \E m \in Slots \cup {0} :
                         was.owner[d] = EntryAt(m) /\ mapping[d] = Remapped(m)
                 ELSE was.owner = [d \in Dirs |-> EntryAt(mapping[d])]
           \/ /\ job.stage = "activate"
              /\ was.where = [Places(ident) EXCEPT ![ident[job.from]] = 0]
              /\ OwnersMatch

(* What holds whatever has gone wrong before, and what holds of the table  *)
(* as long as nothing was cut off half way.                                *)
SafeInv == TypeOK /\ RefsInv /\ JobInv /\ RegistryLoads
TableInv == clean => HomesInv /\ WasInv
RegInv == SafeInv /\ TableInv

-----------------------------------------------------------------------------
LEMMA NoJobIs ==
  /\ NoJob \in Jobs /\ NoJob.op = "none" /\ NoJob.stage = "none"
  /\ NoJob.from = 0 /\ NoJob.to = 0 /\ NoJob.carried = NoOne
  /\ NoLoad \in Loads /\ 0 \notin Slots
BY RegistryAssumption DEF NoJob, Jobs, NoLoad, Loads, Someone

LEMMA SafeInit == Init => SafeInv
<1>1. SUFFICES ASSUME Init PROVE SafeInv
  OBVIOUS
<1>2. JobInv
  BY <1>1, NoJobIs
     DEF Init, JobInv, NumberingInv, LoadingInv, Numbering, Loading, StagesOf
<1>3. TypeOK
  BY <1>1, NoJobIs, RegistryAssumption
     DEF Init, TypeOK, Someone, Registered, NoRef
<1>4. RefsInv /\ RegistryLoads
  BY <1>1 DEF Init, RefsInv, RegistryLoads
<1>5. QED BY <1>2, <1>3, <1>4 DEF SafeInv

(* Nobody else touches what an operation works on.                         *)
LEMMA JobKept ==
  ASSUME JobInv, UNCHANGED <<ident, home, job>>
  PROVE  JobInv'
BY DEF JobInv, NumberingInv, LoadingInv, Registered, Vacant, Loaded

(* No operation is under way.                                              *)
LEMMA JobFree ==
  ASSUME job' = NoJob
  PROVE  JobInv'
BY NoJobIs
   DEF JobInv, NumberingInv, LoadingInv, Numbering, Loading, StagesOf

LEMMA Idle == ASSUME JobInv PROVE Free <=> job.op = "none"
BY NoJobIs DEF JobInv, Free

(* What a command knows.                                                   *)
LEMMA RefType ==
  ASSUME SafeInv, NEW c \in Commands, refs[c] # NoRef
  PROVE  refs[c].slot \in Slots /\ refs[c].entry \in Someone
BY DEF SafeInv, RefsInv

LEMMA DoneKeeps ==
  ASSUME SafeInv, NEW c \in Commands, Done(c)
  PROVE  /\ RefsInv'
         /\ refs' \in [Commands -> [slot : Slots \cup {0}, entry : Someone]]
BY DEF SafeInv, TypeOK, RefsInv, Done, NoRef, Someone

(* The steps that touch neither the homes nor the registered entries.      *)
LEMMA CommandKeeps ==
  ASSUME SafeInv, NEW c \in Commands,
         \/ Resolve(c) \/ NotFound(c) \/ RecordUsage(c) \/ ForgetUsage(c)
         \/ Activate(c) \/ MoveRefused(c)
  PROVE  SafeInv'
<1>1. JobInv'
  <2>1. UNCHANGED <<ident, home, job>>
    BY DEF Resolve, NotFound, RecordUsage, ForgetUsage, Activate,
           MoveRefused, disk
  <2>2. QED BY <2>1, JobKept DEF SafeInv
<1>2. CASE Resolve(c)
  <2>1. PICK s \in Registered :
           refs' = [refs EXCEPT ![c] = [slot |-> s, entry |-> ident[s]]]
    BY <1>2 DEF Resolve
  <2>2. [slot |-> s, entry |-> ident[s]] \in [slot : Slots, entry : Someone]
    BY DEF SafeInv, TypeOK, Registered
  <2>3. /\ RefsInv'
        /\ refs' \in [Commands -> [slot : Slots \cup {0}, entry : Someone]]
    BY <2>1, <2>2 DEF SafeInv, TypeOK, RefsInv
  <2>4. QED BY <1>1, <1>2, <2>3
            DEF SafeInv, TypeOK, RegistryLoads, Resolve, disk, ghosts,
                Registered
<1>3. CASE NotFound(c) \/ MoveRefused(c)
  <2>1. Done(c) /\ UNCHANGED <<disk, job, ghosts, faults>>
    BY <1>3 DEF NotFound, MoveRefused
  <2>2. QED BY <1>1, <2>1, DoneKeeps
            DEF SafeInv, TypeOK, RegistryLoads, disk, ghosts, Registered
<1>4. CASE RecordUsage(c) \/ ForgetUsage(c)
  <2>1. refs[c] # NoRef /\ Done(c)
    BY <1>4 DEF RecordUsage, ForgetUsage, Holding
  <2>2. PICK e \in Someone : usage' = [usage EXCEPT ![refs[c].slot] = e]
    BY <1>4, <2>1, RefType DEF RecordUsage, ForgetUsage, Someone
  <2>3. usage' \in [Slots -> Someone]
    BY <2>2 DEF SafeInv, TypeOK
  <2>4. QED BY <1>1, <1>4, <2>1, <2>3, DoneKeeps
            DEF SafeInv, TypeOK, RegistryLoads, RecordUsage, ForgetUsage,
                ghosts, Registered
<1>5. CASE Activate(c)
  <2>1. refs[c] # NoRef /\ Done(c) /\ ident[refs[c].slot] # NoOne
        /\ active' = refs[c].slot
    BY <1>5 DEF Activate, Holding
  <2>2. active' \in Slots /\ ident[active'] # NoOne
    BY <2>1, RefType
  <2>3. QED BY <1>1, <1>5, <2>1, <2>2, DoneKeeps
            DEF SafeInv, TypeOK, RegistryLoads, Activate, ghosts, Registered
<1>6. QED BY <1>2, <1>3, <1>4, <1>5

LEMMA MappingKeeps ==
  ASSUME SafeInv, NEW d \in Dirs,
         (\E c \in Commands : SetMapping(c, d)) \/ RemoveMapping(d)
  PROVE  SafeInv'
<1>1. JobInv'
  BY JobKept DEF SafeInv, SetMapping, RemoveMapping
<1>2. CASE RemoveMapping(d)
  <2>1. /\ mapping' \in [Dirs -> Slots \cup {0}]
        /\ promised' \in [Dirs -> Someone]
    BY <1>2 DEF SafeInv, TypeOK, RemoveMapping, Someone
  <2>2. QED BY <1>1, <1>2, <2>1
            DEF SafeInv, TypeOK, RefsInv, RegistryLoads, RemoveMapping,
                Registered
<1>3. ASSUME NEW c \in Commands, SetMapping(c, d) PROVE SafeInv'
  <2>1. refs[c].slot \in Slots /\ refs[c].entry \in Someone /\ Done(c)
    BY <1>3, RefType DEF SetMapping
  <2>2. /\ mapping' \in [Dirs -> Slots \cup {0}]
        /\ promised' \in [Dirs -> Someone]
    BY <1>3, <2>1 DEF SafeInv, TypeOK, SetMapping
  <2>3. QED BY <1>1, <1>3, <2>1, <2>2, DoneKeeps
            DEF SafeInv, TypeOK, RegistryLoads, SetMapping, Registered
<1>4. QED BY <1>2, <1>3

-----------------------------------------------------------------------------
(* An operation begins.                                                    *)
LEMMA BeginKeeps ==
  ASSUME SafeInv, NEW op, NEW stage, NEW s, NEW t, NEW l,
         Begin(op, stage, s, t, l), JobInv',
         RefsInv', refs' \in [Commands -> [slot : Slots \cup {0},
                                           entry : Someone]]
  PROVE  SafeInv'
BY DEF SafeInv, TypeOK, RegistryLoads, Begin, disk, Registered, JobInv

LEMMA BeginAddKeeps ==
  ASSUME SafeInv, NEW e \in Entries, BeginAdd(e)
  PROVE  SafeInv'
<1>1. PICK s \in AddSlots(e) :
         Begin("add", "write", s, 0, [NoLoad EXCEPT ![s] = e])
  BY DEF BeginAdd
<1> DEFINE l == [NoLoad EXCEPT ![s] = e]
<1>2. /\ s \in Slots /\ e # NoOne /\ e \in Someone
      /\ ident[s] \in {NoOne, e}
      /\ \A t \in Slots : ident[t] = e => t = s
  BY <1>1, RegistryAssumption
     DEF SafeInv, TypeOK, AddSlots, Vacant, Registered, Someone
<1>3. /\ l \in Loads /\ l[s] = e
      /\ \A t \in Slots : l[t] # NoOne <=> t = s
  BY <1>2, NoJobIs DEF NoLoad, Loads, Someone
<1> HIDE DEF l
<1>4. /\ job' = [op |-> "add", stage |-> "write", from |-> s, to |-> 0,
                 load |-> l, carried |-> NoOne]
      /\ UNCHANGED <<ident, home, refs>>
  BY <1>1 DEF Begin, disk, BeginAdd, l
<1>5. job' \in Jobs
  BY <1>2, <1>3, <1>4 DEF Jobs, Someone
<1>6. LoadingInv'
  BY <1>2, <1>3, <1>4 DEF LoadingInv, Loaded
<1>7. JobInv'
  BY <1>4, <1>5, <1>6 DEF JobInv, NumberingInv, Numbering, StagesOf
<1>8. /\ RefsInv'
      /\ refs' \in [Commands -> [slot : Slots \cup {0}, entry : Someone]]
  BY <1>4 DEF SafeInv, RefsInv, TypeOK
<1>9. QED BY <1>1, <1>7, <1>8, BeginKeeps

LEMMA BeginImportKeeps ==
  ASSUME SafeInv, BeginImport
  PROVE  SafeInv'
<1>1. PICK l \in ImportLoads : Begin("import", "write", 0, 0, l)
  BY DEF BeginImport
<1>2. /\ l \in Loads
      /\ \A s, t \in Slots : l[s] # NoOne => /\ l[s] # ident[t]
                                             /\ l[s] = l[t] => s = t
  BY DEF ImportLoads
<1>3. /\ job' = [op |-> "import", stage |-> "write", from |-> 0, to |-> 0,
                 load |-> l, carried |-> NoOne]
      /\ UNCHANGED <<ident, home, refs>>
  BY <1>1 DEF Begin, disk, BeginImport
<1>4. job' \in Jobs
  BY <1>2, <1>3 DEF Jobs, Someone
<1>5. LoadingInv'
  BY <1>2, <1>3 DEF LoadingInv, Loaded
<1>6. JobInv'
  BY <1>3, <1>4, <1>5 DEF JobInv, NumberingInv, Numbering, StagesOf
<1>7. /\ RefsInv'
      /\ refs' \in [Commands -> [slot : Slots \cup {0}, entry : Someone]]
  BY <1>3 DEF SafeInv, RefsInv, TypeOK
<1>8. QED BY <1>1, <1>6, <1>7, BeginKeeps

LEMMA BeginNumbersKeeps ==
  ASSUME SafeInv, NEW c \in Commands,
         BeginRemove(c) \/ BeginSwap(c) \/ BeginMove(c)
  PROVE  SafeInv'
<1> DEFINE s == refs[c].slot
           New(op, stage, t) ==
              [op |-> op, stage |-> stage, from |-> s, to |-> t,
               load |-> NoLoad, carried |-> NoOne]
<1>1. s \in Registered /\ Done(c)
  BY RefType DEF BeginRemove, BeginSwap, BeginMove, Holding, Registered
<1>2. PICK op, stage, t :
         /\ Begin(op, stage, s, t, NoLoad)
         /\ \/ op = "remove" /\ stage = "rmtree" /\ t = 0
            \/ op = "swap" /\ stage = "out" /\ t \in Registered \ {s}
            \/ op = "move" /\ stage = "rename" /\ t \in Vacant
                           /\ home[t] = NoOne
  BY DEF BeginRemove, BeginSwap, BeginMove
<1> HIDE DEF s
<1>3. /\ job' = New(op, stage, t)
      /\ UNCHANGED <<ident, home>>
  BY <1>2 DEF Begin, disk
<1>4. job' \in Jobs
  <2>1. s \in Slots /\ t \in Slots \cup {0}
    BY <1>1, <1>2 DEF Registered, Vacant
  <2>2. QED BY <1>2, <1>3, <2>1, NoJobIs DEF Jobs, Someone
<1>5. /\ job'.op = op /\ job'.stage = stage /\ job'.from = s /\ job'.to = t
      /\ job'.carried = NoOne
  BY <1>3
<1>6. NumberingInv'
  BY <1>1, <1>2, <1>3, <1>5 DEF NumberingInv, Numbering, Registered, Vacant
<1>7. JobInv'
  BY <1>2, <1>4, <1>5, <1>6 DEF JobInv, LoadingInv, Loading, StagesOf
<1>8. QED BY <1>1, <1>2, <1>7, BeginKeeps, DoneKeeps

-----------------------------------------------------------------------------
(* An operation goes on.                                                   *)
Stages == {"none", "out", "over", "in", "rename", "rmtree", "write",
           "cache", "mappings", "save", "activate"}

LEMMA GotoIs ==
  ASSUME job \in Jobs, NEW stage \in Stages, NEW carried \in Someone,
         job' = [job EXCEPT !.stage = stage, !.carried = carried]
  PROVE  /\ job' \in Jobs /\ job'.op = job.op /\ job'.stage = stage
         /\ job'.from = job.from /\ job'.to = job.to
         /\ job'.load = job.load /\ job'.carried = carried
BY DEF Jobs, Stages

(* To a stage at which it expects nothing of the homes.                    *)
LEMMA GotoKeeps ==
  ASSUME SafeInv, NEW stage \in Stages, ident' = ident,
         \/ Goto(stage) /\ job.carried = NoOne
         \/ job' = [job EXCEPT !.stage = stage, !.carried = NoOne],
         stage \in StagesOf(job.op),
         stage \notin {"rename", "over", "in", "activate"}
  PROVE  JobInv'
<1>1. NoOne \in Someone /\ job \in Jobs /\ JobInv
  BY DEF Someone, SafeInv, TypeOK
<1>2. job' = [job EXCEPT !.stage = stage, !.carried = NoOne]
  BY <1>1 DEF Goto, Jobs
<1>3. /\ job' \in Jobs /\ job'.op = job.op /\ job'.stage = stage
      /\ job'.from = job.from /\ job'.to = job.to /\ job'.load = job.load
      /\ job'.carried = NoOne
  BY <1>1, <1>2, GotoIs
<1>4. NumberingInv'
  BY <1>1, <1>3 DEF JobInv, NumberingInv, Registered, Vacant
<1>5. LoadingInv'
  BY <1>1, <1>3 DEF JobInv, LoadingInv, Loaded
<1>6. job'.op = "none" => stage = "none"
  BY <1>3 DEF StagesOf
<1>7. job'.op # "none"  \/ job' = NoJob
  <2>1. SUFFICES ASSUME job.op = "none" PROVE job' = NoJob
    BY <1>3
  <2>2. stage = "none" /\ job = NoJob
    BY <1>1, <1>3, <1>6, <2>1 DEF JobInv
  <2>3. QED BY <1>2, <2>2, NoJobIs DEF NoJob
<1>8. QED BY <1>3, <1>4, <1>5, <1>7 DEF JobInv

LEMMA SwapKeeps ==
  ASSUME SafeInv, SwapOut \/ SwapOver \/ SwapIn
  PROVE  SafeInv'
<1>1. /\ job \in Jobs /\ JobInv /\ job.op = "swap"
      /\ job.from \in Slots /\ job.to \in Slots /\ job.from # job.to
      /\ home \in [Slots -> Someone]
  BY DEF SafeInv, TypeOK, JobInv, NumberingInv, Numbering, Registered,
         SwapOut, SwapOver, SwapIn, At
<1>2. UNCHANGED <<ident, active, parked, usage, mapping, refs, ghosts, faults>>
  BY DEF SwapOut, SwapOver, SwapIn
<1>3. /\ home[job.from] \in Someone /\ home[job.to] \in Someone
      /\ NoOne \in Someone /\ job.carried \in Someone
  BY <1>1 DEF Someone, Jobs
<1>4. CASE SwapOut
  <2>1. /\ job' = [job EXCEPT !.stage = "over", !.carried = home[job.from]]
        /\ home' = [home EXCEPT ![job.from] = NoOne]
    BY <1>4 DEF SwapOut
  <2>2. /\ job' \in Jobs /\ job'.op = job.op /\ job'.stage = "over"
        /\ job'.from = job.from /\ job'.to = job.to
    <3>1. "over" \in Stages
      BY DEF Stages
    <3>2. QED BY <1>1, <1>3, <2>1, <3>1, GotoIs
  <2>3. NumberingInv'
    BY <1>1, <1>2, <2>1, <2>2 DEF JobInv, NumberingInv, Numbering, Registered
  <2>4. home' \in [Slots -> Someone]
    BY <1>1, <1>3, <2>1
  <2>5. JobInv'
    BY <1>1, <2>2, <2>3 DEF JobInv, LoadingInv, Loading, StagesOf
  <2>6. QED BY <1>2, <2>2, <2>4, <2>5
            DEF SafeInv, TypeOK, RefsInv, RegistryLoads, ghosts, Registered
<1>5. CASE SwapOver
  <2>1. /\ job' = [job EXCEPT !.stage = "in"]
        /\ home' = [home EXCEPT ![job.from] = home[job.to], ![job.to] = NoOne]
    BY <1>5 DEF SwapOver, Goto
  <2>2. job' = [job EXCEPT !.stage = "in", !.carried = job.carried]
    BY <1>1, <2>1 DEF Jobs
  <2>3. /\ job' \in Jobs /\ job'.op = job.op /\ job'.stage = "in"
        /\ job'.from = job.from /\ job'.to = job.to
    <3>1. "in" \in Stages
      BY DEF Stages
    <3>2. QED BY <1>1, <1>3, <2>2, <3>1, GotoIs
  <2>4. NumberingInv'
    BY <1>1, <1>2, <2>1, <2>3 DEF JobInv, NumberingInv, Numbering, Registered
  <2>5. home' \in [Slots -> Someone]
    BY <1>1, <1>3, <2>1
  <2>6. JobInv'
    BY <1>1, <2>3, <2>4 DEF JobInv, LoadingInv, Loading, StagesOf
  <2>7. QED BY <1>2, <2>3, <2>5, <2>6
            DEF SafeInv, TypeOK, RefsInv, RegistryLoads, ghosts, Registered
<1>6. CASE SwapIn
  <2>1. JobInv'
    BY <1>1, <1>2, <1>6, GotoKeeps DEF SwapIn, StagesOf, Stages
  <2>2. home' \in [Slots -> Someone]
    BY <1>1, <1>3, <1>6 DEF SwapIn
  <2>3. QED BY <1>2, <2>1, <2>2
            DEF SafeInv, TypeOK, RefsInv, RegistryLoads, ghosts, Registered,
                JobInv
<1>7. QED BY <1>4, <1>5, <1>6

LEMMA HomeKeeps ==
  ASSUME SafeInv, MoveHome \/ RemoveHome
  PROVE  SafeInv'
<1>1. /\ job \in Jobs /\ JobInv /\ job.from \in Slots
      /\ home \in [Slots -> Someone]
      /\ job.op \in {"move", "remove"} /\ job.carried = NoOne
      /\ ident' = ident /\ Goto("cache")
  BY DEF SafeInv, TypeOK, JobInv, NumberingInv, Numbering, Registered,
         MoveHome, RemoveHome, At
<1>2. home' \in [Slots -> Someone]
  <2>1. CASE MoveHome
    <3>1. job.to \in Slots
      BY <1>1, <2>1 DEF MoveHome, At, JobInv, NumberingInv, Numbering, Vacant
    <3>2. QED BY <1>1, <2>1, <3>1 DEF MoveHome, Someone
  <2>2. CASE RemoveHome
    BY <1>1, <2>2 DEF RemoveHome, Someone
  <2>3. QED BY <2>1, <2>2
<1>3. JobInv'
  BY <1>1, GotoKeeps DEF StagesOf, Stages
<1>4. faults' \in 0..MaxFaults
  BY RegistryAssumption DEF SafeInv, TypeOK, MoveHome, RemoveHome
<1>5. QED BY <1>2, <1>3, <1>4
          DEF SafeInv, TypeOK, RefsInv, RegistryLoads, ghosts, Registered,
              JobInv, MoveHome, RemoveHome

LEMMA WriteAuthKeeps ==
  ASSUME SafeInv, NEW s \in Slots, WriteAuth(s)
  PROVE  SafeInv'
<1>1. job \in Jobs /\ JobInv /\ job.op \in Loading /\ job.op \notin Numbering
  BY DEF SafeInv, JobInv, WriteAuth, Loading, Numbering, StagesOf
<1>2. JobInv'
  BY <1>1 DEF JobInv, NumberingInv, LoadingInv, Loaded, WriteAuth
<1>3. home' \in [Slots -> Someone]
  BY <1>1 DEF SafeInv, TypeOK, WriteAuth, Jobs, Loads
<1>4. QED BY <1>2, <1>3
          DEF SafeInv, TypeOK, RefsInv, RegistryLoads, WriteAuth, ghosts,
              Registered

LEMMA WriteCacheKeeps ==
  ASSUME SafeInv, WriteCache
  PROVE  SafeInv'
<1> DEFINE stage == IF job.op = "import" THEN "save" ELSE "mappings"
           New == CASE job.op = "import" ->
                         [s \in Slots |-> IF Loaded(s) THEN NoOne ELSE usage[s]]
                    [] job.op = "swap" ->
                         [usage EXCEPT ![job.from] = usage[job.to],
                                       ![job.to] = usage[job.from]]
                    [] job.op = "move" ->
                         [usage EXCEPT ![job.from] = NoOne,
                                       ![job.to] = usage[job.from]]
                    [] OTHER -> [usage EXCEPT ![job.from] = NoOne]
<1>1. /\ job \in Jobs /\ JobInv /\ job.carried = NoOne
      /\ usage \in [Slots -> Someone]
  BY DEF SafeInv, TypeOK, JobInv, WriteCache, At
<1>2. job.op \in Numbering \cup {"import"}
  BY <1>1, Zenon DEF WriteCache, At, JobInv, StagesOf, Numbering
<1>3. /\ Goto(stage) /\ usage' = New
      /\ UNCHANGED <<ident, active, home, parked, mapping, refs, ghosts, faults>>
  BY Zenon DEF WriteCache
<1>4. New \in [Slots -> Someone]
  <2>1. CASE job.op = "import"
    BY <1>1, <2>1 DEF Someone
  <2>2. CASE job.op = "swap"
    <3>1. job.from \in Slots /\ job.to \in Slots
      BY <1>1, <2>2 DEF JobInv, NumberingInv, Numbering, Registered
    <3>2. QED BY <1>1, <2>2, <3>1
  <2>3. CASE job.op = "move"
    <3>1. job.from \in Slots /\ job.to \in Slots
      BY <1>1, <2>3 DEF JobInv, NumberingInv, Numbering, Registered, Vacant
    <3>2. QED BY <1>1, <2>3, <3>1 DEF Someone
  <2>4. CASE job.op = "remove"
    BY <1>1, <2>4 DEF Someone
  <2>5. QED BY <1>2, <2>1, <2>2, <2>3, <2>4 DEF Numbering
<1>5. JobInv'
  BY <1>1, <1>2, <1>3, GotoKeeps DEF Stages, StagesOf, Numbering
<1> HIDE DEF New
<1>6. QED BY <1>3, <1>4, <1>5
          DEF SafeInv, TypeOK, RefsInv, RegistryLoads, ghosts, Registered,
              JobInv

(* The numbers that an operation gives.                                    *)
LEMMA NumbersIn ==
  ASSUME SafeInv, job.op \in Numbering, NEW s \in Slots \cup {0}
  PROVE  /\ NewNumber(s) \in Slots \cup {0} /\ Remapped(s) \in Slots \cup {0}
         /\ ActiveAfter(s) = Remapped(s)
<1>1. job.from \in Slots /\ job.to \in Slots \cup {0}
  BY DEF SafeInv, JobInv, NumberingInv, Numbering, Registered, Vacant
<1>2. NewNumber(s) \in {job.to, job.from, s}
  BY Zenon DEF NewNumber
<1>3. QED BY <1>1, <1>2 DEF Remapped, ActiveAfter

LEMMA WriteMappingsKeeps ==
  ASSUME SafeInv, WriteMappings
  PROVE  SafeInv'
<1>1. /\ job \in Jobs /\ JobInv /\ job.carried = NoOne
      /\ job.stage = "mappings"
  BY DEF SafeInv, TypeOK, JobInv, WriteMappings
<1>2. job.op \in Numbering
  BY <1>1, Zenon DEF JobInv, StagesOf, Numbering
<1>3. mapping' \in [Dirs -> Slots \cup {0}] /\ promised' \in [Dirs -> Someone]
  BY <1>2, NumbersIn DEF SafeInv, TypeOK, WriteMappings, Someone
<1>4. JobInv'
  BY <1>1, <1>2, GotoKeeps DEF WriteMappings, Stages, StagesOf, Numbering
<1>5. QED BY <1>3, <1>4
          DEF SafeInv, TypeOK, RefsInv, RegistryLoads, Registered, JobInv,
              WriteMappings

-----------------------------------------------------------------------------
(* An operation saves accounts.json.                                       *)

(* What SaveNumbers writes, slot by slot.                                  *)
LEMMA NextIdentIs ==
  ASSUME SafeInv, job.op \in Numbering
  PROVE  /\ NextIdent \in [Slots -> Someone]
         /\ job.op = "swap" =>
              /\ NextIdent[job.from] = ident[job.to]
              /\ NextIdent[job.to] = ident[job.from]
         /\ job.op = "move" =>
              /\ NextIdent[job.from] = NoOne
              /\ NextIdent[job.to] = ident[job.from]
         /\ job.op = "remove" => NextIdent[job.from] = NoOne
         /\ \A s \in Slots \ {job.from, job.to} : NextIdent[s] = ident[s]
<1>1. /\ ident \in [Slots -> Someone] /\ NoOne \in Someone
      /\ job.from \in Slots /\ job.to \in Slots \cup {0}
      /\ job.from # job.to
      /\ job.op # "remove" => job.to \in Slots
      /\ job.op = "remove" => job.to = 0
  BY NoJobIs DEF SafeInv, TypeOK, JobInv, NumberingInv, Numbering, Registered,
                 Vacant, Someone
<1> DEFINE New(s) ==
       CASE s = job.to -> ident[job.from]
         [] s = job.from -> IF job.op = "swap" THEN ident[job.to] ELSE NoOne
         [] OTHER -> ident[s]
<1>2. NextIdent = [s \in Slots |-> New(s)]
  BY Zenon DEF NextIdent
<1>3. New(job.to) = ident[job.from]
  BY <1>1, Zenon
<1>4. New(job.from) = IF job.op = "swap" THEN ident[job.to] ELSE NoOne
  BY <1>1, Zenon
<1>5. \A s \in Slots \ {job.from, job.to} : New(s) = ident[s]
  BY Zenon
<1> HIDE DEF New
<1>6. \A s \in Slots : New(s) \in Someone
  BY <1>1, <1>3, <1>4, <1>5
<1>7. QED BY <1>1, <1>2, <1>3, <1>4, <1>5, <1>6

LEMMA SaveNumbersKeeps ==
  ASSUME SafeInv, SaveNumbers
  PROVE  SafeInv'
<1>1. /\ job.op \in Numbering /\ job' = NoJob
      /\ ident' = NextIdent /\ active' = Remapped(active)
      /\ UNCHANGED <<home, parked, usage, mapping, refs, clean, promised, faults>>
  <2>1. ident' = NextIdent
    BY Zenon DEF SaveNumbers, NextIdent
  <2>2. QED BY <2>1 DEF SaveNumbers, Finished, Numbering, ActiveAfter, Remapped
<1>2. /\ active' \in Slots \cup {0} /\ ident' \in [Slots -> Someone]
  BY <1>1, NumbersIn, NextIdentIs DEF SafeInv, TypeOK
<1>3. /\ job.from \in Slots /\ ident[job.from] # NoOne
      /\ job.op = "remove" => job.to = 0
      /\ job.op = "swap" => /\ job.to \in Slots \ {job.from}
                            /\ ident[job.to] # NoOne
      /\ job.op = "move" => /\ job.to \in Slots \ {job.from}
                            /\ ident[job.to] = NoOne
  BY <1>1 DEF SafeInv, JobInv, NumberingInv, Registered, Vacant
<1>4. \A s, t \in Slots :
         s \in Registered /\ t \in Registered /\ ident[s] = ident[t] => s = t
  BY DEF SafeInv, TypeOK, Registered
<1>5. \A s, t \in Registered' : ident'[s] = ident'[t] => s = t
  <2>1. CASE job.op = "swap"
    BY <1>1, <1>3, <1>4, <2>1, NextIdentIs DEF Registered
  <2>2. CASE job.op = "move"
    BY <1>1, <1>3, <1>4, <2>2, NextIdentIs DEF Registered
  <2>3. CASE job.op = "remove"
    BY <1>1, <1>3, <1>4, <2>3, NextIdentIs, NoJobIs DEF Registered
  <2>4. QED BY <1>1, <2>1, <2>2, <2>3 DEF Numbering
<1>6. RegistryLoads'
  <2>1. SUFFICES ASSUME active' # 0 PROVE ident'[active'] # NoOne
    BY DEF RegistryLoads
  <2>2. active \in Slots /\ ident[active] # NoOne /\ active' = NewNumber(active)
    BY <1>1, <2>1, NoJobIs DEF SafeInv, TypeOK, RegistryLoads, Remapped
  <2>3. CASE active = job.from
    <3>1. active' = job.to
      BY <2>2, <2>3, Zenon DEF NewNumber
    <3>2. QED BY <1>1, <1>3, <2>1, <3>1, NextIdentIs DEF Numbering
  <2>4. CASE active # job.from /\ active = job.to /\ job.op = "swap"
    <3>1. active' = job.from
      BY <2>2, <2>4, Zenon DEF NewNumber
    <3>2. QED BY <1>1, <1>3, <2>4, <3>1, NextIdentIs
  <2>5. CASE active # job.from /\ ~(active = job.to /\ job.op = "swap")
    <3>1. active' = active
      BY <2>2, <2>5, Zenon DEF NewNumber
    <3>2. active # job.to
      BY <1>1, <1>3, <2>2, <2>5, NoJobIs DEF Numbering
    <3>3. QED BY <1>1, <2>2, <2>5, <3>1, <3>2, NextIdentIs
  <2>6. QED BY <2>3, <2>4, <2>5
<1>7. JobInv' /\ NoJob \in Jobs
  BY <1>1, JobFree, NoJobIs
<1>8. QED BY <1>1, <1>2, <1>5, <1>6, <1>7 DEF SafeInv, TypeOK, RefsInv

(* Entries that an operation brings in are registered beside the others.   *)
LEMMA RegisterIs ==
  ASSUME SafeInv, Register, job.op \in Loading
  PROVE  /\ ident' \in [Slots -> Someone]
         /\ \A s \in Slots :
               /\ Loaded(s) => ident'[s] = job.load[s]
               /\ ~Loaded(s) => ident'[s] = ident[s]
         /\ \A s \in Slots : ident[s] # NoOne \/ Loaded(s) <=> ident'[s] # NoOne
         /\ \A s, t \in Registered' : ident'[s] = ident'[t] => s = t
<1>1. /\ ident \in [Slots -> Someone] /\ job.load \in [Slots -> Someone]
      /\ \A s, t \in Slots : ident[s] # NoOne /\ ident[s] = ident[t] => s = t
  BY DEF SafeInv, TypeOK, Jobs, Loads, Registered
<1>2. \A s, t \in Slots :
         Loaded(s) /\ job.load[s] \in {job.load[t], ident[t]} => s = t
  BY DEF SafeInv, JobInv, LoadingInv
<1>3. ident' = [s \in Slots |-> IF Loaded(s) THEN job.load[s] ELSE ident[s]]
  BY DEF Register
<1>4. \A s \in Slots : /\ Loaded(s) => ident'[s] = job.load[s]
                       /\ ~Loaded(s) => ident'[s] = ident[s]
  BY <1>3
<1>5. \A s \in Slots : Loaded(s) <=> job.load[s] # NoOne
  BY DEF Loaded
<1>6. ident' \in [Slots -> Someone]
  BY <1>1, <1>3
<1>7. ASSUME NEW s \in Slots, NEW t \in Slots,
             ident'[s] # NoOne, ident'[s] = ident'[t]
      PROVE  s = t
  BY <1>1, <1>2, <1>4, <1>7
<1>8. \A s, t \in Registered' : ident'[s] = ident'[t] => s = t
  BY <1>7 DEF Registered
<1>9. QED BY <1>4, <1>5, <1>6, <1>8

LEMMA SaveLoadedKeeps ==
  ASSUME SafeInv, SaveAdded \/ SaveActive \/ SaveImported
  PROVE  SafeInv'
<1>1. /\ job \in Jobs /\ JobInv /\ job.op \in Loading /\ job.carried = NoOne
  BY DEF SafeInv, JobInv, TypeOK, SaveAdded, SaveActive, SaveImported, At,
         Loading
<1>2. UNCHANGED <<home, parked, usage, mapping, refs, clean, promised, faults>>
  BY DEF SaveAdded, SaveActive, SaveImported
<1>3. CASE Finished
  <2>1. JobInv' /\ job' \in Jobs
    BY <1>3, JobFree, NoJobIs DEF Finished
  <2>2. CASE SaveActive
    <3>1. active' \in Slots /\ ident[active'] # NoOne /\ ident' = ident
      BY <1>1, <2>2 DEF SaveActive, At, JobInv, LoadingInv, Loaded
    <3>2. QED BY <1>2, <2>1, <3>1
              DEF SafeInv, TypeOK, RefsInv, RegistryLoads, Registered
  <2>3. CASE SaveAdded \/ SaveImported
    <3>1. Register
      BY <2>3 DEF SaveAdded, SaveImported
    <3>2. \/ active' = active
          \/ active' \in Slots /\ Loaded(active')
      BY <2>3 DEF SaveAdded, SaveImported
    <3>3. active' \in Slots \cup {0} /\ (active' # 0 => ident'[active'] # NoOne)
      BY <1>1, <3>1, <3>2, RegisterIs DEF SafeInv, TypeOK, RegistryLoads
    <3>4. QED BY <1>1, <1>2, <2>1, <3>1, <3>3, RegisterIs
              DEF SafeInv, TypeOK, RefsInv, RegistryLoads
  <2>4. QED BY <2>2, <2>3
<1>4. CASE SaveAdded /\ Goto("activate")
  <2>1. job' = [job EXCEPT !.stage = "activate", !.carried = NoOne]
    BY <1>1, <1>4 DEF Goto, Jobs
  <2>2. /\ job' \in Jobs /\ job'.op = job.op /\ job'.stage = "activate"
        /\ job'.from = job.from /\ job'.to = job.to
        /\ job'.load = job.load /\ job'.carried = NoOne
    <3>1. "activate" \in Stages /\ NoOne \in Someone
      BY DEF Stages, Someone
    <3>2. QED BY <1>1, <2>1, <3>1, GotoIs
  <2>3. Register /\ job.op = "add" /\ active' = active
    BY <1>4 DEF SaveAdded, At
  <2>4. LoadingInv'
    <3>1. /\ \A s, t \in Slots :
                Loaded(s) /\ job.load[s] \in {job.load[t], ident[t]} => s = t
          /\ job.from \in Slots
          /\ \A s \in Slots : Loaded(s) <=> s = job.from
      BY <1>1, <2>3 DEF JobInv, LoadingInv
    <3>2. \A s \in Slots : Loaded(s)' <=> Loaded(s)
      BY <2>2 DEF Loaded
    <3>3. QED BY <1>1, <2>2, <2>3, <3>1, <3>2, RegisterIs DEF LoadingInv
  <2>5. JobInv'
    BY <2>2, <2>3, <2>4 DEF JobInv, NumberingInv, Numbering, StagesOf
  <2>6. active' # 0 => ident'[active'] # NoOne
    BY <1>1, <2>3, RegisterIs DEF SafeInv, TypeOK, RegistryLoads
  <2>7. QED BY <1>1, <1>2, <2>2, <2>3, <2>5, <2>6, RegisterIs
            DEF SafeInv, TypeOK, RefsInv, RegistryLoads
<1>5. QED BY <1>3, <1>4 DEF SaveAdded, SaveActive, SaveImported

-----------------------------------------------------------------------------
(* Failures.                                                               *)
LEMMA FaultKeeps ==
  ASSUME SafeInv, RenameFails \/ Crash \/ Quarantine
  PROVE  SafeInv'
<1>1. faults' \in 0..MaxFaults
  BY RegistryAssumption
     DEF SafeInv, TypeOK, Fault, RenameFails, Crash, Quarantine
<1>2. CASE Quarantine
  <2>1. JobInv'
    BY <1>2, JobFree DEF Quarantine, Free
  <2>2. QED BY <1>1, <1>2, <2>1
            DEF SafeInv, TypeOK, RefsInv, RegistryLoads, Quarantine, Someone,
                Registered
<1>3. CASE RenameFails \/ Crash
  <2>1. /\ job' = NoJob
        /\ UNCHANGED <<ident, active, usage, mapping, refs, promised>>
    BY <1>3 DEF RenameFails, Crash, Finished
  <2>2. /\ JobInv' /\ NoJob \in Jobs
    BY <2>1, JobFree, NoJobIs
  <2>3. /\ home \in [Slots -> Someone] /\ job.carried \in Someone
        /\ NoOne \in Someone /\ clean \in BOOLEAN /\ parked \subseteq Entries
    BY DEF SafeInv, TypeOK, Jobs, Someone
  <2>4. home' \in [Slots -> Someone]
    <3>1. Restored \in [Slots -> Someone]
      <4>1. CASE job.stage = "in"
        <5>1. job.from \in Slots /\ job.to \in Slots
          BY <4>1 DEF SafeInv, JobInv, NumberingInv, Numbering, StagesOf,
                      Registered
        <5>2. QED BY <2>3, <4>1, <5>1 DEF Restored
      <4>2. CASE job.stage # "in"
        BY <2>3, <4>2 DEF Restored
      <4>3. QED BY <4>1, <4>2
    <3>2. \/ home' = home \/ home' = Restored
          \/ home' = [Restored EXCEPT ![job.from] = NoOne]
      BY <1>3 DEF RenameFails, Crash
    <3>3. QED BY <2>3, <3>1, <3>2
  <2>5. parked' \subseteq Entries /\ clean' \in BOOLEAN
    <3>1. \/ UNCHANGED <<parked, clean>>
          \/ CutOff
      BY <1>3 DEF RenameFails, Crash
    <3>2. Left(job.carried) \subseteq Entries
      BY <2>3 DEF Left, Someone
    <3>3. (clean /\ HomesMatch' /\ OwnersMatch) \in BOOLEAN
      OBVIOUS
    <3>4. QED BY <2>3, <3>1, <3>2, <3>3 DEF CutOff
  <2>6. QED BY <1>1, <2>1, <2>2, <2>4, <2>5
            DEF SafeInv, TypeOK, RefsInv, RegistryLoads, Registered
<1>4. QED BY <1>2, <1>3

LEMMA SafeStep == SafeInv /\ [Next]_vars => SafeInv'
<1>1. SUFFICES ASSUME SafeInv, [Next]_vars PROVE SafeInv'
  OBVIOUS
<1>2. ASSUME NEW c \in Commands, Command(c) PROVE SafeInv'
  BY <1>1, <1>2, CommandKeeps, MappingKeeps, BeginNumbersKeeps DEF Command
<1>3. ASSUME Work PROVE SafeInv'
  BY <1>1, <1>3, SwapKeeps, HomeKeeps, WriteAuthKeeps, WriteCacheKeeps,
     WriteMappingsKeeps, SaveNumbersKeeps, SaveLoadedKeeps DEF Work
<1>4. CASE UNCHANGED vars
  BY <1>1, <1>4, JobKept
     DEF SafeInv, TypeOK, RefsInv, RegistryLoads, vars, disk, ghosts,
         Registered
<1>5. QED BY <1>1, <1>2, <1>3, <1>4, BeginAddKeeps, BeginImportKeeps,
             MappingKeeps, FaultKeeps DEF Next

LEMMA SafeAlways == Spec => []SafeInv
BY SafeInit, SafeStep, PTL DEF Spec

(* Every variable of store.py's model has its type, and no entry is ever   *)
(* registered in two slots.                                                *)
THEOREM RegistryTypeCorrect == Spec => []TypeOK
BY SafeAlways, PTL DEF SafeInv

(* Whatever fails and whenever a process dies, accounts.json is never left *)
(* with an activeSlot that load() would reject.                            *)
THEOREM RegistryAlwaysLoads == Spec => []RegistryLoads
BY SafeAlways, PTL DEF SafeInv

-----------------------------------------------------------------------------
(* Credentials.                                                            *)

(* A rename, or a rename undone, takes the place of no other home.         *)
LEMMA RenamesLoseNothing ==
  ASSUME SafeInv, job.op \in {"swap", "move"},
         SwapOut \/ SwapOver \/ SwapIn \/ MoveHome
  PROVE  Credentials \subseteq Credentials'
<1>1. /\ job \in Jobs /\ home \in [Slots -> Someone]
      /\ job.from \in Slots /\ job.to \in Slots /\ job.from # job.to
      /\ job.stage \in {"rename", "in"} => home[job.to] = NoOne
      /\ job.stage = "over" => home[job.from] = NoOne
      /\ job.carried # NoOne => job.stage \in {"over", "in"}
  BY DEF SafeInv, TypeOK, JobInv, NumberingInv, Numbering, Registered, Vacant
<1>2. parked' = parked
  BY DEF SwapOut, SwapOver, SwapIn, MoveHome
<1>3. ASSUME NEW s \in Slots, home[s] # NoOne
      PROVE  home[s] \in Credentials'
  <2>1. job'.carried = home[s] \/ \E t \in Slots : home'[t] = home[s]
    BY <1>1, <1>3 DEF SwapOut, SwapOver, SwapIn, MoveHome, At, Goto, Jobs
  <2>2. QED BY <1>3, <2>1 DEF Credentials
<1>4. ASSUME job.carried # NoOne
      PROVE  job.carried \in Credentials'
  <2>1. job'.carried = job.carried \/ \E t \in Slots : home'[t] = job.carried
    BY <1>1, <1>4 DEF SwapOut, SwapOver, SwapIn, MoveHome, At, Goto, Jobs
  <2>2. QED BY <1>4, <2>1 DEF Credentials
<1>5. QED BY <1>2, <1>3, <1>4 DEF Credentials

(* What is not put back stays in the temporary directory.                  *)
LEMMA FailuresLoseNothing ==
  ASSUME SafeInv, job.op \in {"swap", "move"}, RenameFails \/ Crash
  PROVE  Credentials \subseteq Credentials'
<1>1. /\ job \in Jobs /\ home \in [Slots -> Someone]
      /\ job.from \in Slots /\ job.to \in Slots /\ job.from # job.to
      /\ job.stage = "in" => home[job.to] = NoOne
      /\ job.stage = "over" => home[job.from] = NoOne
      /\ job.carried # NoOne => job.stage \in {"over", "in"}
      /\ job.op = "move" => job.stage \notin {"over", "in"}
  BY DEF SafeInv, TypeOK, JobInv, NumberingInv, Numbering, Registered, Vacant,
         StagesOf
<1>2. job'.carried = NoOne
  BY NoJobIs DEF RenameFails, Crash, Finished
<1>3. parked \subseteq parked'
  BY DEF RenameFails, Crash, CutOff, Left
<1>4. CASE CutOff /\ home' = home
  BY <1>4 DEF Credentials, CutOff, Left
<1>5. CASE job.stage = "in" /\ CutOff
           /\ home' = [Restored EXCEPT ![job.from] = NoOne]
  <2>1. home' = [[home EXCEPT ![job.to] = home[job.from],
                              ![job.from] = job.carried]
                    EXCEPT ![job.from] = NoOne]
    BY <1>5 DEF Restored
  <2>2. /\ home'[job.to] = home[job.from]
        /\ \A s \in Slots \ {job.from, job.to} : home'[s] = home[s]
    BY <1>1, <2>1
  <2>3. ASSUME NEW s \in Slots, home[s] # NoOne
        PROVE  \E t \in Slots : home'[t] = home[s]
    BY <1>1, <1>5, <2>2, <2>3
  <2>4. job.carried # NoOne => job.carried \in parked'
    BY <1>5 DEF CutOff, Left
  <2>5. QED BY <1>3, <2>3, <2>4 DEF Credentials
<1>6. CASE job.op = "swap" /\ home' = Restored
  <2>1. ASSUME NEW e, e # NoOne,
               e = job.carried \/ \E s \in Slots : e = home[s]
        PROVE  \E t \in Slots : e = home'[t]
    <3>1. CASE job.stage = "in"
      BY <1>1, <1>6, <2>1, <3>1 DEF Restored
    <3>2. CASE job.stage = "over"
      BY <1>1, <1>6, <2>1, <3>2 DEF Restored
    <3>3. CASE job.stage \notin {"over", "in"}
      <4>1. home' = home
        BY <1>1, <1>6, <3>3 DEF Restored
      <4>2. QED BY <1>1, <2>1, <3>3, <4>1
    <3>4. QED BY <3>1, <3>2, <3>3
  <2>2. QED BY <1>3, <2>1 DEF Credentials
<1>7. CASE job.op = "move" /\ home' = home
  BY <1>1, <1>3, <1>7 DEF Credentials
<1>8. QED BY <1>4, <1>5, <1>6, <1>7 DEF RenameFails, Crash

LEMMA OthersLoseNothing ==
  ASSUME SafeInv, job.op \in {"swap", "move"}, UNCHANGED <<home, parked>>,
         job'.carried = job.carried \/ job.stage \notin {"over", "in"}
  PROVE  Credentials \subseteq Credentials'
<1>1. job'.carried = job.carried \/ job.carried = NoOne
  BY DEF SafeInv, JobInv
<1>2. QED BY <1>1 DEF Credentials

(* swap and move destroy no credential, wherever a rename fails and        *)
(* wherever the process dies (swap_slots, move_slot).                      *)
THEOREM CredentialsAlwaysSurvive == Spec => CredentialsSurvive
<1>1. ASSUME SafeInv, job.op \in {"swap", "move"}, [Next]_vars
      PROVE  Credentials \subseteq Credentials'
  <2>1. ~Free /\ job \in Jobs
    BY <1>1, NoJobIs DEF Free, SafeInv, TypeOK
  <2>2. ASSUME NEW c \in Commands, Command(c)
        PROVE  Credentials \subseteq Credentials'
    <3>1. UNCHANGED <<home, parked, job>>
      BY <2>1, <2>2 DEF Command, Resolve, NotFound, RecordUsage, ForgetUsage,
                        Activate, SetMapping, BeginRemove, BeginSwap,
                        BeginMove, MoveRefused, Holding, disk
    <3>2. QED BY <3>1 DEF Credentials
  <2>3. CASE \/ \E e \in Entries : BeginAdd(e)
             \/ BeginImport \/ Quarantine
             \/ \E d \in Dirs : RemoveMapping(d)
    BY <2>1, <2>3 DEF BeginAdd, BeginImport, Begin, Quarantine, RemoveMapping
  <2>4. CASE WriteCache \/ WriteMappings \/ SaveNumbers
    <3>1. UNCHANGED <<home, parked>> /\ job.stage \notin {"over", "in"}
      BY <2>4 DEF WriteCache, WriteMappings, SaveNumbers, At
    <3>2. QED BY <1>1, <3>1, OthersLoseNothing
  <2>5. CASE \/ \E s \in Slots : WriteAuth(s)
             \/ RemoveHome \/ SaveAdded \/ SaveActive \/ SaveImported
    <3>1. job.stage # "write"
      BY <1>1 DEF SafeInv, JobInv, StagesOf
    <3>2. QED BY <1>1, <2>5, <3>1
              DEF WriteAuth, RemoveHome, SaveAdded, SaveActive, SaveImported,
                  At
  <2>6. CASE UNCHANGED vars
    BY <2>6 DEF vars, disk, Credentials
  <2>7. QED BY <1>1, <2>2, <2>3, <2>4, <2>5, <2>6, RenamesLoseNothing,
               FailuresLoseNothing DEF Next, Work
<1>2. SafeInv /\ [Next]_vars
      => [job.op \in {"swap", "move"} => Credentials \subseteq Credentials']_vars
  BY <1>1
<1>3. QED BY <1>2, SafeAlways, PTL DEF CredentialsSurvive, Spec

-----------------------------------------------------------------------------
(***************************************************************************)
(* The refinement of AccountTable.                                         *)
(***************************************************************************)

(* A registry in which no entry is registered twice.                       *)
Injective(i) ==
    /\ i \in [Slots -> Someone]
    /\ \A s, t \in Slots : i[s] # NoOne /\ i[s] = i[t] => s = t

LEMMA IdentInjective == SafeInv => Injective(ident)
BY DEF SafeInv, TypeOK, Injective, Registered

LEMMA PlacesIs ==
  ASSUME NEW i, Injective(i), NEW e \in Entries
  PROVE  /\ Places(i)[e] \in Slots \cup {0}
         /\ \A s \in Slots : Places(i)[e] = s <=> i[s] = e
         /\ Places(i)[e] = 0 <=> \A s \in Slots : i[s] # e
<1>1. e # NoOne /\ 0 \notin Slots
  BY RegistryAssumption
<1>2. CASE \E s \in Slots : i[s] = e
  <2>1. Places(i)[e] \in Slots /\ i[Places(i)[e]] = e
    BY <1>2 DEF Places
  <2>2. QED BY <1>1, <2>1 DEF Injective
<1>3. CASE ~\E s \in Slots : i[s] = e
  BY <1>1, <1>3 DEF Places
<1>4. QED BY <1>2, <1>3

(* With every home its slot's own, the table shows the registry.           *)
LEMMA ViewIs ==
  SafeInv /\ HomesMatch =>
     /\ View.where = Places(ident)
     /\ View.inUse = EntryAt(active)
     /\ View.owner = [d \in Dirs |-> EntryAt(mapping[d])]
     /\ DOMAIN View = {"where", "inUse", "owner"}
<1>1. SUFFICES ASSUME SafeInv, HomesMatch
               PROVE  View.where = Places(ident)
  BY DEF View
<1>2. ASSUME NEW e \in Entries PROVE SlotOf(e) = Places(ident)[e]
  <2>1. ASSUME NEW s \in Slots, ident[s] = e PROVE home[s] = e
    BY <1>1, <2>1, RegistryAssumption DEF HomesMatch, Registered
  <2>2. QED BY <2>1 DEF SlotOf, Places
<1>3. QED BY <1>2 DEF View, Places

LEMMA TableInit == Init => TableInv
<1>1. SUFFICES ASSUME Init PROVE HomesInv /\ WasInv
  BY DEF TableInv
<1>2. HomesMatch /\ job = NoJob /\ Free
  BY <1>1 DEF Init, HomesMatch, Registered, Free
<1>3. QED BY <1>2, NoJobIs DEF HomesInv, WasInv, Numbering

(* Nothing of an operation that is under way changes.                      *)
LEMMA TableKept ==
  ASSUME TableInv, UNCHANGED <<disk, job, was, clean>>
  PROVE  TableInv'
BY DEF TableInv, HomesInv, WasInv, disk, HomesMatchNext, NextIdent, HomesMatch,
       Registered, Loaded, Written, Free, EntryAt, Places, OwnersMatch,
       Remapped, NewNumber

(* No operation is under way.                                              *)
LEMMA TableFree ==
  ASSUME job' = NoJob, clean' => HomesMatch'
  PROVE  TableInv'
BY NoJobIs DEF TableInv, HomesInv, WasInv, Free, Numbering

LEMMA TableCommands ==
  ASSUME SafeInv, TableInv,
         \/ \E c \in Commands :
               \/ NotFound(c) \/ RecordUsage(c) \/ ForgetUsage(c) \/ Activate(c)
               \/ MoveRefused(c) \/ Resolve(c)
               \/ \E d \in Dirs : SetMapping(c, d)
         \/ \E d \in Dirs : RemoveMapping(d)
  PROVE  TableInv'
<1>1. CASE \E c \in Commands : Resolve(c)
  BY <1>1, TableKept DEF Resolve, ghosts
<1>2. CASE ~\E c \in Commands : Resolve(c)
  <2>1. /\ Free /\ UNCHANGED <<ident, home, job, clean>>
    BY <1>2 DEF NotFound, RecordUsage, ForgetUsage, Activate, MoveRefused,
                SetMapping, RemoveMapping, Holding, disk, ghosts
  <2>2. clean => HomesMatch
    BY <2>1, NoJobIs DEF TableInv, HomesInv, Free
  <2>3. QED BY <2>1, <2>2, TableFree DEF Free, HomesMatch, Registered
<1>3. QED BY <1>1, <1>2

LEMMA FreeHomesMatch == TableInv /\ Free /\ clean => HomesMatch
BY NoJobIs DEF TableInv, HomesInv, Free

LEMMA TableBegins ==
  ASSUME SafeInv, TableInv, SafeInv',
         \/ \E c \in Commands : BeginRemove(c) \/ BeginSwap(c) \/ BeginMove(c)
         \/ \E e \in Entries : BeginAdd(e)
         \/ BeginImport
  PROVE  TableInv'
<1>1. PICK op, stage, s, t, l :
         /\ Begin(op, stage, s, t, l)
         /\ \/ op \in Numbering /\ stage \in {"out", "rename", "rmtree"}
            \/ op \in Loading /\ stage = "write"
  BY DEF BeginRemove, BeginSwap, BeginMove, BeginAdd, BeginImport, Numbering,
         Loading
<1>2. /\ Free /\ was' = View /\ UNCHANGED <<disk, clean>>
      /\ job'.op = op /\ job'.stage = stage
  BY <1>1 DEF Begin
<1>3. SUFFICES ASSUME clean PROVE HomesInv' /\ WasInv'
  BY <1>2 DEF TableInv
<1>4. HomesMatch
  BY <1>2, <1>3, FreeHomesMatch
<1>5. HomesInv'
  BY <1>1, <1>2, <1>4
     DEF HomesInv, HomesMatch, Registered, disk, Numbering, Loading
<1>6. WasInv'
  <2>1. /\ was'.where = Places(ident) /\ was'.inUse = EntryAt(active)
        /\ was'.owner = [d \in Dirs |-> EntryAt(mapping[d])]
        /\ DOMAIN was' = {"where", "inUse", "owner"}
    BY <1>2, <1>4, ViewIs
  <2>2. job'.stage # "activate" /\ job'.stage # "save"
    BY <1>1, <1>2
  <2>3. UNCHANGED <<ident, active, mapping>>
    BY <1>2 DEF disk
  <2>4. QED BY <2>1, <2>2, <2>3 DEF WasInv, EntryAt, Places
<1>7. QED BY <1>5, <1>6

-----------------------------------------------------------------------------
(* The steps of an operation, as far as the table goes.                    *)
LEMMA WasKept ==
  ASSUME WasInv, ~Free, UNCHANGED <<ident, active, mapping, was>>,
         job'.op = job.op,
         job.stage # "activate", job'.stage # "activate",
         job.op \in Numbering => job.stage # "save" /\ job'.stage # "save"
  PROVE  WasInv'
<1>1. /\ DOMAIN was = {"where", "inUse", "owner"}
      /\ was.inUse = EntryAt(active) /\ was.where = Places(ident)
      /\ was.owner = [d \in Dirs |-> EntryAt(mapping[d])]
  BY DEF WasInv
<1>2. QED BY <1>1 DEF WasInv, EntryAt, Places

(* What the operation on numbers that is under way works on.               *)
LEMMA NumberingIs ==
  ASSUME SafeInv, job.op \in Numbering
  PROVE  /\ ~Free /\ job \in Jobs
         /\ job.from \in Slots /\ ident[job.from] # NoOne
         /\ home \in [Slots -> Someone] /\ job.from # job.to
         /\ job.op = "remove" => job.to = 0
         /\ job.op = "swap" => job.to \in Slots /\ ident[job.to] # NoOne
         /\ job.op = "move" => job.to \in Slots /\ ident[job.to] = NoOne
BY NoJobIs DEF SafeInv, TypeOK, JobInv, NumberingInv, Numbering, Registered,
               Vacant, Free

(* The registry to come, as long as the operation is the same.             *)
LEMMA NextIdentKept ==
  ASSUME ident' = ident, job'.op = job.op, job'.from = job.from,
         job'.to = job.to
  PROVE  NextIdent' = NextIdent
BY DEF NextIdent

LEMMA TableRenames ==
  ASSUME SafeInv, TableInv, SafeInv',
         SwapOut \/ SwapOver \/ SwapIn \/ MoveHome \/ RemoveHome
  PROVE  TableInv'
<1>1. job.op \in Numbering /\ UNCHANGED <<ident, active, mapping, was, clean>>
  BY DEF SwapOut, SwapOver, SwapIn, MoveHome, RemoveHome, At, ghosts,
         Numbering
<1>2. /\ job'.op = job.op /\ job'.from = job.from /\ job'.to = job.to
      /\ job.stage \in {"out", "over", "in", "rename", "rmtree"}
      /\ job'.stage \in {"over", "in", "cache"}
  BY <1>1, NumberingIs
     DEF SwapOut, SwapOver, SwapIn, MoveHome, RemoveHome, At, Goto, Jobs
<1>3. SUFFICES ASSUME clean PROVE HomesInv' /\ WasInv'
  BY <1>1 DEF TableInv
<1>4. HomesInv /\ WasInv
  BY <1>3 DEF TableInv
<1>5. WasInv'
  BY <1>1, <1>2, <1>4, NumberingIs, WasKept
<1>6. CASE SwapOut
  <2>1. /\ HomesMatch /\ job'.stage = "over" /\ job'.carried = home[job.from]
        /\ home' = [home EXCEPT ![job.from] = NoOne] /\ job.op = "swap"
    BY <1>1, <1>4, <1>6, NumberingIs DEF HomesInv, SwapOut, At, Jobs
  <2>2. HomesInv'
    BY <1>1, <1>2, <2>1, NumberingIs DEF HomesInv, HomesMatch, Registered
  <2>3. QED BY <1>5, <2>2
<1>7. CASE SwapOver
  <2>1. /\ job.carried = ident[job.from] /\ job'.carried = job.carried
        /\ \A s \in Registered \ {job.from} : home[s] = ident[s]
        /\ job'.stage = "in" /\ job.op = "swap"
        /\ home' = [home EXCEPT ![job.from] = home[job.to],
                                ![job.to] = NoOne]
    BY <1>1, <1>4, <1>7, NumberingIs DEF HomesInv, SwapOver, At, Goto, Jobs
  <2>2. HomesInv'
    BY <1>1, <1>2, <2>1, NumberingIs DEF HomesInv, Registered
  <2>3. QED BY <1>5, <2>2
<1>8. HomesMatchNext' => HomesInv' \/ job'.stage # "cache"
  BY <1>1, <1>2 DEF HomesInv, Numbering
<1>9. ASSUME NEW h, home' = h,
             \A s \in Slots : NextIdent[s] # NoOne => h[s] = NextIdent[s]
      PROVE  HomesMatchNext'
  BY <1>1, <1>2, <1>9, NextIdentKept DEF HomesMatchNext
<1>10. CASE SwapIn
  <2>1. /\ job.carried = ident[job.from] /\ home[job.from] = ident[job.to]
        /\ \A s \in Registered \ {job.from, job.to} : home[s] = ident[s]
        /\ job'.stage = "cache" /\ job.op = "swap"
        /\ home' = [home EXCEPT ![job.to] = job.carried]
    BY <1>1, <1>4, <1>10, NumberingIs DEF HomesInv, SwapIn, At, Jobs
  <2>2. ASSUME NEW s \in Slots, NextIdent[s] # NoOne
        PROVE  home'[s] = NextIdent[s]
    BY <1>1, <2>1, <2>2, NumberingIs, NextIdentIs DEF Registered
  <2>3. QED BY <1>5, <1>8, <1>9, <2>1, <2>2
<1>11. CASE MoveHome
  <2>1. /\ HomesMatch /\ job'.stage = "cache" /\ job.op = "move"
        /\ home' = [home EXCEPT ![job.to] = home[job.from],
                                ![job.from] = NoOne]
    BY <1>1, <1>4, <1>11, NumberingIs DEF HomesInv, MoveHome, At, Goto, Jobs
  <2>2. ASSUME NEW s \in Slots, NextIdent[s] # NoOne
        PROVE  home'[s] = NextIdent[s]
    BY <1>1, <2>1, <2>2, NumberingIs, NextIdentIs DEF HomesMatch, Registered
  <2>3. QED BY <1>5, <1>8, <1>9, <2>1, <2>2
<1>12. CASE RemoveHome
  <2>1. /\ HomesMatch /\ job'.stage = "cache" /\ job.op = "remove"
        /\ \A s \in Slots \ {job.from} : home'[s] = home[s]
    BY <1>1, <1>4, <1>12, NumberingIs
       DEF HomesInv, RemoveHome, At, Goto, Jobs
  <2>2. ASSUME NEW s \in Slots, NextIdent[s] # NoOne
        PROVE  home'[s] = NextIdent[s]
    BY <1>1, <2>1, <2>2, NumberingIs, NextIdentIs, NoJobIs
       DEF HomesMatch, Registered
  <2>3. QED BY <1>5, <1>8, <1>9, <2>1, <2>2
<1>13. QED BY <1>6, <1>7, <1>10, <1>11, <1>12

LEMMA TableWrites ==
  ASSUME SafeInv, TableInv, SafeInv',
         (\E s \in Slots : WriteAuth(s)) \/ WriteCache \/ WriteMappings
  PROVE  TableInv'
<1>1. /\ job \in Jobs /\ JobInv /\ home \in [Slots -> Someone]
      /\ UNCHANGED <<ident, active, was, clean>>
  BY DEF SafeInv, TypeOK, WriteAuth, WriteCache, WriteMappings, ghosts
<1>2. SUFFICES ASSUME clean PROVE HomesInv' /\ WasInv'
  BY <1>1 DEF TableInv
<1>3. HomesInv /\ WasInv
  BY <1>2 DEF TableInv
<1>4. ASSUME NEW s \in Slots, WriteAuth(s)
      PROVE  HomesInv' /\ WasInv'
  <2>1. /\ UNCHANGED <<job, mapping>> /\ job.stage = "write"
        /\ job.op \in Loading /\ job.op \notin Numbering /\ ~Free
        /\ Loaded(s) /\ home' = [home EXCEPT ![s] = job.load[s]]
    BY <1>1, <1>4, NoJobIs
       DEF WriteAuth, JobInv, StagesOf, Loading, Numbering, Free
  <2>2. CASE job.op = "add"
    <3>1. HomesMatch /\ s = job.from /\ ident[s] \in {NoOne, job.load[s]}
      BY <1>1, <1>3, <2>1, <2>2 DEF HomesInv, JobInv, LoadingInv
    <3>2. HomesMatch'
      BY <1>1, <2>1, <3>1 DEF HomesMatch, Registered
    <3>3. QED BY <1>1, <1>3, <2>1, <2>2, <3>2, WasKept DEF HomesInv
  <2>3. CASE job.op = "import"
    <3>1. \A t \in Registered : home'[t] = ident[t]
                                \/ (Loaded(t) /\ home'[t] = job.load[t])
      BY <1>1, <1>3, <2>1, <2>3 DEF HomesInv, Registered
    <3>2. HomesInv'
      BY <1>1, <2>1, <2>3, <3>1 DEF HomesInv, Registered, Loaded
    <3>3. QED BY <1>1, <1>3, <2>1, <2>3, <3>2, WasKept
  <2>4. QED BY <2>1, <2>2, <2>3 DEF Loading
<1>5. CASE WriteCache
  <2>1. CASE job.op = "import"
    <3>1. /\ UNCHANGED <<home, mapping>> /\ Written /\ ~Free
          /\ job.stage = "write"
      BY <1>1, <1>5, <2>1, NoJobIs
         DEF WriteCache, At, JobInv, StagesOf, Free
    <3>2. /\ job'.op = "import" /\ job'.stage = "save"
          /\ job'.load = job.load
      BY <1>1, <1>5, <2>1 DEF WriteCache, Goto, Jobs
    <3>3. WasInv'
      BY <1>1, <1>3, <2>1, <3>1, <3>2, WasKept DEF Numbering
    <3>4. HomesInv'
      BY <1>1, <1>3, <2>1, <3>1, <3>2
         DEF HomesInv, Registered, Loaded, Written, Numbering
    <3>5. QED BY <3>3, <3>4
  <2>2. CASE job.op # "import"
    <3>1. /\ UNCHANGED <<home, mapping>> /\ job.stage = "cache"
          /\ Goto("mappings")
      BY <1>5, <2>2 DEF WriteCache, At
    <3>2. job.op \in Numbering
      BY <1>1, <2>2, <3>1, Zenon DEF JobInv, StagesOf, Numbering
    <3>3. /\ job'.op = job.op /\ job'.from = job.from /\ job'.to = job.to
          /\ job'.stage = "mappings"
      BY <1>1, <3>1 DEF Goto, Jobs
    <3>4. WasInv'
      BY <1>1, <1>3, <3>1, <3>2, <3>3, NumberingIs, WasKept
    <3>5. HomesMatchNext'
      BY <1>1, <1>3, <3>1, <3>2, <3>3, NextIdentKept
         DEF HomesInv, HomesMatchNext
    <3>6. QED BY <1>1, <3>2, <3>3, <3>4, <3>5 DEF HomesInv, Numbering
  <2>3. QED BY <2>1, <2>2
<1>6. CASE WriteMappings
  <2>1. job.stage = "mappings" /\ home' = home /\ Goto("save")
        /\ mapping' = [d \in Dirs |-> Remapped(mapping[d])]
    BY <1>6 DEF WriteMappings
  <2>2. job.op \in Numbering
    BY <1>1, <2>1, Zenon DEF JobInv, StagesOf, Numbering
  <2>3. /\ job'.op = job.op /\ job'.from = job.from /\ job'.to = job.to
        /\ job'.stage = "save"
    BY <1>1, <2>1 DEF Goto, Jobs
  <2>4. HomesMatchNext'
    BY <1>1, <1>3, <2>1, <2>2, <2>3, NextIdentKept
       DEF HomesInv, HomesMatchNext
  <2>5. HomesInv'
    BY <1>1, <2>2, <2>3, <2>4 DEF HomesInv, Numbering
  <2>6. /\ DOMAIN was = {"where", "inUse", "owner"}
        /\ was.inUse = EntryAt(active) /\ was.where = Places(ident)
        /\ was.owner = [d \in Dirs |-> EntryAt(mapping[d])]
    BY <1>3, <2>1, <2>2, NumberingIs DEF WasInv
  <2>7. \A m : Remapped(m)' = Remapped(m) /\ EntryAt(m)' = EntryAt(m)
    BY <1>1, <2>3 DEF Remapped, NewNumber, EntryAt
  <2>8. ASSUME NEW d \in Dirs
        PROVE  \E m \in Slots \cup {0} :
                  was'.owner[d] = EntryAt(m)' /\ mapping'[d] = Remapped(m)'
    <3>1. /\ mapping[d] \in Slots \cup {0} /\ was'.owner[d] = EntryAt(mapping[d])
          /\ mapping'[d] = Remapped(mapping[d])
      BY <1>1, <2>1, <2>6 DEF SafeInv, TypeOK
    <3>2. QED BY <2>7, <3>1
  <2>9. WasInv'
    BY <1>1, <2>2, <2>3, <2>6, <2>8 DEF WasInv, EntryAt, Places
  <2>10. QED BY <2>5, <2>9
<1>7. QED BY <1>4, <1>5, <1>6

(* The homes fit what is saved.                                            *)
LEMMA LoadedHomes ==
  ASSUME SafeInv, Register, job.op \in Loading, home' = home, Written,
         \A s \in Registered :
            home[s] = ident[s] \/ (Loaded(s) /\ home[s] = job.load[s])
  PROVE  HomesMatch'
<1>1. ASSUME NEW s \in Slots, ident'[s] # NoOne PROVE home[s] = ident'[s]
  <2>1. CASE Loaded(s)
    BY <2>1, RegisterIs DEF Written
  <2>2. CASE ~Loaded(s)
    <3>1. ident'[s] = ident[s] /\ s \in Registered
      BY <1>1, <2>2, RegisterIs DEF Registered
    <3>2. QED BY <2>2, <3>1
  <2>3. QED BY <2>1, <2>2
<1>2. QED BY <1>1 DEF HomesMatch, Registered

(* What add works on, with the entry it adds.                              *)
LEMMA AddingIs ==
  ASSUME SafeInv, job.op = "add"
  PROVE  /\ job.from \in Slots /\ job.load[job.from] \in Entries
         /\ \A s \in Slots : Loaded(s) <=> s = job.from
         /\ ident[job.from] \in {NoOne, job.load[job.from]}
         /\ \A s \in Slots : ident[s] = job.load[job.from] => s = job.from
         /\ job \in Jobs /\ ~Free
BY NoJobIs DEF SafeInv, TypeOK, JobInv, LoadingInv, Loading, Loaded, Jobs,
               Loads, Someone, Free

LEMMA TableSaves ==
  ASSUME SafeInv, TableInv, SafeInv',
         SaveNumbers \/ SaveAdded \/ SaveActive \/ SaveImported
  PROVE  TableInv'
<1>1. UNCHANGED <<home, mapping, clean>>
  BY DEF SaveNumbers, SaveAdded, SaveActive, SaveImported
<1>2. CASE SaveNumbers
  <2>1. job' = NoJob /\ ident' = NextIdent
        /\ job.op \in Numbering /\ job.stage = "save"
    <3>1. ident' = NextIdent
      BY <1>2, Zenon DEF SaveNumbers, NextIdent
    <3>2. QED BY <1>2, <3>1 DEF SaveNumbers, Finished, Numbering
  <2>2. clean => HomesMatch'
    BY <1>1, <2>1
       DEF TableInv, HomesInv, HomesMatchNext, HomesMatch, Registered
  <2>3. QED BY <1>1, <2>1, <2>2, TableFree
<1>3. CASE SaveActive
  <2>1. job' = NoJob /\ ident' = ident /\ job.op = "add"
    BY <1>3 DEF SaveActive, Finished, At
  <2>2. clean => HomesMatch'
    BY <1>1, <2>1 DEF TableInv, HomesInv, HomesMatch, Registered
  <2>3. QED BY <1>1, <2>1, <2>2, TableFree
<1>4. CASE SaveImported
  <2>1. job' = NoJob /\ Register /\ job.op = "import" /\ job.stage = "save"
    BY <1>4 DEF SaveImported, Finished, At
  <2>2. clean => HomesMatch'
    BY <1>1, <2>1, LoadedHomes DEF TableInv, HomesInv, Loading
  <2>3. QED BY <1>1, <2>1, <2>2, TableFree
<1>5. CASE SaveAdded
  <2>1. Register /\ job.op = "add" /\ job.stage = "write" /\ Written
        /\ active' = active
    BY <1>5 DEF SaveAdded, At
  <2>2. clean => HomesMatch'
    BY <1>1, <2>1, LoadedHomes DEF TableInv, HomesInv, HomesMatch, Loading
  <2>3. CASE Finished
    BY <1>1, <2>2, <2>3, TableFree DEF Finished
  <2>4. CASE Goto("activate") /\ was' = was
    <3>1. /\ job'.op = "add" /\ job'.stage = "activate"
          /\ job'.from = job.from /\ job'.load = job.load
      BY <2>1, <2>4, AddingIs DEF Goto, Jobs
    <3>2. SUFFICES ASSUME clean PROVE HomesInv' /\ WasInv'
      BY <1>1 DEF TableInv
    <3>3. HomesInv'
      BY <1>1, <2>2, <3>1, <3>2 DEF HomesInv, Numbering
    <3>4. /\ DOMAIN was = {"where", "inUse", "owner"}
          /\ was.inUse = EntryAt(active) /\ was.where = Places(ident)
          /\ was.owner = [d \in Dirs |-> EntryAt(mapping[d])]
      BY <2>1, <3>2, AddingIs DEF TableInv, WasInv, Numbering
    <3> DEFINE s == job.from
               e == job.load[s]
    <3>5. /\ s \in Slots /\ e \in Entries /\ e # NoOne
          /\ ident \in [Slots -> Someone] /\ ident'[s] = e
          /\ ident[s] \in {NoOne, e}
          /\ \A t \in Slots : ident[t] = e => t = s
          /\ \A t \in Slots \ {s} : ident'[t] = ident[t]
          /\ ident' \in [Slots -> Someone]
      BY <2>1, AddingIs, RegisterIs, RegistryAssumption
         DEF SafeInv, TypeOK, Loading
    <3> HIDE DEF s, e
    <3>6. ASSUME NEW m \in Slots \cup {0}
          PROVE  EntryAt(m) \in {NoOne, IF m = 0 THEN NoOne ELSE ident'[m]}
      BY <3>5 DEF EntryAt
    <3>7. was'.inUse = EntryAt(active)'
      <4>1. active = 0 \/ (active \in Slots /\ ident[active] # NoOne)
        BY DEF SafeInv, TypeOK, RegistryLoads
      <4>2. QED BY <2>1, <2>4, <3>4, <3>5, <4>1 DEF EntryAt
    <3>8. OwnersMatch'
      <4>1. \A d \in Dirs : mapping[d] \in Slots \cup {0}
        BY DEF SafeInv, TypeOK
      <4>2. \A d \in Dirs :
               was'.owner[d] \in {NoOne, IF mapping[d] = 0 THEN NoOne
                                         ELSE ident'[mapping[d]]}
        BY <2>4, <3>4, <3>6, <4>1
      <4>3. QED BY <1>1, <4>2 DEF OwnersMatch, EntryAt
    <3>9. \/ /\ was'.where = Places(ident')
             /\ was'.owner = [d \in Dirs |-> EntryAt(mapping[d])]'
          \/ was'.where = [Places(ident') EXCEPT ![e] = 0]
      <4>1. Injective(ident) /\ Injective(ident')
        <5>1. (SafeInv => Injective(ident))'
          BY IdentInjective, PTL
        <5>2. QED BY <5>1, IdentInjective
      <4>2. CASE ident[s] = e
        <5>1. ident' = ident
          BY <3>5, <4>2
        <5>2. QED BY <1>1, <2>4, <3>4, <5>1 DEF EntryAt
      <4>3. CASE ident[s] = NoOne
        <5>1. \A x \in Entries \ {e} : Places(ident)[x] = Places(ident')[x]
          <6>1. SUFFICES ASSUME NEW x \in Entries \ {e}
                         PROVE  Places(ident)[x] = Places(ident')[x]
            OBVIOUS
          <6>2. \A t \in Slots : ident[t] = x <=> ident'[t] = x
            BY <3>5, <4>3, RegistryAssumption
          <6>3. QED BY <4>1, <6>2, PlacesIs
        <5>2. Places(ident)[e] = 0
          BY <3>5, <4>1, <4>3, PlacesIs
        <5>3. Places(ident) = [Places(ident') EXCEPT ![e] = 0]
          BY <5>1, <5>2 DEF Places
        <5>4. QED BY <2>4, <3>4, <5>3
      <4>4. QED BY <3>5, <4>2, <4>3
    <3>10. ident'[job'.from] = e
      BY <3>1, <3>5 DEF s
    <3>11. WasInv'
      BY <2>4, <3>1, <3>4, <3>7, <3>8, <3>9, <3>10 DEF WasInv
    <3>12. QED BY <3>3, <3>11
  <2>5. QED BY <1>5, <2>3, <2>4 DEF SaveAdded
<1>6. QED BY <1>2, <1>3, <1>4, <1>5

(* A swap or a move that was undone has left every home where it was.      *)
LEMMA UndoneMatches ==
  ASSUME SafeInv, HomesInv, job.op \in {"swap", "move"},
         ident' = ident, Renaming,
         \/ job.op = "swap" /\ home' = Restored
         \/ job.op = "move" /\ home' = home
  PROVE  HomesMatch'
<1>1. job.op \in Numbering /\ job.stage \in {"out", "over", "in", "rename"}
  BY Zenon DEF Renaming, Numbering
<1>2. job.op = "move" => job.stage = "rename"
  BY <1>1 DEF SafeInv, JobInv, StagesOf
<1>3. ASSUME NEW s \in Slots, ident[s] # NoOne PROVE home'[s] = ident[s]
  <2>1. CASE job.stage \in {"out", "rename"}
    <3>1. HomesMatch
      BY <2>1 DEF HomesInv
    <3>2. home' = home
      BY <2>1, NumberingIs, <1>1 DEF Restored
    <3>3. QED BY <1>3, <3>1, <3>2 DEF HomesMatch, Registered
  <2>2. CASE job.stage = "over"
    <3>1. /\ job.carried = ident[job.from]
          /\ \A t \in Registered \ {job.from} : home[t] = ident[t]
      BY <2>2 DEF HomesInv
    <3>2. home' = [home EXCEPT ![job.from] = job.carried]
      BY <1>2, <2>2 DEF Restored
    <3>3. QED BY <1>1, <1>3, <3>1, <3>2, NumberingIs DEF Registered
  <2>3. CASE job.stage = "in"
    <3>1. /\ job.carried = ident[job.from] /\ home[job.from] = ident[job.to]
          /\ \A t \in Registered \ {job.from, job.to} : home[t] = ident[t]
      BY <2>3 DEF HomesInv
    <3>2. home' = [home EXCEPT ![job.to] = home[job.from],
                               ![job.from] = job.carried]
      BY <1>2, <2>3 DEF Restored
    <3>3. job.op = "swap"
      BY <1>2, <2>3
    <3>4. QED BY <1>1, <1>3, <3>1, <3>2, <3>3, NumberingIs DEF Registered
  <2>4. QED BY <1>1, <2>1, <2>2, <2>3
<1>4. QED BY <1>3 DEF HomesMatch, Registered

LEMMA TableFaults ==
  ASSUME SafeInv, TableInv, RenameFails \/ Crash \/ Quarantine
  PROVE  TableInv'
<1>1. job' = NoJob
  BY DEF RenameFails, Crash, Quarantine, Finished, Free
<1>2. ASSUME CutOff PROVE clean' => HomesMatch'
  BY <1>2 DEF CutOff
<1>3. CASE RenameFails /\ ~CutOff
  <2>1. /\ ident' = ident /\ Renaming /\ clean' = clean
        /\ \/ job.op = "swap" /\ home' = Restored
           \/ job.op = "move" /\ home' = home
    BY <1>3 DEF RenameFails
  <2>2. clean => HomesMatch'
    BY <2>1, UndoneMatches DEF TableInv
  <2>3. QED BY <1>1, <2>1, <2>2, TableFree
<1>4. QED BY <1>1, <1>2, <1>3, TableFree DEF Crash, Quarantine

LEMMA TableStep ==
  ASSUME SafeInv, TableInv, SafeInv', [Next]_vars
  PROVE  TableInv'
<1>1. ASSUME NEW c \in Commands, Command(c) PROVE TableInv'
  BY <1>1, TableCommands, TableBegins DEF Command
<1>2. CASE Work
  BY <1>2, TableRenames, TableWrites, TableSaves DEF Work
<1>3. CASE UNCHANGED vars
  BY <1>3, TableKept DEF vars, ghosts
<1>4. QED BY <1>1, <1>2, <1>3, TableCommands, TableBegins, TableFaults DEF Next

(* Each stage of an operation finds the homes, and the table as it was,    *)
(* the way it needs them.                                                  *)
THEOREM RegistryInductive == Spec => []RegInv
<1>1. Init => RegInv
  BY SafeInit, TableInit DEF RegInv
<1>2. RegInv /\ [Next]_vars => RegInv'
  BY SafeStep, TableStep DEF RegInv
<1>3. QED BY <1>1, <1>2, PTL DEF Spec

-----------------------------------------------------------------------------
(* What the table shows while no operation is under way.                   *)
LEMMA FreeShown ==
  RegInv /\ clean /\ Free =>
     /\ Shown.where = Places(ident) /\ Shown.inUse = EntryAt(active)
     /\ Shown.owner = [d \in Dirs |-> EntryAt(mapping[d])]
BY FreeHomesMatch, ViewIs DEF RegInv, Shown

(* What it shows afterwards, of the state after a step.                    *)
LEMMA FreeShownNext ==
  ASSUME RegInv', clean', job' = NoJob
  PROVE  /\ Shown.where' = Places(ident') /\ Shown.inUse' = EntryAt(active)'
         /\ Shown.owner' = [d \in Dirs |-> EntryAt(mapping[d])']
<1>1. (RegInv /\ clean /\ Free =>
          /\ Shown.where = Places(ident) /\ Shown.inUse = EntryAt(active)
          /\ Shown.owner = [d \in Dirs |-> EntryAt(mapping[d])])'
  BY FreeShown, PTL
<1>2. Free'
  BY DEF Free
<1>3. QED BY <1>1, <1>2

LEMMA ShowsTheStart == Init => Table!Init
<1>1. SUFFICES ASSUME Init PROVE Table!Init
  OBVIOUS
<1>2. RegInv /\ clean /\ Free
  BY <1>1, SafeInit, TableInit DEF RegInv, Init, Free
<1>3. /\ Places(ident) = [e \in Entries |-> 0]
      /\ EntryAt(active) = NoOne
      /\ [d \in Dirs |-> EntryAt(mapping[d])] = [d \in Dirs |-> NoOne]
  BY <1>1, RegistryAssumption DEF Init, Places, EntryAt
<1>4. clean = TRUE
  BY <1>1 DEF Init
<1>5. QED BY <1>2, <1>3, <1>4, FreeShown DEF Table!Init

(* An operation that is cut off wrecks the table.                          *)
LEMMA Wrecks == ASSUME ~clean' PROVE Table!Next
BY DEF Table!Next

LEMMA Stutters ==
  ASSUME clean, clean', SafeInv, SafeInv', Shown' = Shown
  PROVE  UNCHANGED Table!vars
BY DEF Table!vars, SafeInv, TypeOK

(* The steps that the table does not show.                                 *)
LEMMA HiddenSteps ==
  ASSUME RegInv, RegInv', clean, clean',
         \/ \E c \in Commands :
               \/ Resolve(c) \/ NotFound(c) \/ MoveRefused(c)
               \/ RecordUsage(c) \/ ForgetUsage(c)
               \/ BeginRemove(c) \/ BeginSwap(c) \/ BeginMove(c)
         \/ \E e \in Entries : BeginAdd(e)
         \/ BeginImport
         \/ SwapOut \/ SwapOver \/ SwapIn \/ MoveHome \/ RemoveHome
         \/ \E s \in Slots : WriteAuth(s)
         \/ WriteCache \/ WriteMappings
         \/ SaveAdded /\ Goto("activate") /\ was' = was
         \/ UNCHANGED vars
  PROVE  UNCHANGED Table!vars
<1>1. SafeInv /\ SafeInv' /\ job \in Jobs
  BY DEF RegInv, SafeInv, TypeOK
<1>2. SUFFICES Shown' = Shown
  BY <1>1, Stutters
<1>3. ASSUME UNCHANGED <<ident, active, home, mapping, job, was>>
      PROVE  Shown' = Shown
  BY <1>3 DEF Shown, View, SlotOf, EntryAt, Free
<1>4. ASSUME NEW c \in Commands,
             \/ Resolve(c) \/ NotFound(c) \/ MoveRefused(c)
             \/ RecordUsage(c) \/ ForgetUsage(c)
      PROVE  Shown' = Shown
  BY <1>3, <1>4 DEF Resolve, NotFound, MoveRefused, RecordUsage, ForgetUsage,
                    disk, ghosts
<1>5. ASSUME \/ \E c \in Commands :
                   BeginRemove(c) \/ BeginSwap(c) \/ BeginMove(c)
             \/ \E e \in Entries : BeginAdd(e)
             \/ BeginImport
      PROVE  Shown' = Shown
  <2>1. PICK op, stage, s, t, l :
           /\ Begin(op, stage, s, t, l)
           /\ op \in Numbering \cup Loading
    BY <1>5 DEF BeginRemove, BeginSwap, BeginMove, BeginAdd, BeginImport,
                Numbering, Loading
  <2>2. Free /\ was' = View /\ job'.op # "none"
    BY <2>1 DEF Begin, Numbering, Loading
  <2>3. QED BY <2>2, NoJobIs DEF Shown, Free
<1>6. ASSUME ~Free, job'.op = job.op, was' = was
      PROVE  Shown' = Shown
  <2>1. job.op # "none"
    BY <1>1, <1>6, Idle DEF SafeInv
  <2>2. QED BY <1>6, <2>1, NoJobIs DEF Shown, Free
<1>7. CASE \/ SwapOut \/ SwapOver \/ SwapIn \/ MoveHome \/ RemoveHome
           \/ WriteCache \/ WriteMappings
           \/ SaveAdded /\ Goto("activate") /\ was' = was
  <2>1. job.stage # "none" /\ was' = was
    BY <1>7 DEF SwapOut, SwapOver, SwapIn, MoveHome, RemoveHome, WriteCache,
                WriteMappings, SaveAdded, At, ghosts
  <2>2. \E stage, carried :
           job' = [job EXCEPT !.stage = stage, !.carried = carried]
    <3>1. \A stage : [job EXCEPT !.stage = stage]
                     = [job EXCEPT !.stage = stage, !.carried = job.carried]
      BY <1>1 DEF Jobs
    <3>2. \/ \E stage : job' = [job EXCEPT !.stage = stage]
          \/ \E stage, carried :
                job' = [job EXCEPT !.stage = stage, !.carried = carried]
      BY <1>7 DEF SwapOut, SwapOver, SwapIn, MoveHome, RemoveHome, WriteCache,
                  WriteMappings, Goto
    <3>3. QED BY <3>1, <3>2
  <2>3. job'.op = job.op
    BY <1>1, <2>2 DEF Jobs
  <2>4. QED BY <1>6, <2>1, <2>3, NoJobIs DEF Free
<1>8. ASSUME NEW s \in Slots, WriteAuth(s) PROVE Shown' = Shown
  BY <1>6, <1>8, NoJobIs DEF WriteAuth, Free, ghosts
<1>9. CASE UNCHANGED vars
  BY <1>3, <1>9 DEF vars, disk, ghosts
<1>10. QED BY <1>4, <1>5, <1>7, <1>8, <1>9

(* activate, map and unmap.                                                *)
LEMMA CommandShows ==
  ASSUME RegInv, RegInv', clean, clean', NEW c \in Commands,
         Activate(c) \/ \E d \in Dirs : SetMapping(c, d)
  PROVE  Table!Next
<1>1. /\ SafeInv /\ Free /\ job' = NoJob /\ ident' = ident
      /\ refs[c].slot \in Slots
  BY RefType DEF RegInv, Activate, SetMapping, Holding, Free
<1>2. /\ Shown.where = Places(ident) /\ Shown.inUse = EntryAt(active)
      /\ Shown.owner = [d \in Dirs |-> EntryAt(mapping[d])]
  BY <1>1, FreeShown
<1>3. /\ Shown.where' = Places(ident') /\ Shown.inUse' = EntryAt(active)'
      /\ Shown.owner' = [d \in Dirs |-> EntryAt(mapping[d])]'
  BY <1>1, FreeShownNext
<1>4. ident \in [Slots -> Someone] /\ Injective(ident) /\ 0 \notin Slots
  BY <1>1, IdentInjective, NoJobIs DEF SafeInv, TypeOK
<1> DEFINE e == ident[refs[c].slot]
<1>5. CASE Activate(c)
  <2>1. e \in Entries /\ active' = refs[c].slot /\ mapping' = mapping
    BY <1>1, <1>4, <1>5 DEF Activate, Holding, Someone
  <2>2. Shown.where[e] # 0
    BY <1>1, <1>2, <1>4, <2>1, PlacesIs
  <2>3. /\ Shown.inUse' = e /\ Shown.where' = Shown.where
        /\ Shown.owner' = Shown.owner
    BY <1>1, <1>2, <1>3, <1>4, <2>1 DEF EntryAt
  <2>4. QED BY <2>1, <2>2, <2>3 DEF Table!Next, Table!Operation, Table!Use
<1>6. ASSUME NEW d \in Dirs, SetMapping(c, d)
      PROVE  Table!Next
  <2>1. /\ mapping' = [mapping EXCEPT ![d] = refs[c].slot]
        /\ active' = active /\ mapping \in [Dirs -> Slots \cup {0}]
    BY <1>1, <1>6 DEF SetMapping, SafeInv, TypeOK
  <2>2. Shown.where' = Shown.where /\ Shown.inUse' = Shown.inUse
    BY <1>1, <1>2, <1>3, <2>1 DEF EntryAt
  <2>3. Shown.owner' = [Shown.owner EXCEPT ![d] = e]
    BY <1>1, <1>2, <1>3, <1>4, <2>1 DEF EntryAt
  <2>4. e \in Entries \cup {NoOne}
    BY <1>1, <1>4 DEF Someone
  <2>5. QED BY <2>2, <2>3, <2>4 DEF Table!Next, Table!Operation, Table!Map
<1>7. QED BY <1>5, <1>6

LEMMA UnmapShows ==
  ASSUME RegInv, RegInv', clean, clean', NEW d \in Dirs, RemoveMapping(d)
  PROVE  Table!Next
<1>1. SafeInv /\ Free /\ job' = NoJob /\ ident' = ident /\ active' = active
  BY DEF RegInv, RemoveMapping, Free
<1>2. /\ mapping' = [mapping EXCEPT ![d] = 0]
      /\ mapping \in [Dirs -> Slots \cup {0}]
  BY <1>1 DEF RemoveMapping, SafeInv, TypeOK
<1>3. /\ Shown.where = Places(ident) /\ Shown.inUse = EntryAt(active)
      /\ Shown.owner = [x \in Dirs |-> EntryAt(mapping[x])]
  BY <1>1, FreeShown
<1>4. /\ Shown.where' = Places(ident') /\ Shown.inUse' = EntryAt(active)'
      /\ Shown.owner' = [x \in Dirs |-> EntryAt(mapping[x])]'
  BY <1>1, FreeShownNext
<1>5. Shown.where' = Shown.where /\ Shown.inUse' = Shown.inUse
  BY <1>1, <1>3, <1>4 DEF EntryAt
<1>6. Shown.owner' = [Shown.owner EXCEPT ![d] = NoOne]
  BY <1>1, <1>2, <1>3, <1>4 DEF EntryAt
<1>7. QED BY <1>5, <1>6 DEF Table!Next, Table!Operation, Table!Map

-----------------------------------------------------------------------------
(* An operation on numbers takes effect.                                   *)

(* What a mapping, or the active mark, stands for once it was renumbered.  *)
NextEntryAt(s) == IF s = 0 THEN NoOne ELSE NextIdent[s]

LEMMA NumberIs ==
  ASSUME SafeInv, job.op \in Numbering, NEW m \in Slots
  PROVE  /\ m = job.from => Remapped(m) = job.to
         /\ m = job.to /\ job.op = "swap" => Remapped(m) = job.from
         /\ m # job.from /\ ~(m = job.to /\ job.op = "swap") => Remapped(m) = m
<1>1. m # 0 /\ job.from # job.to
  BY NoJobIs, NumberingIs
<1>2. Remapped(m) = NewNumber(m)
  BY <1>1 DEF Remapped
<1>3. /\ m = job.from => NewNumber(m) = job.to
      /\ m = job.to /\ job.op = "swap" => NewNumber(m) = job.from
      /\ m # job.from /\ ~(m = job.to /\ job.op = "swap") => NewNumber(m) = m
  BY <1>1, Zenon DEF NewNumber
<1>4. QED BY <1>2, <1>3

LEMMA EntryFollows ==
  ASSUME SafeInv, job.op \in Numbering, NEW m \in Slots \cup {0}
  PROVE  /\ job.op = "remove" =>
               NextEntryAt(Remapped(m)) =
                  IF EntryAt(m) = ident[job.from] THEN NoOne ELSE EntryAt(m)
         /\ job.op # "remove" /\ EntryAt(m) # NoOne =>
               NextEntryAt(Remapped(m)) = EntryAt(m)
<1>1. 0 \notin Slots /\ Injective(ident)
  BY NoJobIs, IdentInjective
<1>2. CASE m = 0
  BY <1>2, NumberingIs DEF Remapped, NextEntryAt, EntryAt
<1>3. CASE m \in Slots
  <2>1. EntryAt(m) = ident[m]
    BY <1>1, <1>3 DEF EntryAt
  <2>2. CASE job.op = "remove"
    <3>1. m = job.from <=> ident[m] = ident[job.from]
      BY <1>1, <1>3, NumberingIs DEF Injective
    <3>2. CASE m = job.from
      BY <1>3, <2>1, <2>2, <3>2, NumberingIs, NumberIs DEF NextEntryAt
    <3>3. CASE m # job.from
      <4>1. Remapped(m) = m /\ m # 0 /\ m # job.to
        BY <1>1, <1>3, <2>2, <3>3, NumberingIs, NumberIs
      <4>2. NextIdent[m] = ident[m]
        BY <1>3, <3>3, <4>1, NextIdentIs
      <4>3. QED BY <2>1, <2>2, <3>1, <3>3, <4>1, <4>2 DEF NextEntryAt
    <3>4. QED BY <3>2, <3>3
  <2>3. CASE job.op # "remove" /\ ident[m] # NoOne
    <3>1. job.op \in {"swap", "move"} /\ job.to # 0 /\ job.from # 0
      BY <1>1, <2>3, NumberingIs DEF Numbering
    <3>2. CASE m = job.from
      BY <1>3, <2>1, <2>3, <3>1, <3>2, NumberIs, NextIdentIs DEF NextEntryAt
    <3>3. CASE m = job.to /\ m # job.from
      <4>1. job.op = "swap"
        BY <2>3, <3>1, <3>3, NumberingIs
      <4>2. QED BY <1>3, <2>1, <2>3, <3>1, <3>3, <4>1, NumberIs, NextIdentIs
                DEF NextEntryAt
    <3>4. CASE m \notin {job.from, job.to}
      <4>1. Remapped(m) = m /\ m # 0 /\ NextIdent[m] = ident[m]
        BY <1>1, <1>3, <3>4, NumberIs, NextIdentIs
      <4>2. QED BY <2>1, <2>3, <4>1 DEF NextEntryAt
    <3>5. QED BY <3>2, <3>3, <3>4
  <2>4. QED BY <2>1, <2>2, <2>3
<1>4. QED BY <1>2, <1>3

LEMMA NumbersShow ==
  ASSUME RegInv, RegInv', clean, clean', SaveNumbers
  PROVE  Table!Next
<1>1. /\ SafeInv /\ SafeInv' /\ job' = NoJob /\ clean = TRUE /\ clean' = TRUE
      /\ job.op \in Numbering /\ job.stage = "save" /\ ~Free
      /\ ident' = NextIdent /\ mapping' = mapping
      /\ active' = Remapped(active)
  <2>1. ident' = NextIdent
    BY Zenon DEF SaveNumbers, NextIdent
  <2>2. SafeInv /\ SafeInv' /\ clean = TRUE /\ clean' = TRUE
    BY DEF RegInv, SafeInv, TypeOK
  <2>3. job.op \in Numbering
    BY DEF SaveNumbers, Numbering
  <2>4. QED BY <2>1, <2>2, <2>3, NumberingIs
            DEF SaveNumbers, Finished, ActiveAfter, Remapped
<1>2. /\ Shown = was
      /\ was.where = Places(ident) /\ was.inUse = EntryAt(active)
      /\ DOMAIN was.owner = Dirs
      /\ \A d \in Dirs : \E m \in Slots \cup {0} :
            was.owner[d] = EntryAt(m) /\ mapping[d] = Remapped(m)
  BY <1>1 DEF RegInv, TableInv, WasInv, Shown
<1>3. /\ Shown.where' = Places(NextIdent)
      /\ Shown.inUse' = NextEntryAt(Remapped(active))
      /\ Shown.owner' = [d \in Dirs |-> NextEntryAt(mapping[d])]
  BY <1>1, FreeShownNext DEF EntryAt, NextEntryAt
<1>4. active \in Slots \cup {0} /\ (active # 0 => EntryAt(active) # NoOne)
  BY <1>1 DEF SafeInv, TypeOK, RegistryLoads, EntryAt
<1>5. Injective(ident) /\ Injective(NextIdent) /\ 0 \notin Slots
  <2>1. (SafeInv => Injective(ident))'
    BY IdentInjective, PTL
  <2>2. QED BY <1>1, <2>1, IdentInjective, NoJobIs
<1>6. \A d \in Dirs : NextEntryAt(mapping[d]) \in Entries \cup {NoOne}
  <2>1. \A d \in Dirs : mapping[d] \in Slots \cup {0}
    BY <1>1 DEF SafeInv, TypeOK
  <2>2. QED BY <1>1, <2>1, NextIdentIs DEF NextEntryAt, Someone
<1>7. CASE job.op = "remove"
  <2> DEFINE e == ident[job.from]
  <2>1. /\ e \in Entries /\ job.from \in Slots /\ job.to = 0
        /\ \A s \in Slots : ident[s] = e <=> s = job.from
    BY <1>1, <1>5, <1>7, NumberingIs DEF Injective, Someone
  <2>2. NextIdent[job.from] = NoOne
        /\ \A s \in Slots \ {job.from} : NextIdent[s] = ident[s]
    BY <1>1, <1>5, <1>7, <2>1, NextIdentIs
  <2> HIDE DEF e
  <2>3. Places(NextIdent) = [Places(ident) EXCEPT ![e] = 0]
    <3>1. \A x \in Entries \ {e} : Places(NextIdent)[x] = Places(ident)[x]
      <4>1. SUFFICES ASSUME NEW x \in Entries \ {e}
                     PROVE  Places(NextIdent)[x] = Places(ident)[x]
        OBVIOUS
      <4>2. \A s \in Slots : NextIdent[s] = x <=> ident[s] = x
        BY <2>1, <2>2, RegistryAssumption
      <4>3. QED BY <1>5, <4>2, PlacesIs
    <3>2. Places(NextIdent)[e] = 0
      <4>1. \A s \in Slots : NextIdent[s] # e
        BY <2>1, <2>2, RegistryAssumption
      <4>2. QED BY <1>5, <2>1, <4>1, PlacesIs
    <3>3. QED BY <3>1, <3>2 DEF Places
  <2>4. was.where[e] # 0
    BY <1>2, <1>5, <2>1, PlacesIs
  <2>5. NextEntryAt(Remapped(active)) = IF was.inUse = e THEN NoOne ELSE was.inUse
    BY <1>1, <1>2, <1>4, <1>7, EntryFollows DEF e
  <2>6. [d \in Dirs |-> NextEntryAt(mapping[d])]
        = [d \in Dirs |-> IF was.owner[d] = e THEN NoOne ELSE was.owner[d]]
    BY <1>1, <1>2, <1>7, EntryFollows DEF e
  <2>7. Table!Remove(e)
    BY <1>2, <1>3, <2>3, <2>4, <2>5, <2>6 DEF Table!Remove
  <2>8. QED BY <1>1, <2>1, <2>7 DEF Table!Next, Table!Operation
<1>8. CASE job.op # "remove"
  <2>1. /\ job.op \in {"swap", "move"} /\ job.from \in Slots /\ job.to \in Slots
        /\ job.op = "move" => ident[job.to] = NoOne
    BY <1>1, <1>8, NumberingIs DEF Numbering
  <2>2. ASSUME NEW x \in Entries
        PROVE  (\A s \in Slots : NextIdent[s] # x)
               <=> (\A s \in Slots : ident[s] # x)
    BY <1>1, <2>1, <2>2, NextIdentIs, RegistryAssumption
  <2>3. /\ Places(NextIdent) \in [Entries -> Slots \cup {0}]
        /\ \A x \in Entries : Places(NextIdent)[x] = 0 <=> Places(ident)[x] = 0
    <3>1. \A x \in Entries :
             /\ Places(NextIdent)[x] \in Slots \cup {0}
             /\ Places(NextIdent)[x] = 0 <=> Places(ident)[x] = 0
      BY <1>5, <2>2, PlacesIs
    <3>2. QED BY <3>1 DEF Places
  <2>4. \A x, y \in Entries :
           Places(NextIdent)[x] = Places(NextIdent)[y]
           /\ Places(NextIdent)[x] # 0 => x = y
    <3>1. ASSUME NEW x \in Entries, Places(NextIdent)[x] # 0
          PROVE  /\ Places(NextIdent)[x] \in Slots
                 /\ NextIdent[Places(NextIdent)[x]] = x
      BY <1>5, <3>1, PlacesIs
    <3>2. QED BY <3>1
  <2>5. NextEntryAt(Remapped(active)) = was.inUse
    <3>1. CASE active = 0
      BY <1>2, <3>1 DEF Remapped, NextEntryAt, EntryAt
    <3>2. CASE active # 0
      BY <1>1, <1>2, <1>4, <1>8, <3>2, EntryFollows
    <3>3. QED BY <3>1, <3>2
  <2>6. \A d \in Dirs :
           was.owner[d] # NoOne => NextEntryAt(mapping[d]) = was.owner[d]
    BY <1>1, <1>2, <1>8, EntryFollows
  <2>7. Table!Renumber
    <3>1. Table!OwnersKeep
      BY <1>2, <1>3, <1>6, <2>6 DEF Table!OwnersKeep
    <3>2. QED BY <1>2, <1>3, <2>3, <2>4, <2>5, <3>1 DEF Table!Renumber
  <2>8. QED BY <1>1, <2>7 DEF Table!Next, Table!Operation
<1>9. QED BY <1>7, <1>8

-----------------------------------------------------------------------------
(* An entry is added.                                                      *)

(* Only the slot of a new entry tells the table before from that after it. *)
LEMMA AddIs ==
  ASSUME clean = TRUE, clean' = TRUE, NEW e \in Entries, NEW s \in Slots,
         Injective(ident'), ident'[s] = e, 0 \notin Slots,
         Shown.where = [Places(ident') EXCEPT ![e] = 0],
         Shown.where' = Places(ident'),
         Shown.inUse' \in {Shown.inUse, e},
         Shown.owner' \in [Dirs -> Someone],
         \A d \in Dirs : Shown.owner[d] \in {NoOne, Shown.owner'[d]}
  PROVE  Table!Next
<1>1. Places(ident')[e] = s /\ DOMAIN Places(ident') = Entries
  <2>1. Places(ident')[e] = s
    BY PlacesIs
  <2>2. QED BY <2>1 DEF Places
<1>2. Shown.where[e] = 0
  BY <1>1
<1>3. \A x \in Entries : Shown.where[x] # s
  <2>1. \A x \in Entries \ {e} : Places(ident')[x] # s
    BY PlacesIs
  <2>2. QED BY <1>1, <1>2, <2>1
<1>4. Shown.where' = [Shown.where EXCEPT ![e] = s]
  <2>1. \A x \in Entries \ {e} : Shown.where[x] = Places(ident')[x]
    BY <1>1
  <2>2. DOMAIN Shown.where = Entries
    BY <1>1
  <2>3. QED BY <1>1, <2>1, <2>2 DEF Places
<1>5. Table!Add(e, s)
  BY <1>2, <1>3, <1>4 DEF Table!Add, Table!Vacant, Table!OwnersKeep, Someone
<1>6. QED BY <1>5 DEF Table!Next, Table!Operation

LEMMA AddShows ==
  ASSUME RegInv, RegInv', clean, clean', SaveAdded, Finished
  PROVE  Table!Next \/ UNCHANGED Table!vars
<1> DEFINE s == job.from
           e == job.load[s]
<1>1. /\ SafeInv /\ SafeInv' /\ job' = NoJob /\ clean = TRUE /\ clean' = TRUE
      /\ job.op = "add" /\ job.stage = "write" /\ ~Free
      /\ Register /\ mapping' = mapping /\ active' = active
  <2>1. SafeInv /\ SafeInv' /\ clean = TRUE /\ clean' = TRUE
    BY DEF RegInv, SafeInv, TypeOK
  <2>2. job.op = "add" /\ job.stage = "write"
    BY DEF SaveAdded, At
  <2>3. QED BY <2>1, <2>2, AddingIs DEF SaveAdded, Finished
<1>2. /\ Shown = was
      /\ was.where = Places(ident) /\ was.inUse = EntryAt(active)
      /\ was.owner = [d \in Dirs |-> EntryAt(mapping[d])]
  BY <1>1 DEF RegInv, TableInv, WasInv, Shown, Numbering
<1>3. /\ Shown.where' = Places(ident') /\ Shown.inUse' = EntryAt(active)'
      /\ Shown.owner' = [d \in Dirs |-> EntryAt(mapping[d])]'
  BY <1>1, FreeShownNext
<1>4. /\ s \in Slots /\ e \in Entries /\ ident'[s] = e
      /\ ident[s] \in {NoOne, e}
      /\ \A t \in Slots : ident[t] = e => t = s
      /\ \A t \in Slots \ {s} : ident'[t] = ident[t]
      /\ ident \in [Slots -> Someone] /\ ident' \in [Slots -> Someone]
  BY <1>1, AddingIs, RegisterIs DEF SafeInv, TypeOK, Loading
<1>5. Injective(ident) /\ Injective(ident') /\ 0 \notin Slots
  <2>1. (SafeInv => Injective(ident))'
    BY IdentInjective, PTL
  <2>2. QED BY <1>1, <2>1, IdentInjective, NoJobIs
<1> HIDE DEF s, e
<1>6. CASE ident[s] = e
  <2>1. ident' = ident
    BY <1>4, <1>6
  <2>2. /\ Shown.where' = Shown.where /\ Shown.inUse' = Shown.inUse
        /\ Shown.owner' = Shown.owner
    BY <1>1, <1>2, <1>3, <2>1 DEF EntryAt
  <2>3. QED BY <1>1, <2>2 DEF Table!vars
<1>7. CASE ident[s] = NoOne
  <2>1. \A x \in Entries \ {e} : Places(ident)[x] = Places(ident')[x]
    <3>1. SUFFICES ASSUME NEW x \in Entries \ {e}
                   PROVE  Places(ident)[x] = Places(ident')[x]
      OBVIOUS
    <3>2. \A t \in Slots : ident[t] = x <=> ident'[t] = x
      BY <1>4, <1>7, RegistryAssumption
    <3>3. QED BY <1>5, <3>2, PlacesIs
  <2>2. Places(ident)[e] = 0
    <3>1. \A t \in Slots : ident[t] # e
      BY <1>4, <1>7, RegistryAssumption
    <3>2. QED BY <1>4, <1>5, <3>1, PlacesIs
  <2>3. Places(ident) = [Places(ident') EXCEPT ![e] = 0]
    BY <2>1, <2>2 DEF Places
  <2>4. ASSUME NEW m \in Slots \cup {0}
        PROVE  EntryAt(m) \in {NoOne, IF m = 0 THEN NoOne ELSE ident'[m]}
    BY <1>4, <1>7 DEF EntryAt
  <2>5. Shown.inUse' = Shown.inUse
    <3>1. active = 0 \/ (active \in Slots /\ ident[active] # NoOne)
      BY <1>1 DEF SafeInv, TypeOK, RegistryLoads
    <3>2. QED BY <1>1, <1>2, <1>3, <1>4, <1>7, <3>1 DEF EntryAt
  <2>6. /\ Shown.owner' \in [Dirs -> Someone]
        /\ \A d \in Dirs : Shown.owner[d] \in {NoOne, Shown.owner'[d]}
    <3>1. \A d \in Dirs : mapping[d] \in Slots \cup {0}
      BY <1>1 DEF SafeInv, TypeOK
    <3>2. Shown.owner' = [d \in Dirs |-> IF mapping[d] = 0 THEN NoOne
                                         ELSE ident'[mapping[d]]]
      BY <1>1, <1>3 DEF EntryAt
    <3>3. QED BY <1>2, <1>4, <2>4, <3>1, <3>2 DEF Someone
  <2>7. QED BY <1>1, <1>2, <1>3, <1>4, <1>5, <2>3, <2>5, <2>6, AddIs
<1>8. QED BY <1>4, <1>6, <1>7

(* The last step of `codexswap add', or a crash before it.                 *)
LEMMA ActivatingShows ==
  ASSUME RegInv, RegInv', clean, clean', job.stage = "activate",
         SaveActive \/ Crash
  PROVE  Table!Next \/ UNCHANGED Table!vars
<1> DEFINE s == job.from
           e == ident[s]
<1>1. /\ SafeInv /\ SafeInv' /\ job' = NoJob /\ clean = TRUE /\ clean' = TRUE
      /\ ident' = ident /\ mapping' = mapping
      /\ active' \in {active, s} /\ (Crash => active' = active)
      /\ (SaveActive => active' = s)
  BY DEF RegInv, SafeInv, TypeOK, SaveActive, Crash, Finished
<1>2. /\ job.op = "add" /\ s \in Slots /\ e \in Entries /\ ~Free
      /\ 0 \notin Slots /\ Injective(ident)
      /\ ident \in [Slots -> Someone] /\ mapping \in [Dirs -> Slots \cup {0}]
  <2>1. job.op = "add" /\ ~Free
    BY NoJobIs, <1>1 DEF SafeInv, JobInv, StagesOf, Free
  <2>2. e = job.load[s]
    BY <1>1, <2>1 DEF SafeInv, JobInv, LoadingInv, Loading
  <2>3. QED BY <1>1, <2>1, <2>2, AddingIs, NoJobIs, IdentInjective
            DEF SafeInv, TypeOK
<1> HIDE DEF s, e
<1>3. /\ Shown = was /\ was.inUse = EntryAt(active)
      /\ \/ /\ was.where = Places(ident)
            /\ was.owner = [d \in Dirs |-> EntryAt(mapping[d])]
         \/ /\ was.where = [Places(ident) EXCEPT ![e] = 0]
            /\ OwnersMatch
  BY <1>1, <1>2 DEF RegInv, TableInv, WasInv, Shown, Numbering, e, s
<1>4. /\ Shown.where' = Places(ident) /\ Shown.inUse' = EntryAt(active')
      /\ Shown.owner' = [d \in Dirs |-> EntryAt(mapping[d])]
  <2>1. /\ Shown.where' = Places(ident') /\ Shown.inUse' = EntryAt(active)'
        /\ Shown.owner' = [d \in Dirs |-> EntryAt(mapping[d])]'
    BY <1>1, FreeShownNext
  <2>2. QED BY <1>1, <2>1 DEF EntryAt
<1>5. EntryAt(s) = e
  BY <1>2 DEF EntryAt, e
<1>6. CASE was.where = Places(ident)
           /\ was.owner = [d \in Dirs |-> EntryAt(mapping[d])]
  <2>1. Shown.where' = Shown.where /\ Shown.owner' = Shown.owner
    BY <1>3, <1>4, <1>6
  <2>2. CASE SaveActive
    <3>1. Places(ident)[e] # 0
      BY <1>2, <1>5, PlacesIs DEF e
    <3>2. Table!Use(e)
      BY <1>1, <1>3, <1>4, <1>5, <1>6, <2>1, <2>2, <3>1 DEF Table!Use
    <3>3. QED BY <1>1, <1>2, <3>2 DEF Table!Next, Table!Operation
  <2>3. CASE Crash
    BY <1>1, <1>3, <1>4, <2>1, <2>3 DEF Table!vars
  <2>4. QED BY <2>2, <2>3
<1>7. CASE was.where = [Places(ident) EXCEPT ![e] = 0] /\ OwnersMatch
  <2>1. Shown.inUse' \in {Shown.inUse, e}
    BY <1>1, <1>3, <1>4, <1>5
  <2>2. /\ Shown.owner' \in [Dirs -> Someone]
        /\ \A d \in Dirs : Shown.owner[d] \in {NoOne, Shown.owner'[d]}
    BY <1>2, <1>3, <1>4, <1>7 DEF OwnersMatch, EntryAt, Someone
  <2>3. ident'[s] = e
    BY <1>1 DEF e
  <2>4. Injective(ident')
    BY <1>1, <1>2
  <2>5. QED BY <1>1, <1>2, <1>3, <1>4, <1>7, <2>1, <2>2, <2>3, <2>4, AddIs
<1>8. QED BY <1>3, <1>6, <1>7

(* An operation that failed and was undone, or was cut off before it did   *)
(* anything to a home or took a directory from its owner.                  *)
LEMMA FailuresShow ==
  ASSUME RegInv, RegInv', clean, clean', RenameFails \/ Crash,
         job.stage # "activate"
  PROVE  Table!Next \/ UNCHANGED Table!vars
<1>1. /\ SafeInv /\ job' = NoJob /\ clean = TRUE /\ clean' = TRUE
      /\ ident' = ident /\ mapping' = mapping /\ active' = active /\ ~Free
      /\ ident \in [Slots -> Someone] /\ mapping \in [Dirs -> Slots \cup {0}]
  <2>1. ~Free
    BY NoJobIs, Zenon DEF RenameFails, Crash, Renaming, Free
  <2>2. QED BY <2>1 DEF RegInv, SafeInv, TypeOK, RenameFails, Crash, Finished
<1>2. Injective(ident)
  BY <1>1, IdentInjective
<1>3. /\ Shown = was /\ was.where = Places(ident) /\ was.inUse = EntryAt(active)
      /\ \/ was.owner = [d \in Dirs |-> EntryAt(mapping[d])]
         \/ job.stage = "save"
  BY <1>1 DEF RegInv, TableInv, WasInv, Shown
<1>4. /\ Shown.where' = Places(ident) /\ Shown.inUse' = EntryAt(active)
      /\ Shown.owner' = [d \in Dirs |-> EntryAt(mapping[d])]
  <2>1. /\ Shown.where' = Places(ident') /\ Shown.inUse' = EntryAt(active)'
        /\ Shown.owner' = [d \in Dirs |-> EntryAt(mapping[d])]'
    BY <1>1, FreeShownNext
  <2>2. QED BY <1>1, <2>1 DEF EntryAt
<1>5. CASE was.owner = [d \in Dirs |-> EntryAt(mapping[d])]
  BY <1>1, <1>3, <1>4, <1>5 DEF Table!vars
<1>6. CASE job.stage = "save"
  <2>1. OwnersMatch
    <3>1. ~Renaming
      BY <1>6, Zenon DEF Renaming
    <3>2. QED BY <3>1, <1>1 DEF RenameFails, Crash, CutOff
  <2>2. /\ Shown.owner' \in [Dirs -> Someone]
        /\ \A d \in Dirs : was.owner[d] # NoOne => Shown.owner'[d] = was.owner[d]
    BY <1>1, <1>4, <2>1 DEF OwnersMatch, EntryAt, Someone
  <2>3. Table!OwnersKeep
    BY <1>3, <2>2 DEF Table!OwnersKeep, Someone
  <2>4. /\ Places(ident) \in [Entries -> Slots \cup {0}]
        /\ \A x, y \in Entries :
              Places(ident)[x] = Places(ident)[y] /\ Places(ident)[x] # 0
              => x = y
    <3>1. \A x \in Entries : Places(ident)[x] \in Slots \cup {0}
      BY <1>2, PlacesIs
    <3>2. ASSUME NEW x \in Entries, Places(ident)[x] # 0
          PROVE  /\ Places(ident)[x] \in Slots
                 /\ ident[Places(ident)[x]] = x
      BY <1>2, <3>2, PlacesIs
    <3>3. Places(ident) \in [Entries -> Slots \cup {0}]
      BY <3>1 DEF Places
    <3>4. QED BY <3>2, <3>3
  <2>5. Table!Renumber
    BY <1>3, <1>4, <2>3, <2>4 DEF Table!Renumber
  <2>6. QED BY <1>1, <2>5 DEF Table!Next, Table!Operation
<1>7. QED BY <1>3, <1>5, <1>6

-----------------------------------------------------------------------------
(* An import takes effect.                                                 *)

(* The entry that has the place of x when the entries of l have come in.   *)
HeirIn(w, l, x) ==
    IF x # NoOne /\ w[x] # 0 /\ l[w[x]] # NoOne THEN l[w[x]] ELSE x

LEMMA ImportIs ==
  ASSUME SafeInv, Register, job.op = "import", Injective(ident'),
         NEW m \in Slots \cup {0}, EntryAt(m) # NoOne
  PROVE  HeirIn(Places(ident), job.load, EntryAt(m)) = ident'[m]
<1>1. m \in Slots /\ EntryAt(m) = ident[m] /\ ident[m] \in Entries
  BY DEF EntryAt, SafeInv, TypeOK, Someone
<1>2. Places(ident)[ident[m]] = m /\ m # 0
  BY <1>1, PlacesIs, IdentInjective, NoJobIs
<1>3. /\ job.load[m] # NoOne => ident'[m] = job.load[m]
      /\ job.load[m] = NoOne => ident'[m] = ident[m]
  BY <1>1, RegisterIs DEF Loading, Loaded
<1>4. QED BY <1>1, <1>2, <1>3 DEF HeirIn

LEMMA ImportPlaces ==
  ASSUME SafeInv, Register, job.op = "import", Injective(ident'),
         NEW e \in Entries
  PROVE  LET w == Places(ident)
             l == job.load
             new == {l[s] : s \in Slots} \ {NoOne}
         IN  /\ e \in new => w[e] = 0
             /\ Places(ident')[e] =
                  IF e \in new THEN CHOOSE s \in Slots : l[s] = e
                  ELSE IF HeirIn(w, l, e) = e THEN w[e] ELSE 0
<1> DEFINE w == Places(ident)
           l == job.load
           new == {l[s] : s \in Slots} \ {NoOne}
<1>1. /\ Injective(ident) /\ e # NoOne /\ 0 \notin Slots
      /\ \A s \in Slots : /\ l[s] # NoOne => ident'[s] = l[s]
                          /\ l[s] = NoOne => ident'[s] = ident[s]
  BY IdentInjective, RegisterIs, NoJobIs, RegistryAssumption
     DEF Loading, Loaded
<1>2. \A s, t \in Slots : l[s] # NoOne => l[s] # ident[t]
  BY DEF SafeInv, JobInv, LoadingInv, Loading, Loaded
<1>3. CASE e \in new
  <2>1. w[e] = 0
    BY <1>1, <1>2, <1>3, PlacesIs
  <2>2. PICK s \in Slots : s = CHOOSE t \in Slots : l[t] = e
    BY <1>3
  <2>3. l[s] = e
    BY <1>3, <2>2
  <2>4. Places(ident')[e] = s
    BY <1>1, <2>3, PlacesIs
  <2>5. QED BY <1>3, <2>1, <2>2, <2>4
<1>4. CASE e \notin new
  <2>1. \A s \in Slots : l[s] # e
    BY <1>1, <1>4
  <2>2. CASE w[e] = 0
    <3>1. HeirIn(w, l, e) = e
      BY <2>2 DEF HeirIn
    <3>2. \A s \in Slots : ident'[s] # e
      BY <1>1, <2>1, <2>2, PlacesIs
    <3>3. Places(ident')[e] = 0
      BY <3>2, PlacesIs
    <3>4. QED BY <1>4, <2>2, <3>1, <3>3
  <2>3. CASE w[e] # 0
    <3>1. PICK s \in Slots : w[e] = s /\ ident[s] = e
      BY <1>1, <2>3, PlacesIs
    <3>2. \A t \in Slots : ident[t] = e => t = s
      BY <1>1, <3>1 DEF Injective
    <3>3. CASE l[s] = NoOne
      <4>1. HeirIn(w, l, e) = e
        BY <3>1, <3>3 DEF HeirIn
      <4>2. Places(ident')[e] = s
        BY <1>1, <3>1, <3>3, PlacesIs
      <4>3. QED BY <1>4, <3>1, <4>1, <4>2
    <3>4. CASE l[s] # NoOne
      <4>1. HeirIn(w, l, e) # e
        BY <1>1, <2>1, <2>3, <3>1, <3>4 DEF HeirIn
      <4>2. \A t \in Slots : ident'[t] # e
        BY <1>1, <2>1, <3>2, <3>4
      <4>3. Places(ident')[e] = 0
        BY <4>2, PlacesIs
      <4>4. QED BY <1>4, <4>1, <4>3
    <3>5. QED BY <3>3, <3>4
  <2>4. QED BY <2>2, <2>3
<1>5. QED BY <1>3, <1>4

LEMMA ImportShows ==
  ASSUME RegInv, RegInv', clean, clean', SaveImported
  PROVE  Table!Next
<1> DEFINE w == Places(ident)
           l == job.load
           new == {l[s] : s \in Slots} \ {NoOne}
<1>1. /\ SafeInv /\ SafeInv' /\ job' = NoJob /\ clean = TRUE /\ clean' = TRUE
      /\ job.op = "import" /\ job.stage = "save" /\ ~Free
      /\ Register /\ mapping' = mapping
      /\ active' \in IF active = 0 THEN {0} \cup {s \in Slots : l[s] # NoOne}
                     ELSE {active}
  <2>1. SafeInv /\ SafeInv' /\ clean = TRUE /\ clean' = TRUE
    BY DEF RegInv, SafeInv, TypeOK
  <2>2. job.op = "import" /\ job.stage = "save" /\ ~Free
    BY NoJobIs DEF SaveImported, At, Free
  <2>3. QED BY <2>1, <2>2 DEF SaveImported, Finished, Loaded
<1>2. /\ Shown = was
      /\ was.where = w /\ was.inUse = EntryAt(active)
      /\ was.owner = [d \in Dirs |-> EntryAt(mapping[d])]
  BY <1>1 DEF RegInv, TableInv, WasInv, Shown, Numbering
<1>3. /\ Shown.where' = Places(ident') /\ Shown.inUse' = EntryAt(active)'
      /\ Shown.owner' = [d \in Dirs |-> EntryAt(mapping[d])]'
  BY <1>1, FreeShownNext
<1>4. Injective(ident) /\ Injective(ident') /\ 0 \notin Slots
  <2>1. (SafeInv => Injective(ident))'
    BY IdentInjective, PTL
  <2>2. QED BY <1>1, <2>1, IdentInjective, NoJobIs
<1>5. /\ active \in Slots \cup {0} /\ active' \in Slots \cup {0}
      /\ active # 0 => EntryAt(active) # NoOne
      /\ \A d \in Dirs : mapping[d] \in Slots \cup {0}
      /\ l \in Loads /\ ident' \in [Slots -> Someone]
  BY <1>1 DEF SafeInv, TypeOK, RegistryLoads, EntryAt, Jobs
<1>6. /\ \A e \in new : Shown.where[e] = 0
      /\ Shown.where' = [e \in Entries |->
            IF e \in new THEN CHOOSE s \in Slots : l[s] = e
            ELSE IF HeirIn(w, l, e) = e THEN w[e] ELSE 0]
  <2>1. \A e \in Entries :
           /\ e \in new => w[e] = 0
           /\ Places(ident')[e] =
                IF e \in new THEN CHOOSE s \in Slots : l[s] = e
                ELSE IF HeirIn(w, l, e) = e THEN w[e] ELSE 0
    BY <1>1, <1>4, ImportPlaces, Zenon
  <2>2. new \subseteq Entries
    BY <1>5 DEF Loads, Someone
  <2>3. Places(ident') = [e \in Entries |-> Places(ident')[e]]
    BY DEF Places
  <2> HIDE DEF new, w, l
  <2>4. QED BY <1>2, <1>3, <2>1, <2>2, <2>3
<1>7. \/ Shown.inUse' = HeirIn(w, l, Shown.inUse)
      \/ Shown.inUse = NoOne /\ Shown.inUse' \in new
  <2>1. Shown.inUse' = IF active' = 0 THEN NoOne ELSE ident'[active']
    BY <1>3 DEF EntryAt
  <2>2. CASE active # 0
    <3>1. HeirIn(w, l, EntryAt(active)) = ident'[active] /\ active' = active
      BY <1>1, <1>4, <1>5, <2>2, ImportIs
    <3>2. QED BY <1>2, <2>1, <2>2, <3>1
  <2>3. CASE active = 0 /\ active' = 0
    BY <1>2, <2>1, <2>3 DEF EntryAt, HeirIn
  <2>4. CASE active = 0 /\ active' # 0
    <3>1. active' \in Slots /\ l[active'] # NoOne
      BY <1>1, <2>4
    <3>2. ident'[active'] = l[active']
      BY <1>1, <3>1, RegisterIs DEF Loading, Loaded
    <3>3. QED BY <1>2, <2>1, <2>4, <3>1, <3>2 DEF EntryAt
  <2>5. QED BY <2>2, <2>3, <2>4
<1>8. /\ Shown.owner' \in [Dirs -> Someone]
      /\ \A d \in Dirs : Shown.owner[d] # NoOne =>
            Shown.owner'[d] = HeirIn(w, l, Shown.owner[d])
  <2>1. Shown.owner' = [d \in Dirs |-> IF mapping[d] = 0 THEN NoOne
                                       ELSE ident'[mapping[d]]]
    BY <1>1, <1>3 DEF EntryAt
  <2>2. ASSUME NEW d \in Dirs, EntryAt(mapping[d]) # NoOne
        PROVE  Shown.owner'[d] = HeirIn(w, l, EntryAt(mapping[d]))
    <3>1. mapping[d] # 0
      BY <2>2 DEF EntryAt
    <3>2. QED BY <1>1, <1>4, <1>5, <2>1, <2>2, <3>1, ImportIs
  <2>3. Shown.owner' \in [Dirs -> Someone]
    BY <1>5, <2>1 DEF Someone
  <2>4. QED BY <1>2, <2>2, <2>3
<1>9. Table!Import(l)
  BY <1>2, <1>6, <1>7, <1>8 DEF Table!Import, HeirIn, Someone
<1>10. QED BY <1>1, <1>5, <1>9 DEF Table!Next, Table!Operation, Loads, Someone

-----------------------------------------------------------------------------
(* A table that is whole after a step was whole before it.                 *)
LEMMA StaysWrecked == ASSUME [Next]_vars, SafeInv, clean' PROVE clean
<1>1. ASSUME NEW c \in Commands, Command(c) PROVE clean' = clean
  BY <1>1 DEF Command, Resolve, NotFound, RecordUsage, ForgetUsage, Activate,
              SetMapping, BeginRemove, BeginSwap, BeginMove, MoveRefused,
              Begin, ghosts
<1>2. CASE \/ \E e \in Entries : BeginAdd(e)
           \/ BeginImport
           \/ \E d \in Dirs : RemoveMapping(d)
  BY <1>2 DEF BeginAdd, BeginImport, RemoveMapping, Begin
<1>3. CASE Work
  BY <1>3 DEF Work, SwapOut, SwapOver, SwapIn, MoveHome, RemoveHome,
              WriteAuth, WriteCache, WriteMappings, SaveNumbers, SaveAdded,
              SaveActive, SaveImported, ghosts
<1>4. CASE RenameFails \/ Crash \/ Quarantine
  BY <1>4 DEF RenameFails, Crash, Quarantine, CutOff
<1>5. CASE UNCHANGED vars
  BY <1>5 DEF vars, ghosts
<1>6. QED BY <1>1, <1>2, <1>3, <1>4, <1>5 DEF Next

(* Every step is one of the table's operations, or one it does not show.   *)
LEMMA TableFollows ==
  ASSUME RegInv, RegInv', [Next]_vars
  PROVE  [Table!Next]_(Table!vars)
<1>1. CASE ~clean'
  BY <1>1, Wrecks
<1>2. CASE clean'
  <2>1. clean
    BY <1>2, StaysWrecked DEF RegInv
  <2>2. ASSUME NEW c \in Commands, Command(c)
        PROVE  Table!Next \/ UNCHANGED Table!vars
    BY <1>2, <2>1, <2>2, HiddenSteps, CommandShows DEF Command
  <2>3. CASE \/ \E e \in Entries : BeginAdd(e)
             \/ BeginImport
             \/ UNCHANGED vars
    BY <1>2, <2>1, <2>3, HiddenSteps
  <2>4. ASSUME NEW d \in Dirs, RemoveMapping(d)
        PROVE  Table!Next \/ UNCHANGED Table!vars
    BY <1>2, <2>1, <2>4, UnmapShows
  <2>5. CASE Work
    <3>1. CASE \/ SwapOut \/ SwapOver \/ SwapIn \/ MoveHome \/ RemoveHome
               \/ \E s \in Slots : WriteAuth(s)
               \/ WriteCache \/ WriteMappings
      BY <1>2, <2>1, <3>1, HiddenSteps
    <3>2. CASE SaveNumbers \/ SaveImported
      BY <1>2, <2>1, <3>2, NumbersShow, ImportShows
    <3>3. CASE SaveAdded
      <4>1. \/ Finished
            \/ Goto("activate") /\ was' = was
        BY <3>3 DEF SaveAdded
      <4>2. QED BY <1>2, <2>1, <3>3, <4>1, AddShows, HiddenSteps
    <3>4. CASE SaveActive
      <4>1. job.stage = "activate"
        BY <3>4 DEF SaveActive, At
      <4>2. QED BY <1>2, <2>1, <3>4, <4>1, ActivatingShows
    <3>5. QED BY <2>5, <3>1, <3>2, <3>3, <3>4 DEF Work
  <2>6. CASE RenameFails \/ Crash
    <3>1. CASE job.stage = "activate"
      <4>1. ~Renaming
        BY <3>1, Zenon DEF Renaming
      <4>2. Crash
        BY <2>6, <4>1 DEF RenameFails
      <4>3. QED BY <1>2, <2>1, <3>1, <4>2, ActivatingShows
    <3>2. CASE job.stage # "activate"
      BY <1>2, <2>1, <2>6, <3>2, FailuresShow
    <3>3. QED BY <3>1, <3>2
  <2>7. CASE Quarantine
    BY <1>2, <2>7 DEF Quarantine
  <2>8. QED BY <2>2, <2>3, <2>4, <2>5, <2>6, <2>7 DEF Next
<1>3. QED BY <1>1, <1>2

(* The registry implements AccountTable, for any number of commands, slots *)
(* and directories: each operation takes effect as a whole when            *)
(* accounts.json is saved (AccountStore of store.py, mappings.py and the   *)
(* import of transfer.py).                                                 *)
THEOREM RegistryIsTable == Spec => ImplementsTable
<1>1. Init => Table!Init
  BY ShowsTheStart
<1>2. RegInv /\ RegInv' /\ [Next]_vars => [Table!Next]_(Table!vars)
  BY TableFollows
<1>3. QED BY <1>1, <1>2, RegistryInductive, PTL
          DEF Spec, ImplementsTable, Table!Spec

-----------------------------------------------------------------------------
(* A step without a fault leaves the table whole, and faults are counted.  *)
LEMMA FaultsCounted ==
  ASSUME [Next]_vars
  PROVE  \/ faults' = faults /\ clean' = clean
         \/ faults' = faults + 1
<1>1. ASSUME NEW c \in Commands, Command(c)
      PROVE  faults' = faults /\ clean' = clean
  BY <1>1 DEF Command, Resolve, NotFound, RecordUsage, ForgetUsage, Activate,
              SetMapping, BeginRemove, BeginSwap, BeginMove, MoveRefused,
              Begin, ghosts
<1>2. CASE \/ \E e \in Entries : BeginAdd(e)
           \/ BeginImport
           \/ \E d \in Dirs : RemoveMapping(d)
  BY <1>2 DEF BeginAdd, BeginImport, RemoveMapping, Begin
<1>3. CASE Work
  BY <1>3 DEF Work, SwapOut, SwapOver, SwapIn, MoveHome, RemoveHome,
              WriteAuth, WriteCache, WriteMappings, SaveNumbers, SaveAdded,
              SaveActive, SaveImported, ghosts
<1>4. CASE RenameFails \/ Crash \/ Quarantine
  BY <1>4 DEF RenameFails, Crash, Quarantine, Fault
<1>5. CASE UNCHANGED vars
  BY <1>5 DEF vars, ghosts
<1>6. QED BY <1>1, <1>2, <1>3, <1>4, <1>5 DEF Next

(* Only a fault wrecks the table: where no rename fails, no process dies   *)
(* and nobody damages accounts.json, every operation takes effect as a     *)
(* whole (Registry!clean is AccountTable!wrecked, denied).                 *)
THEOREM OnlyFaultsWreck == Spec => [](faults = 0 => clean)
<1>1. Init => (faults = 0 => clean)
  BY DEF Init
<1>2. SafeInv /\ (faults = 0 => clean) /\ [Next]_vars
      => (faults = 0 => clean)'
  <2>1. SafeInv => faults \in Nat
    BY RegistryAssumption DEF SafeInv, TypeOK
  <2>2. QED BY <2>1, FaultsCounted
<1>3. QED BY <1>1, <1>2, SafeAlways, PTL DEF Spec
=============================================================================
