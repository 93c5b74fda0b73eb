--------------------------- MODULE SettingsProofs ---------------------------
(***************************************************************************)
(* What the commands promise about settings.json, for all keys, sections   *)
(* and values, any number of commands, and any edits by hand.              *)
(***************************************************************************)
EXTENDS Settings, TLAPS

(* A Settings object as load makes it.                                     *)
SettingsType ==
    [values : [Keys -> Values \cup {Absent}], bad : SUBSET Keys,
     foreign : SUBSET Groups, scalar : SUBSET Groups]
SoundSettings(s) ==
    /\ s \in SettingsType
    /\ s.foreign \cap s.scalar = {}
    /\ \A k \in Keys : GroupOf[k] \in s.scalar =>
                          s.values[k] = Absent /\ k \notin s.bad

(* The change that a command makes of what it has loaded.                  *)
Change(s, k, v) == IF v = Absent THEN Unset(s, k) ELSE Set(s, k, v)

CommandType ==
    [pc : {"idle", "loaded"}, key : Keys, want : Values \cup {Absent},
     settings : SettingsType]

(* The inductive invariant: a command that nothing came in between of      *)
(* holds what the file holds.                                              *)
SettingsInv ==
    /\ TypeOK
    /\ command \in [Commands -> CommandType]
    /\ \A p \in Commands : SoundSettings(command[p].settings)
    /\ \A p \in Commands :
          Loaded(p) /\ p \notin behind => command[p].settings = Settings(file)
    /\ SerialHistoryHolds

-----------------------------------------------------------------------------
(* Loading a file that a program or a user has written.                    *)
LEMMA LoadSound ==
  ASSUME NEW f \in Files, Sound(f)
  PROVE  SoundSettings(Settings(f))
BY SettingsAssumption
   DEF SoundSettings, SettingsType, Settings, Files, Sound

LEMMA BlankSound ==
  ASSUME NEW shape \in {"missing", "damaged", "object"}
  PROVE  Blank(shape) \in Files /\ Sound(Blank(shape))
BY SettingsAssumption DEF Blank, Nothing, Files, Sound

(* Saving a change writes a sound file, which reads as was asked.          *)
LEMMA ChangeTypes ==
  ASSUME NEW s \in SettingsType, NEW k \in Keys,
         NEW v \in Values \cup {Absent}
  PROVE  /\ Change(s, k, v) \in SettingsType
         /\ Change(s, k, v).values = [s.values EXCEPT ![k] = v]
         /\ Change(s, k, v).foreign = s.foreign
         /\ \A j \in Keys : j \in Change(s, k, v).bad <=>
               j \in s.bad /\ ~(v = Absent /\ j = k)
         /\ \A g \in Groups : g \in Change(s, k, v).scalar <=>
               g \in s.scalar /\ ~(v = Absent /\ g = GroupOf[k])
<1>1. CASE v = Absent
  BY <1>1, SettingsAssumption DEF Change, Unset, SettingsType
<1>2. CASE v # Absent
  BY <1>2, SettingsAssumption DEF Change, Set, SettingsType
<1>3. QED BY <1>1, <1>2

LEMMA WrittenSound ==
  ASSUME NEW s, SoundSettings(s), NEW k \in Keys,
         NEW v \in Values \cup {Absent}
  PROVE  /\ Written(Change(s, k, v)) \in Files
         /\ Sound(Written(Change(s, k, v)))
         /\ Reads(Written(Change(s, k, v)), k) = v
<1> DEFINE c == Change(s, k, v)
           f == Written(c)
<1>1. s \in SettingsType
  BY DEF SoundSettings
<1>2. /\ c \in SettingsType
      /\ c.values = [s.values EXCEPT ![k] = v]
      /\ c.foreign = s.foreign
      /\ \A j \in Keys : j \in c.bad <=>
            j \in s.bad /\ ~(v = Absent /\ j = k)
      /\ \A g \in Groups : g \in c.scalar <=>
            g \in s.scalar /\ ~(v = Absent /\ g = GroupOf[k])
  BY <1>1, ChangeTypes
<1> HIDE DEF c
<1>3. /\ f.shape = "object" /\ f.entry = Entries(c)
      /\ f.foreign = c.foreign /\ f.scalar = StillScalar(c)
  BY DEF Written
<1>4. f \in Files
  BY <1>2 DEF Written, Files, Entries, StillScalar, SettingsType
<1>5. \A j \in Keys : GroupOf[j] \in StillScalar(c) =>
         /\ c.values[j] = Absent
         /\ GroupOf[j] \in s.scalar
  BY <1>2, SettingsAssumption DEF StillScalar
<1>6. \A j \in Keys : GroupOf[j] \in StillScalar(c) => j \notin c.bad
  BY <1>2, <1>5 DEF SoundSettings
<1>7. \A j \in Keys : GroupOf[j] \in f.scalar => f.entry[j] = Absent
  BY <1>3, <1>5, <1>6 DEF Entries
<1>8. f.foreign \cap f.scalar = {}
  BY <1>1, <1>2, <1>3 DEF StillScalar, SoundSettings, SettingsType
<1>9. Sound(f)
  BY <1>3, <1>7, <1>8 DEF Sound
<1>10. GroupOf[k] \notin StillScalar(c)
  BY <1>1, <1>2, <1>5, SettingsAssumption DEF SettingsType, StillScalar
<1>11. f.entry[k] = v
  BY <1>1, <1>2, <1>3, SettingsAssumption DEF Entries, SettingsType
<1>12. Reads(f, k) = v
  BY <1>3, <1>10, <1>11 DEF Reads
<1>13. QED BY <1>4, <1>9, <1>12 DEF c

(* A change of one key that was made of the file itself leaves the others. *)
LEMMA ChangeKeepsOthers ==
  ASSUME NEW f \in Files, Sound(f), NEW k \in Keys,
         NEW v \in Values \cup {Absent},
         NEW j \in Keys \ {k}
  PROVE  LET g == Written(Change(Settings(f), k, v))
         IN  \/ Reads(g, j) = Reads(f, j)
             \/ f.shape = "damaged"
             \/ GroupOf[j] = GroupOf[k] /\ GroupOf[j] \in f.scalar
<1> DEFINE s == Settings(f)
           c == Change(s, k, v)
           g == Written(c)
<1>1. s \in SettingsType
  BY LoadSound DEF SoundSettings
<1>2. /\ c.values = [s.values EXCEPT ![k] = v]
      /\ \A i \in Keys : i \in c.bad <=>
            i \in s.bad /\ ~(v = Absent /\ i = k)
      /\ \A h \in Groups : h \in c.scalar <=>
            h \in s.scalar /\ ~(v = Absent /\ h = GroupOf[k])
  BY <1>1, ChangeTypes
<1>3. /\ s.values[j] = IF f.entry[j] = Bad THEN Absent ELSE f.entry[j]
      /\ j \in s.bad <=> f.entry[j] = Bad
      /\ s.scalar = f.scalar
  BY DEF Settings
<1>4. c.values[j] = s.values[j] /\ (j \in c.bad <=> j \in s.bad)
  BY <1>1, <1>2 DEF SettingsType
<1> HIDE DEF c
<1>5. g.entry[j] = f.entry[j]
  BY <1>3, <1>4, SettingsAssumption DEF Written, Entries
<1>6. g.shape = "object" /\ g.scalar = StillScalar(c)
  BY DEF Written
<1>7. SUFFICES ASSUME f.shape # "damaged",
                      ~(GroupOf[j] = GroupOf[k] /\ GroupOf[j] \in f.scalar)
               PROVE  Reads(g, j) = Reads(f, j)
  BY DEF c
<1>8. CASE GroupOf[j] \notin f.scalar
  <2>1. GroupOf[j] \notin g.scalar
    BY <1>2, <1>3, <1>6, <1>8, SettingsAssumption DEF StillScalar
  <2>2. QED BY <1>5, <1>6, <1>7, <1>8, <2>1 DEF Reads
<1>9. CASE GroupOf[j] \in f.scalar
  <2>1. GroupOf[j] # GroupOf[k]
    BY <1>7, <1>9
  <2>2. \A i \in Keys : GroupOf[i] = GroupOf[j] => c.values[i] = Absent
    <3>1. SUFFICES ASSUME NEW i \in Keys, GroupOf[i] = GroupOf[j]
                   PROVE  c.values[i] = Absent
      OBVIOUS
    <3>2. i # k
      BY <2>1, <3>1
    <3>3. s.values[i] = Absent
      BY <1>3, <1>9, <3>1, LoadSound DEF SoundSettings
    <3>4. QED BY <1>1, <1>2, <3>2, <3>3 DEF SettingsType
  <2>3. GroupOf[j] \in g.scalar
    BY <1>2, <1>3, <1>6, <1>9, <2>1, <2>2, SettingsAssumption
       DEF StillScalar
  <2>4. QED BY <1>9, <2>3 DEF Reads
<1>10. QED BY <1>8, <1>9
-----------------------------------------------------------------------------
(* What a save does, of a command nothing came in between of or not.       *)
LEMMA SaveFacts ==
  ASSUME SettingsInv, NEW p \in Commands, Save(p)
  PROVE  /\ file' \in Files /\ Sound(file)'
         /\ Reads(file', command[p].key) = command[p].want
         /\ p \notin behind => file'.foreign = file.foreign
         /\ p \notin behind => \A j \in Keys \ {command[p].key} :
               \/ Reads(file', j) = Reads(file, j)
               \/ file.shape = "damaged"
               \/ GroupOf[j] = GroupOf[command[p].key]
                  /\ GroupOf[j] \in file.scalar
<1> DEFINE c == command[p]
<1>1. /\ c.key \in Keys /\ c.want \in Values \cup {Absent}
      /\ SoundSettings(c.settings)
  BY DEF SettingsInv, TypeOK
<1>2. file' = Written(Change(c.settings, c.key, c.want))
  BY DEF Save, Changed, Change
<1>3. /\ file' \in Files /\ Sound(file')
      /\ Reads(file', c.key) = c.want
  BY <1>1, <1>2, WrittenSound
<1>4. ASSUME p \notin behind
      PROVE  c.settings = Settings(file) /\ file \in Files /\ Sound(file)
  BY <1>4 DEF SettingsInv, Save, TypeOK
<1>5. ASSUME p \notin behind
      PROVE  file'.foreign = file.foreign
  <2>1. file'.foreign = Change(c.settings, c.key, c.want).foreign
    BY <1>2 DEF Written
  <2>2. Change(c.settings, c.key, c.want).foreign = c.settings.foreign
    BY <1>1, ChangeTypes DEF SoundSettings
  <2>3. c.settings.foreign = file.foreign
    BY <1>4, <1>5 DEF Settings
  <2>4. QED BY <2>1, <2>2, <2>3
<1>6. QED BY <1>1, <1>2, <1>3, <1>4, <1>5, ChangeKeepsOthers DEF Sound

LEMMA InitInv ==
  Init => SettingsInv
<1> SUFFICES ASSUME Init PROVE SettingsInv
  OBVIOUS
<1>1. file \in Files /\ Sound(file)
  BY BlankSound DEF Init
<1>2. SoundSettings(Settings(Blank("missing")))
  BY BlankSound, LoadSound
<1>3. (CHOOSE k \in Keys : TRUE) \in Keys
  BY SettingsAssumption
<1>4. Idle \in CommandType /\ SoundSettings(Idle.settings)
  BY <1>2, <1>3 DEF Idle, CommandType, SoundSettings
<1>5. command \in [Commands -> CommandType]
  BY <1>4 DEF Init
<1>6. \A p \in Commands : command[p] = Idle
  BY DEF Init
<1>7. \A p \in Commands : SoundSettings(command[p].settings) /\ ~Loaded(p)
  BY <1>4, <1>6 DEF Loaded, Idle
<1>8. TypeOK
  <2>1. behind \subseteq Commands /\ edits \in 0..MaxEdits
    <3>1. behind = {} /\ edits = 0
      BY DEF Init
    <3>2. QED BY <3>1, SettingsAssumption
  <2>2. raced \in BOOLEAN
    BY DEF Init
  <2>3. meant \in [Keys -> Values \cup {Absent, Bad}]
    BY DEF Init, Nothing
  <2>4. QED BY <1>1, <1>5, <2>1, <2>2, <2>3
            DEF TypeOK, CommandType, SettingsType
<1>9. SerialHistoryHolds
  <2>1. /\ file.shape = "missing" /\ file.scalar = {}
        /\ file.entry = Nothing /\ meant = Nothing
    BY DEF Init, Blank
  <2>2. QED BY <2>1 DEF SerialHistoryHolds, Reads
<1>10. QED BY <1>5, <1>7, <1>8, <1>9 DEF SettingsInv

(* The commands' part of the invariant, from what becomes of them.         *)
LEMMA NextInv ==
  SettingsInv /\ [Next]_vars => SettingsInv'
<1> SUFFICES ASSUME SettingsInv, [Next]_vars PROVE SettingsInv'
  OBVIOUS
<1> USE DEF SettingsInv
<1>0. Idle \in CommandType /\ SoundSettings(Idle.settings)
  <2>1. SoundSettings(Settings(Blank("missing")))
    BY BlankSound, LoadSound
  <2>2. (CHOOSE k \in Keys : TRUE) \in Keys
    BY SettingsAssumption
  <2>3. QED BY <2>1, <2>2 DEF Idle, CommandType, SoundSettings
<1>1. ASSUME NEW p \in Commands, NEW k \in Keys,
             NEW v \in Values \cup {Absent}, Begin(p, k, v)
      PROVE  SettingsInv'
  <2> DEFINE c == [pc |-> "loaded", key |-> k, want |-> v,
                   settings |-> Settings(file)]
  <2>1. c \in CommandType /\ SoundSettings(c.settings)
    BY LoadSound DEF CommandType, SoundSettings, TypeOK
  <2>2. command' = [command EXCEPT ![p] = c]
    BY <1>1 DEF Begin
  <2>3. UNCHANGED <<file, behind, raced, meant, edits>>
    BY <1>1 DEF Begin
  <2>4. command' \in [Commands -> CommandType]
    BY <2>1, <2>2
  <2>5. \A q \in Commands : SoundSettings(command[q].settings)'
    BY <2>1, <2>2, <2>4
  <2>6. \A q \in Commands :
           (Loaded(q) /\ q \notin behind
               => command[q].settings = Settings(file))'
    BY <2>2, <2>3 DEF Loaded
  <2>7. TypeOK'
    BY <2>3, <2>4 DEF TypeOK, CommandType, SettingsType
  <2>8. SerialHistoryHolds'
    BY <2>3 DEF SerialHistoryHolds
  <2>9. QED BY <2>4, <2>5, <2>6, <2>7, <2>8
<1>2. ASSUME NEW p \in Commands, Leave(p)
      PROVE  /\ command' \in [Commands -> CommandType]
             /\ \A q \in Commands : SoundSettings(command[q].settings)'
             /\ \A q \in Commands :
                   Loaded(q)' => q # p /\ Loaded(q) /\ command'[q] = command[q]
  <2>1. command' = [command EXCEPT ![p] = Idle]
    BY <1>2 DEF Leave
  <2>2. command' \in [Commands -> CommandType]
    BY <1>0, <2>1
  <2>3. QED BY <1>0, <2>1, <2>2 DEF Loaded, Idle
<1>3. ASSUME NEW p \in Commands, Save(p)
      PROVE  SettingsInv'
  <2>1. Leave(p) /\ UNCHANGED edits /\ behind' = NowBehind(p)
    BY <1>3 DEF Save
  <2>2. /\ command' \in [Commands -> CommandType]
        /\ \A q \in Commands : SoundSettings(command[q].settings)'
        /\ \A q \in Commands : Loaded(q)' => q \in behind'
    BY <1>2, <2>1 DEF NowBehind
  <2>3. /\ command[p].key \in Keys
        /\ command[p].want \in Values \cup {Absent}
    BY DEF TypeOK
  <2>4. meant' = [meant EXCEPT ![command[p].key] = command[p].want]
    BY <1>3 DEF Save
  <2>5. TypeOK'
    <3>1. meant' \in [Keys -> Values \cup {Absent, Bad}]
      BY <2>3, <2>4 DEF TypeOK
    <3>2. raced' \in BOOLEAN
      BY <1>3 DEF Save, TypeOK
    <3>3. QED BY <1>3, <2>1, <2>2, <3>1, <3>2, SaveFacts
               DEF TypeOK, CommandType, SettingsType, NowBehind
  <2>6. SerialHistoryHolds'
    <3>1. SUFFICES ASSUME ~raced', NEW j \in Keys, meant'[j] # Bad
                   PROVE  Reads(file', j) = meant'[j]
      BY DEF SerialHistoryHolds, Reads
    <3>2. ~raced /\ p \notin behind
      BY <1>3, <3>1 DEF Save, TypeOK
    <3>3. CASE j = command[p].key
      BY <1>3, <2>3, <2>4, <3>3, SaveFacts DEF TypeOK
    <3>4. CASE j # command[p].key
      <4>1. meant'[j] = meant[j]
        BY <2>4, <3>4 DEF TypeOK
      <4>2. Reads(file, j) = meant[j]
        BY <3>1, <3>2, <4>1 DEF SerialHistoryHolds
      <4>3. file.shape # "damaged" /\ GroupOf[j] \notin file.scalar
        BY <3>1, <4>1, <4>2 DEF Reads
      <4>4. QED BY <1>3, <3>2, <3>4, <4>1, <4>2, <4>3, SaveFacts
    <3>5. QED BY <3>3, <3>4
  <2>7. QED BY <2>2, <2>5, <2>6
<1>4. ASSUME NEW p \in Commands, Fail(p)
      PROVE  SettingsInv'
  <2>1. Leave(p) /\ UNCHANGED <<file, raced, meant, edits>>
    BY <1>4 DEF Fail
  <2>2. behind' = behind \ {p}
    BY <1>4 DEF Fail
  <2>3. /\ command' \in [Commands -> CommandType]
        /\ \A q \in Commands : SoundSettings(command[q].settings)'
    BY <1>2, <2>1
  <2>4. \A q \in Commands :
           (Loaded(q) /\ q \notin behind
               => command[q].settings = Settings(file))'
    BY <1>2, <2>1, <2>2
  <2>5. TypeOK'
    BY <2>1, <2>2, <2>3 DEF TypeOK, CommandType, SettingsType
  <2>6. SerialHistoryHolds'
    BY <2>1 DEF SerialHistoryHolds
  <2>7. QED BY <2>3, <2>4, <2>5, <2>6
<1>5. ASSUME NEW f \in Files, Edit(f)
      PROVE  SettingsInv'
  <2>1. file' = f /\ Sound(f) /\ UNCHANGED <<command, raced>>
    BY <1>5 DEF Edit
  <2>2. /\ behind' = {q \in Commands : Loaded(q)}
        /\ meant' = [k \in Keys |-> Reads(f, k)]
        /\ edits < MaxEdits /\ edits' = edits + 1
    BY <1>5 DEF Edit
  <2>3. \A k \in Keys : Reads(f, k) \in Values \cup {Absent, Bad}
    BY DEF Reads, Files
  <2>4. edits' \in 0..MaxEdits
    BY <2>2, SettingsAssumption DEF TypeOK
  <2>5. TypeOK'
    BY <2>1, <2>2, <2>3, <2>4 DEF TypeOK
  <2>6. \A q \in Commands : Loaded(q)' => q \in behind'
    BY <2>1, <2>2 DEF Loaded
  <2>7. SerialHistoryHolds'
    BY <2>1, <2>2 DEF SerialHistoryHolds
  <2>8. QED BY <2>1, <2>5, <2>6, <2>7
<1>6. CASE UNCHANGED vars
  BY <1>6 DEF vars, TypeOK, SerialHistoryHolds, Loaded
<1>7. QED BY <1>1, <1>3, <1>4, <1>5, <1>6 DEF Next

(* The invariant holds throughout, and with it the type invariant.         *)
THEOREM SettingsInductive == Spec => []SettingsInv
<1>1. QED BY InitInv, NextInv, PTL DEF Spec

THEOREM SettingsTypeCorrect == Spec => []TypeOK
<1>1. SettingsInv => TypeOK
  BY DEF SettingsInv
<1>2. QED BY <1>1, SettingsInductive, PTL

(* Without overlapping commands no change is ever lost.                    *)
THEOREM SerialHistoryAlways == Spec => []SerialHistoryHolds
<1>1. SettingsInv => SerialHistoryHolds
  BY DEF SettingsInv
<1>2. QED BY <1>1, SettingsInductive, PTL

(* A command that succeeds, overlapping or not, has done what it says.     *)
THEOREM CommandsTakeEffect == Spec => CommandTakesEffect
<1>1. SettingsInv /\ [Next]_vars =>
         [\A p \in Commands : Save(p) =>
             Reads(file', command[p].key) = command[p].want]_vars
  BY SaveFacts
<1>2. QED BY <1>1, SettingsInductive, PTL DEF Spec, CommandTakesEffect

(* A command that nothing came in between of leaves everything else alone. *)
THEOREM OthersAlwaysKept == Spec => OthersKept
<1>1. SettingsInv /\ [Next]_vars =>
         [\A p \in Commands : Save(p) /\ p \notin behind =>
             /\ file'.foreign = file.foreign
             /\ \A k \in Keys \ {command[p].key} :
                   \/ Reads(file', k) = Reads(file, k)
                   \/ file.shape = "damaged"
                   \/ GroupOf[k] = GroupOf[command[p].key]
                      /\ GroupOf[k] \in file.scalar]_vars
  BY SaveFacts
<1>2. QED BY <1>1, SettingsInductive, PTL DEF Spec, OthersKept
=============================================================================
