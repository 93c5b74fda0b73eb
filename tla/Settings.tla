------------------------------ MODULE Settings ------------------------------
(***************************************************************************)
(* settings.json and the commands that change it: Settings.load, set,      *)
(* unset and save of settings.py, as `codexswap config' calls them.        *)
(*                                                                         *)
(* The file is an object of sections, one for each group of keys, that the *)
(* user may edit by hand.  What stands for a key is a value that is valid  *)
(* for it, a Bad one, or nothing.  A section may also hold fields codexswap*)
(* does not know, or be no object itself.  Which value is valid for which  *)
(* key is abstracted to the two sets; the wording of errors is left out.   *)
(***************************************************************************)
EXTENDS Integers, FiniteSets

CONSTANTS
    Commands,  \* processes that run `config set' and `config unset'
    Keys,
    Groups,
    GroupOf,   \* the part of a key before the dot
    Values,    \* the values that are valid
    Absent,
    Bad,
    ByHand(_), \* which files are found after an edit by hand
    MaxEdits   \* bound: how often the file changes from outside

ASSUME SettingsAssumption ==
    /\ Keys # {} /\ GroupOf \in [Keys -> Groups]
    /\ Absent \notin Values /\ Bad \notin Values /\ Absent # Bad
    /\ MaxEdits \in Nat

VARIABLES
    file,     \* settings.json
    command,  \* what each process is to change, and its Settings object
    behind,   \* ghost: the processes that loaded an older file than this one
    raced,    \* ghost: one of them has saved
    meant,    \* ghost: what was asked for, or written by hand, for each key
    edits     \* edits so far

vars == <<file, command, behind, raced, meant, edits>>

Nothing == [k \in Keys |-> Absent]
Files ==
    [shape : {"missing", "damaged", "object"},
     entry : [Keys -> Values \cup {Absent, Bad}],
     foreign : SUBSET Groups,  \* the sections that hold unknown fields
     scalar : SUBSET Groups]   \* the sections that are no objects
Blank(shape) ==
    [shape |-> shape, entry |-> Nothing, foreign |-> {}, scalar |-> {}]

(* A section that is no object holds nothing.                              *)
Sound(f) ==
    /\ f.shape # "object" => f = Blank(f.shape)
    /\ f.foreign \cap f.scalar = {}
    /\ \A k \in Keys : GroupOf[k] \in f.scalar => f.entry[k] = Absent

(* What load makes of a key: its value, Absent for the default, or Bad, if *)
(* it is among `invalid', so that decide fails closed.                     *)
Reads(f, k) ==
    IF f.shape = "damaged" \/ GroupOf[k] \in f.scalar THEN Bad ELSE f.entry[k]

(* As if save wrote down what the command itself has set.                  *)
NoneOf(f) == [values |-> Nothing, bad |-> {k \in Keys : f.entry[k] = Bad},
              foreign |-> f.foreign, scalar |-> f.scalar]
(* load: the valid values, and what save is to write back as it was.       *)
Settings(f) ==
    [values |-> [k \in Keys |-> IF f.entry[k] = Bad THEN Absent
                                ELSE f.entry[k]],
     bad |-> {k \in Keys : f.entry[k] = Bad},
     foreign |-> f.foreign, scalar |-> f.scalar]

Set(s, k, v) == [s EXCEPT !.values[k] = v]

(* As if the value that was rejected were left to be written back.         *)
UnsetValue(s, k) == [s EXCEPT !.values[k] = Absent]
Unset(s, k) ==
    [s EXCEPT !.values[k] = Absent, !.bad = @ \ {k},
              !.scalar = @ \ {GroupOf[k]}]

(* As if save replaced no section, whatever it was.                        *)
AllScalar(s) == s.scalar
StillScalar(s) ==
    {g \in s.scalar : \A k \in Keys : GroupOf[k] = g => s.values[k] = Absent}

(* As if rejected values were forgotten.                                   *)
ValuesOnly(s) == s.values
Entries(s) ==
    [k \in Keys |-> IF s.values[k] = Absent /\ k \in s.bad THEN Bad
                    ELSE s.values[k]]
Written(s) ==
    [shape |-> "object", entry |-> Entries(s), foreign |-> s.foreign,
     scalar |-> StillScalar(s)]

Idle == [pc |-> "idle", key |-> CHOOSE k \in Keys : TRUE, want |-> Absent,
         settings |-> Settings(Blank("missing"))]

Init ==
    /\ file = Blank("missing")
    /\ command = [p \in Commands |-> Idle]
    /\ behind = {} /\ raced = FALSE /\ meant = Nothing /\ edits = 0

-----------------------------------------------------------------------------
(* The command line is read, and the file; nothing is locked.              *)
Begin(p, k, v) ==
    /\ command[p].pc = "idle"
    /\ command' = [command EXCEPT ![p] =
                      [pc |-> "loaded", key |-> k, want |-> v,
                       settings |-> Settings(file)]]
    /\ UNCHANGED <<file, behind, raced, meant, edits>>

Changed(p) ==
    LET c == command[p]
    IN  IF c.want = Absent THEN Unset(c.settings, c.key)
        ELSE Set(c.settings, c.key, c.want)

Loaded(p) == command[p].pc = "loaded"
Leave(p) == command' = [command EXCEPT ![p] = Idle]
NowBehind(p) == {q \in Commands : Loaded(q)} \ {p}

(* The change, and the lock around the write that replaces the file.       *)
Save(p) ==
    /\ Loaded(p)
    /\ file' = Written(Changed(p))
    /\ Leave(p)
    /\ behind' = NowBehind(p)
    /\ raced' = (raced \/ p \in behind)
    /\ meant' = [meant EXCEPT ![command[p].key] = command[p].want]
    /\ UNCHANGED edits

(* The value is refused, the lock is busy, or the process dies.            *)
Fail(p) ==
    /\ Loaded(p)
    /\ Leave(p)
    /\ behind' = behind \ {p}
    /\ UNCHANGED <<file, raced, meant, edits>>

(* The file is edited by hand, damaged or removed.                         *)
Edit(f) ==
    /\ edits < MaxEdits /\ Sound(f) /\ ByHand(f)
    /\ file' = f
    /\ behind' = {q \in Commands : Loaded(q)}
    /\ meant' = [k \in Keys |-> Reads(f, k)]
    /\ edits' = edits + 1
    /\ UNCHANGED <<command, raced>>

Next ==
    \/ \E p \in Commands :
          \/ \E k \in Keys, v \in Values \cup {Absent} : Begin(p, k, v)
          \/ Save(p) \/ Fail(p)
    \/ \E f \in Files : Edit(f)

Spec == Init /\ [][Next]_vars

-----------------------------------------------------------------------------
(* Properties.                                                             *)

(* Every variable has its type, and the file is one that a program writes. *)
TypeOK ==
    /\ file \in Files /\ Sound(file)
    /\ DOMAIN command = Commands
    /\ \A p \in Commands :
          /\ command[p].pc \in {"idle", "loaded"} /\ command[p].key \in Keys
          /\ command[p].want \in Values \cup {Absent}
          /\ command[p].settings.values \in [Keys -> Values \cup {Absent}]
    /\ behind \subseteq Commands /\ raced \in BOOLEAN
    /\ meant \in [Keys -> Values \cup {Absent, Bad}]
    /\ edits \in 0..MaxEdits

(* A command that succeeds has done what it says, whatever was in the file,*)
(* a value that was rejected or a section that is no object included.      *)
CommandTakesEffect ==
    [][\A p \in Commands : Save(p) =>
          Reads(file', command[p].key) = command[p].want]_vars

(* A command that nothing came in between of leaves everything else as it  *)
(* was: the other settings, those it rejects, so that they go on failing   *)
(* closed, and what it does not know.  An unreadable file or section that  *)
(* it has to replace is the exception.                                     *)
OthersKept ==
    [][\A p \in Commands : Save(p) /\ p \notin behind =>
          /\ file'.foreign = file.foreign
          /\ \A k \in Keys \ {command[p].key} :
                \/ Reads(file', k) = Reads(file, k)
                \/ file.shape = "damaged"
                \/ GroupOf[k] = GroupOf[command[p].key]
                   /\ GroupOf[k] \in file.scalar]_vars

(* While no two commands overlap, every setting is what it was last asked  *)
(* to be, over any number of commands, failures and edits.                 *)
SerialHistoryHolds ==
    ~raced => \A k \in Keys : meant[k] # Bad => Reads(file, k) = meant[k]

(* settings.py: "Two `config set` commands touching different keys must    *)
(* not lose each other."                                                   *)
ChangesSurvive ==
    \A k \in Keys : meant[k] # Bad => Reads(file, k) = meant[k]
=============================================================================
