---------------------------- MODULE AccountTable ----------------------------
(***************************************************************************)
(* What the account registry promises.  Slot numbers are only where an     *)
(* entry is kept: a directory belongs to an entry, one entry is in use,    *)
(* and giving the slots other numbers changes neither.  An operation takes *)
(* effect as a whole.  Only a crash in the middle of one (or a registry    *)
(* damaged from outside) wrecks the table, and then nothing is promised    *)
(* here.                                                                   *)
(***************************************************************************)
EXTENDS Integers

CONSTANTS Entries, Slots, Dirs, NoOne

VARIABLES
    where,   \* the slot of each entry, 0 if it has none
    inUse,   \* the entry in use
    owner,   \* the entry each directory belongs to
    wrecked

vars == <<where, inUse, owner, wrecked>>

Init ==
    /\ where = [e \in Entries |-> 0]
    /\ inUse = NoOne
    /\ owner = [d \in Dirs |-> NoOne]
    /\ wrecked = FALSE

Vacant(s) == \A e \in Entries : where[e] # s

(* Directories change hands only from nobody to somebody: one mapped to a  *)
(* slot that was freed in the meantime falls to the slot's next entry.     *)
OwnersKeep ==
    /\ owner' \in [Dirs -> Entries \cup {NoOne}]
    /\ \A d \in Dirs : owner[d] # NoOne => owner'[d] = owner[d]

Add(e, s) ==
    /\ where[e] = 0 /\ Vacant(s)
    /\ where' = [where EXCEPT ![e] = s]
    /\ inUse' \in {inUse, e}
    /\ OwnersKeep

Use(e) ==
    /\ where[e] # 0
    /\ inUse' = e
    /\ UNCHANGED <<where, owner>>

(* import: the entries in l are new; one that takes the place of another   *)
(* also takes all that belonged to it.                                     *)
Import(l) ==
    LET new == {l[s] : s \in Slots} \ {NoOne}
        Heir(x) == IF x # NoOne /\ where[x] # 0 /\ l[where[x]] # NoOne
                   THEN l[where[x]] ELSE x
    IN  /\ \A e \in new : where[e] = 0
        /\ where' = [e \in Entries |->
              IF e \in new THEN CHOOSE s \in Slots : l[s] = e
              ELSE IF Heir(e) = e THEN where[e] ELSE 0]
        /\ \/ inUse' = Heir(inUse)
           \/ inUse = NoOne /\ inUse' \in new
        /\ owner' \in [Dirs -> Entries \cup {NoOne}]
        /\ \A d \in Dirs :
              owner[d] # NoOne => owner'[d] = Heir(owner[d])

Remove(e) ==
    LET Left(x) == IF x = e THEN NoOne ELSE x
    IN  /\ where[e] # 0
        /\ where' = [where EXCEPT ![e] = 0]
        /\ inUse' = Left(inUse)
        /\ owner' = [d \in Dirs |-> Left(owner[d])]

(* swap and move.                                                          *)
Renumber ==
    /\ where' \in [Entries -> Slots \cup {0}]
    /\ \A e \in Entries : where'[e] = 0 <=> where[e] = 0
    /\ \A e, f \in Entries : where'[e] = where'[f] /\ where'[e] # 0 => e = f
    /\ inUse' = inUse
    /\ OwnersKeep

Map(d, e) ==
    /\ owner' = [owner EXCEPT ![d] = e]
    /\ UNCHANGED <<where, inUse>>

Operation ==
    \/ \E e \in Entries : Use(e) \/ Remove(e) \/ \E s \in Slots : Add(e, s)
    \/ \E l \in [Slots -> Entries \cup {NoOne}] : Import(l)
    \/ Renumber
    \/ \E d \in Dirs, e \in Entries \cup {NoOne} : Map(d, e)

Next ==
    \/ ~wrecked /\ Operation /\ wrecked' = FALSE
    \/ wrecked' = TRUE

Spec == Init /\ [][Next]_vars
=============================================================================
