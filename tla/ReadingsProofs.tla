--------------------------- MODULE ReadingsProofs ---------------------------
(***************************************************************************)
(* For any number of commands, accounts and slots, any registry to begin   *)
(* with and any number of changes: a reading is shown for its own account, *)
(* a credit is spent of the account that was decided on, and readings from *)
(* before a reset are gone but for the windows that ResetIsSeen names.     *)
(*                                                                         *)
(* What each command holds is CommandInv; it speaks of the files only      *)
(* while the command has the lock, so that a step of another command, or   *)
(* of the world, has to keep it only if it changes them (CommandKept).     *)
(***************************************************************************)
EXTENDS Readings, TLAPS

(* The server names the account a reading is of, or nobody.                *)
Sound(r) ==
    r # NoReading => r.of \in Accounts /\ r.names \in {r.of, NoAccount}

(* A reset of the account is still to be forgotten, or was missed.         *)
Excused(r) == \/ r.of \in late
              \/ \E c \in Commands : Forgets(c) /\ whose[c] = r.of

Kept(r) == \E s \in Slots : r \in {cache[s], seen[s]}

(* What was decided on the reading: it is the registered account's, and    *)
(* redeem found its account in the home.                                   *)
DecisionInv(c) ==
    /\ Sound(reading[c])
    /\ Describes(reading[c], acct[c])
    /\ pc[c] # "idle" => acct[c] # NoAccount /\ slot[c] \in Slots
    /\ pc[c] = "checked" /\ reading[c].names # NoAccount =>
           Id(whose[c]) = reading[c].names

(* What a command that records or forgets has done so far.                 *)
WritingInv(c) ==
    /\ pc[c] = "recording" => cache[slot[c]] = reading[c]
    /\ Forgets(c) => whose[c] \in Accounts
    /\ pc[c] = "forgetting" =>
           /\ cache[slot[c]] = NoReading
           /\ Elsewhere(c) => whose[c] \in late

CommandInv(c) == DecisionInv(c) /\ WritingInv(c)

JobInv ==
    job # NoJob => /\ job.from \in Slots /\ job.to \in Slots
                   /\ job.stage \in {"cache", "save"}

(* The lock has one holder.                                                *)
LockInv ==
    /\ \A c, d \in Writing : c = d
    /\ Writing # {} => job = NoJob

KeptInv == \A s \in Slots : Sound(cache[s]) /\ Sound(seen[s])

ReadingsInv ==
    /\ TypeOK /\ JobInv /\ LockInv /\ KeptInv /\ ResetIsSeen
    /\ \A c \in Commands : CommandInv(c)

-----------------------------------------------------------------------------
(* The assumptions, and what follows of single readings.                   *)

LEMMA Constants ==
  /\ NoAccount \notin Accounts /\ Anonymous \subseteq Accounts
  /\ MaxCredits \in Nat /\ 0 \in 0..MaxCredits /\ 0 \in 0..MaxChanges
  /\ NoReading \in Readings /\ NoReading.names = NoAccount
  /\ NoReading.of = NoAccount
  /\ NoAccount \in Someone
BY ReadingsAssumption DEF NoReading, Readings, Someone

LEMMA NoReadingFits ==
  ASSUME NEW a PROVE Describes(NoReading, a) /\ Sound(NoReading)
BY Constants DEF Describes, Sound

LEMMA CachedIs ==
  ASSUME TypeOK, KeptInv, NEW s \in Slots
  PROVE  /\ Cached(s) \in Readings
         /\ Sound(Cached(s))
         /\ Describes(Cached(s), ident[s])
<1>1. /\ cache[s] \in Readings /\ seen[s] \in Readings
      /\ Sound(cache[s]) /\ Sound(seen[s])
  BY DEF TypeOK, KeptInv
<1>2. CASE Usable(cache[s], ident[s])
  BY <1>1, <1>2 DEF Cached, Usable
<1>3. CASE ~Usable(cache[s], ident[s]) /\ Usable(seen[s], ident[s])
  BY <1>1, <1>3 DEF Cached, Usable
<1>4. CASE ~Usable(cache[s], ident[s]) /\ ~Usable(seen[s], ident[s])
  BY <1>4, Constants, NoReadingFits DEF Cached
<1>5. QED BY <1>2, <1>3, <1>4

LEMMA AnswersAre ==
  ASSUME TypeOK, NEW c \in Commands, slot[c] \in Slots, NEW r \in Answers(c)
  PROVE  /\ r \in Readings /\ Sound(r)
         /\ r.of \in Accounts /\ r # NoReading /\ r.of = home[slot[c]]
<1> DEFINE a == home[slot[c]]
<1>1. a # NoAccount
  BY DEF Answers
<1>2. a \in Accounts
  BY <1>1 DEF TypeOK, Someone
<1>3. PICK n \in Names[a] : r = [of |-> a, names |-> n, spent |-> spent[a]]
  BY <1>1 DEF Answers
<1>4. n \in {a, NoAccount} /\ n \in Someone /\ a \in Someone
  BY <1>2, ReadingsAssumption DEF Someone
<1>5. spent[a] \in 0..MaxCredits
  BY <1>2 DEF TypeOK
<1>6. QED BY <1>2, <1>3, <1>4, <1>5, Constants DEF Readings, Sound

-----------------------------------------------------------------------------
(* What a step keeps that leaves a part of the state alone.                *)

LEMMA CommandKept ==
  ASSUME NEW d \in Commands, CommandInv(d),
         pc'[d] = pc[d], slot'[d] = slot[d], acct'[d] = acct[d],
         reading'[d] = reading[d], whose'[d] = whose[d],
         late \subseteq late',
         d \in Writing => cache' = cache /\ seen' = seen
  PROVE  CommandInv(d)'
<1>1. DecisionInv(d)'
  BY DEF CommandInv, DecisionInv
<1>2. ASSUME pc'[d] = "recording" PROVE (cache[slot[d]] = reading[d])'
  <2>1. d \in Writing
    BY <1>2 DEF Writing
  <2>2. QED BY <1>2, <2>1 DEF CommandInv, WritingInv
<1>3. Forgets(d)' => whose'[d] \in Accounts
  BY DEF CommandInv, WritingInv, Forgets
<1>4. ASSUME pc'[d] = "forgetting"
      PROVE  (cache[slot[d]] = NoReading
              /\ (Elsewhere(d) => whose[d] \in late))'
  <2>1. d \in Writing
    BY <1>4 DEF Writing
  <2>2. QED BY <1>4, <2>1 DEF CommandInv, WritingInv, Elsewhere
<1>5. QED BY <1>1, <1>2, <1>3, <1>4 DEF CommandInv, WritingInv

(* No reset is new, no reading either but for one that is up to date or    *)
(* excused, and no excuse is gone.                                         *)
LEMMA ResetStillSeen ==
  ASSUME ResetIsSeen, spent' = spent, late \subseteq late',
         \A r : Kept(r)' =>
            r = NoReading \/ Kept(r) \/ (Outdated(r) => r.of \in late'),
         \A c \in Commands :
            Forgets(c) => \/ Forgets(c)' /\ whose'[c] = whose[c]
                          \/ whose[c] \in late'
  PROVE  ResetIsSeen'
<1>1. SUFFICES ASSUME NEW r, Kept(r)', Outdated(r)' PROVE Excused(r)'
  BY DEF ResetIsSeen, Kept, Excused
<1>2. Outdated(r) /\ r # NoReading
  BY <1>1 DEF Outdated
<1>3. CASE r.of \in late'
  BY <1>3 DEF Excused
<1>4. CASE Kept(r)
  <2>1. Excused(r)
    BY <1>2, <1>4 DEF ResetIsSeen, Kept, Excused
  <2>2. QED BY <2>1 DEF Excused
<1>5. QED BY <1>1, <1>2, <1>3, <1>4

-----------------------------------------------------------------------------
(* The steps of a command that change nothing but where it is.             *)

LocalType ==
    /\ pc \in [Commands -> PcSet]
    /\ slot \in [Commands -> Slots \cup {0}]
    /\ acct \in [Commands -> Someone]
    /\ reading \in [Commands -> Readings]
    /\ whose \in [Commands -> Someone]

OthersWait(c) ==
    \A d \in Commands \ {c} :
        /\ pc'[d] = pc[d] /\ slot'[d] = slot[d] /\ acct'[d] = acct[d]
        /\ reading'[d] = reading[d] /\ whose'[d] = whose[d]

LEMMA InitHolds == Init => ReadingsInv
<1> SUFFICES ASSUME Init PROVE ReadingsInv
  OBVIOUS
<1>1. ident \in [Slots -> Someone]
  BY ReadingsAssumption DEF Init, Someone
<1>2. NoJob \in Jobs
  BY Constants DEF NoJob, Jobs
<1>3. TypeOK
  BY <1>1, <1>2, Constants DEF Init, TypeOK, PcSet
<1>4. JobInv /\ LockInv
  BY DEF Init, JobInv, LockInv, Writing
<1>5. KeptInv /\ ResetIsSeen
  BY NoReadingFits DEF Init, KeptInv, ResetIsSeen, Outdated
<1>6. ASSUME NEW c \in Commands PROVE CommandInv(c)
  BY NoReadingFits DEF Init, CommandInv, DecisionInv, WritingInv, Forgets
<1>7. QED BY <1>3, <1>4, <1>5, <1>6 DEF ReadingsInv

LEMMA QuietStep ==
  ASSUME ReadingsInv, NEW c \in Commands, OthersWait(c),
         LocalType', CommandInv(c)',
         UNCHANGED <<disk, job, spent, changes>>,
         late \subseteq late', late' \subseteq Accounts,
         Forgets(c) => \/ Forgets(c)' /\ whose'[c] = whose[c]
                       \/ whose[c] \in late',
         c \in Writing' => c \in Writing
  PROVE  ReadingsInv'
<1>1. TypeOK'
  BY DEF ReadingsInv, TypeOK, LocalType, disk
<1>2. JobInv' /\ KeptInv'
  BY DEF ReadingsInv, JobInv, KeptInv, Sound, disk
<1>3. Writing' \subseteq Writing
  BY DEF Writing, OthersWait
<1>4. LockInv'
  BY <1>3 DEF ReadingsInv, LockInv
<1>5. ASSUME NEW d \in Commands PROVE CommandInv(d)'
  <2>1. CASE d = c
    BY <2>1
  <2>2. CASE d # c
    BY <2>2, CommandKept DEF ReadingsInv, OthersWait, disk
  <2>3. QED BY <2>1, <2>2
<1>6. ASSUME NEW d \in Commands, Forgets(d)
      PROVE  \/ Forgets(d)' /\ whose'[d] = whose[d]
             \/ whose[d] \in late'
  <2>1. CASE d = c
    BY <1>6, <2>1
  <2>2. CASE d # c
    BY <1>6, <2>2 DEF OthersWait, Forgets
  <2>3. QED BY <2>1, <2>2
<1>7. \A r : Kept(r)' => Kept(r)
  BY DEF Kept, disk
<1>8. ResetIsSeen'
  BY <1>6, <1>7, ResetStillSeen DEF ReadingsInv
<1>9. QED BY <1>1, <1>2, <1>4, <1>5, <1>8 DEF ReadingsInv

(* A command that ends holds nothing.                                      *)
LEMMA EndIsQuiet ==
  ASSUME ReadingsInv, NEW c \in Commands, End(c)
  PROVE  /\ OthersWait(c) /\ LocalType' /\ CommandInv(c)'
         /\ c \notin Writing'
<1>1. OthersWait(c)
  BY DEF ReadingsInv, TypeOK, End, Goto, OthersWait
<1>2. LocalType'
  BY Constants DEF ReadingsInv, TypeOK, End, Goto, LocalType, PcSet
<1>3. pc'[c] = "idle" /\ reading'[c] = NoReading
  BY DEF ReadingsInv, TypeOK, End, Goto
<1>4. CommandInv(c)'
  BY <1>3, NoReadingFits
     DEF CommandInv, DecisionInv, WritingInv, Forgets
<1>5. QED BY <1>1, <1>2, <1>3, <1>4 DEF Writing

(* A command that goes on to l with the reading r.                         *)
LEMMA GoOn ==
  ASSUME ReadingsInv, NEW c \in Commands,
         NEW l \in {"probing", "probed", "fetched", "show", "decide"},
         NEW s \in Slots, NEW a \in Accounts, NEW r \in Readings,
         Sound(r), Describes(r, a),
         pc[c] \notin {"recording", "forget", "forgetting"},
         pc' = [pc EXCEPT ![c] = l],
         slot' = [slot EXCEPT ![c] = s],
         acct' = [acct EXCEPT ![c] = a],
         reading' = [reading EXCEPT ![c] = r],
         UNCHANGED <<disk, job, spent, whose, late, changes>>
  PROVE  ReadingsInv'
<1>1. OthersWait(c)
  BY DEF OthersWait, ReadingsInv, TypeOK
<1>2. LocalType'
  BY DEF LocalType, ReadingsInv, TypeOK, PcSet, Someone
<1>3. pc'[c] = l /\ slot'[c] = s /\ acct'[c] = a /\ reading'[c] = r
  BY DEF ReadingsInv, TypeOK
<1>4. DecisionInv(c)'
  BY <1>3, Constants DEF DecisionInv
<1>5. WritingInv(c)'
  BY <1>3 DEF WritingInv, Forgets
<1>6. ~Forgets(c) /\ c \notin Writing'
  BY <1>3 DEF Forgets, Writing
<1>7. late \subseteq late' /\ late' \subseteq Accounts
  BY DEF ReadingsInv, TypeOK
<1>8. CommandInv(c)'
  BY <1>4, <1>5 DEF CommandInv
<1>9. QED BY <1>1, <1>2, <1>6, <1>7, <1>8, QuietStep

LEMMA Holds ==
  ASSUME ReadingsInv, NEW c \in Commands, pc[c] # "idle"
  PROVE  /\ slot[c] \in Slots /\ acct[c] \in Accounts
         /\ reading[c] \in Readings
         /\ Sound(reading[c]) /\ Describes(reading[c], acct[c])
         /\ slot = [slot EXCEPT ![c] = slot[c]]
         /\ acct = [acct EXCEPT ![c] = acct[c]]
         /\ reading = [reading EXCEPT ![c] = reading[c]]
<1>1. DecisionInv(c) /\ TypeOK
  BY DEF ReadingsInv, CommandInv
<1>2. QED BY <1>1 DEF DecisionInv, TypeOK, Someone

LEMMA LoadStep ==
  ASSUME ReadingsInv, NEW c \in Commands, UseKept(c) \/ Probe(c)
  PROVE  ReadingsInv'
<1>1. PICK l \in {"show", "probing"} : Load(c, l)
  BY DEF UseKept, Probe
<1>2. PICK s \in Registered : /\ slot' = [slot EXCEPT ![c] = s]
                              /\ acct' = [acct EXCEPT ![c] = ident[s]]
                              /\ Take(c, Cached(s))
  BY <1>1 DEF Load
<1>3. s \in Slots /\ ident[s] \in Accounts
  BY DEF Registered, ReadingsInv, TypeOK, Someone
<1>4. Cached(s) \in Readings /\ Sound(Cached(s))
      /\ Describes(Cached(s), ident[s])
  BY <1>3, CachedIs DEF ReadingsInv
<1>5. QED BY <1>1, <1>2, <1>3, <1>4, GoOn DEF Load, Goto, Take

LEMMA AnswerStep ==
  ASSUME ReadingsInv, NEW c \in Commands, ProbeAnswers(c) \/ BackendAnswers(c)
  PROVE  ReadingsInv'
<1>1. pc[c] \in {"probing", "probed"}
  BY DEF ProbeAnswers, BackendAnswers, AsksBackend
<1>2. PICK r \in Answers(c) : Describes(r, acct[c]) /\ Take(c, r)
  BY DEF ProbeAnswers, BackendAnswers
<1>3. PICK l \in {"probed", "fetched"} : Goto(c, l)
  BY DEF ProbeAnswers, BackendAnswers
<1>4. UNCHANGED <<disk, job, spent, slot, acct, whose, late, changes>>
  BY DEF ProbeAnswers, BackendAnswers
<1>5. r \in Readings /\ Sound(r)
  BY <1>1, Holds, AnswersAre DEF ReadingsInv
<1>6. QED BY <1>1, <1>2, <1>3, <1>4, <1>5, Holds, GoOn DEF Goto, Take

LEMMA MismatchStep ==
  ASSUME ReadingsInv, NEW c \in Commands, ProbeMismatched(c)
  PROVE  ReadingsInv'
BY Holds, NoReadingFits, Constants, GoOn DEF ProbeMismatched, Goto, Take

LEMMA FallBackStep ==
  ASSUME ReadingsInv, NEW c \in Commands,
         ProbeFails(c) \/ BackendMismatched(c) \/ RecordFails(c)
  PROVE  ReadingsInv'
<1>1. pc[c] \in {"probing", "probed", "fetched"}
  BY DEF ProbeFails, BackendMismatched, RecordFails, AsksBackend
<1>2. PICK l \in {"decide", "show"} : Goto(c, l)
  BY DEF ProbeFails, BackendMismatched, RecordFails
<1>3. UNCHANGED <<disk, job, spent, local, late, changes>>
  BY DEF ProbeFails, BackendMismatched, RecordFails
<1>4. QED BY <1>1, <1>2, <1>3, Holds, GoOn DEF Goto, local

LEMMA EndStep ==
  ASSUME ReadingsInv, NEW c \in Commands, Show(c) \/ RedeemFails(c)
  PROVE  ReadingsInv'
<1>1. End(c) /\ UNCHANGED <<disk, job, spent, late, changes>>
  BY DEF Show, RedeemFails
<1>2. ~Forgets(c)
  BY DEF Show, RedeemFails, Forgets
<1>3. late \subseteq late' /\ late' \subseteq Accounts
  BY <1>1 DEF ReadingsInv, TypeOK
<1>4. QED BY <1>1, <1>2, <1>3, EndIsQuiet, QuietStep

LEMMA UnforgottenStep ==
  ASSUME ReadingsInv, NEW c \in Commands, ForgetBusy(c) \/ Crash(c)
  PROVE  ReadingsInv'
<1>1. End(c) /\ Unforgotten(c) /\ UNCHANGED <<disk, job, spent, changes>>
  BY DEF ForgetBusy, Crash
<1>2. Forgets(c) => whose[c] \in Accounts
  BY DEF ReadingsInv, CommandInv, WritingInv
<1>3. /\ late \subseteq late' /\ late' \subseteq Accounts
      /\ Forgets(c) => whose[c] \in late'
  BY <1>1, <1>2 DEF Unforgotten, ReadingsInv, TypeOK
<1>4. QED BY <1>1, <1>3, EndIsQuiet, QuietStep

LEMMA CheckStep ==
  ASSUME ReadingsInv, NEW c \in Commands, Check(c)
  PROVE  ReadingsInv'
<1>1. /\ pc[c] = "decide" /\ StillTheirs(c)
      /\ whose' = [whose EXCEPT ![c] = home[slot[c]]]
      /\ pc' = [pc EXCEPT ![c] = "checked"]
      /\ UNCHANGED <<disk, job, spent, slot, acct, reading, late, changes>>
  BY DEF Check, Goto
<1>2. slot[c] \in Slots /\ home[slot[c]] \in Someone
  BY <1>1, Holds DEF ReadingsInv, TypeOK
<1>3. OthersWait(c)
  BY <1>1 DEF OthersWait, ReadingsInv, TypeOK
<1>4. LocalType'
  BY <1>1, <1>2 DEF LocalType, ReadingsInv, TypeOK, PcSet
<1>5. pc'[c] = "checked" /\ whose'[c] = home[slot[c]]
  BY <1>1 DEF ReadingsInv, TypeOK
<1>6. DecisionInv(c)'
  BY <1>1, <1>5 DEF DecisionInv, StillTheirs, ReadingsInv, CommandInv
<1>7. WritingInv(c)'
  BY <1>5 DEF WritingInv, Forgets
<1>8. ~Forgets(c) /\ c \notin Writing'
  BY <1>1, <1>5 DEF Forgets, Writing
<1>9. late \subseteq late' /\ late' \subseteq Accounts
  BY <1>1 DEF ReadingsInv, TypeOK
<1>10. CommandInv(c)'
  BY <1>6, <1>7 DEF CommandInv
<1>11. QED BY <1>1, <1>3, <1>4, <1>8, <1>9, <1>10, QuietStep

-----------------------------------------------------------------------------
(* The steps that record, redeem and forget.                               *)

(* Nobody else is writing while c is, nor anybody before it begins to.     *)
LEMMA Alone ==
  ASSUME ReadingsInv, NEW c \in Commands, c \in Writing \/ LockFree
  PROVE  /\ job = NoJob
         /\ \A d \in Commands \ {c} : d \notin Writing
BY DEF ReadingsInv, LockInv, LockFree

LEMMA OthersKept ==
  ASSUME ReadingsInv, NEW c \in Commands, OthersWait(c),
         c \in Writing \/ LockFree, late \subseteq late', job' = job
  PROVE  /\ \A d \in Commands \ {c} : CommandInv(d)'
         /\ LockInv' /\ JobInv'
<1>1. ASSUME NEW d \in Commands \ {c} PROVE CommandInv(d)'
  BY <1>1, Alone, CommandKept DEF ReadingsInv, OthersWait
<1>2. Writing' \subseteq {c}
  BY Alone DEF OthersWait, Writing
<1>3. LockInv'
  BY <1>2, Alone DEF LockInv
<1>4. JobInv'
  BY DEF ReadingsInv, JobInv
<1>5. QED BY <1>1, <1>3, <1>4

LEMMA RecordCacheStep ==
  ASSUME ReadingsInv, NEW c \in Commands, RecordCache(c)
  PROVE  ReadingsInv'
<1>1. /\ pc[c] \in {"probed", "fetched"} /\ LockFree
      /\ cache' = [cache EXCEPT ![slot[c]] = reading[c]]
      /\ pc' = [pc EXCEPT ![c] = "recording"]
      /\ late' = IF Outdated(reading[c])
                 THEN late \cup {reading[c].of} ELSE late
      /\ UNCHANGED <<home, ident, seen, job, spent, local, changes>>
  BY DEF RecordCache, Goto
<1>2. /\ slot[c] \in Slots /\ reading[c] \in Readings
      /\ Sound(reading[c]) /\ TypeOK
  BY <1>1, Holds DEF ReadingsInv
<1>3. Outdated(reading[c]) => reading[c].of \in Accounts
  BY <1>2 DEF Outdated, Sound
<1>4. OthersWait(c)
  BY <1>1, <1>2 DEF OthersWait, TypeOK, local
<1>5. late \subseteq late' /\ late' \subseteq Accounts
  BY <1>1, <1>2, <1>3 DEF TypeOK
<1>6. TypeOK'
  BY <1>1, <1>2, <1>5 DEF TypeOK, local, PcSet
<1>7. pc'[c] = "recording" /\ cache'[slot[c]] = reading[c]
  BY <1>1, <1>2 DEF TypeOK
<1>8. CommandInv(c)'
  <2>1. DecisionInv(c)
    BY DEF ReadingsInv, CommandInv
  <2>2. DecisionInv(c)'
    BY <1>1, <1>7, <2>1 DEF DecisionInv, local
  <2>3. WritingInv(c)'
    BY <1>1, <1>7 DEF WritingInv, Forgets, local
  <2>4. QED BY <2>2, <2>3 DEF CommandInv
<1>9. (\A d \in Commands \ {c} : CommandInv(d)') /\ LockInv' /\ JobInv'
  BY <1>1, <1>4, <1>5, OthersKept
<1>10. \A s \in Slots : cache'[s] \in {cache[s], reading[c]}
  BY <1>1, <1>2 DEF TypeOK
<1>11. KeptInv'
  BY <1>1, <1>2, <1>10 DEF ReadingsInv, KeptInv, Sound
<1>12. ASSUME NEW r, Kept(r)' PROVE Kept(r) \/ r = reading[c]
  BY <1>1, <1>10, <1>12 DEF Kept
<1>13. Outdated(reading[c]) => reading[c].of \in late'
  BY <1>1
<1>14. \A d \in Commands : Forgets(d) => Forgets(d)' /\ whose'[d] = whose[d]
  BY <1>1, <1>4 DEF OthersWait, Forgets, local
<1>15. ResetIsSeen'
  BY <1>1, <1>5, <1>12, <1>13, <1>14, ResetStillSeen DEF ReadingsInv
<1>16. QED BY <1>6, <1>8, <1>9, <1>11, <1>15 DEF ReadingsInv

LEMMA RecordSaveStep ==
  ASSUME ReadingsInv, NEW c \in Commands, RecordSave(c)
  PROVE  ReadingsInv'
<1>1. /\ pc[c] = "recording" /\ c \in Writing
      /\ seen' = [seen EXCEPT ![slot[c]] = reading[c]]
      /\ pc' = [pc EXCEPT ![c] = "decide"]
      /\ UNCHANGED <<home, ident, cache, job, spent, local, late, changes>>
  BY DEF RecordSave, Goto, Writing
<1>2. /\ slot[c] \in Slots /\ reading[c] \in Readings
      /\ Sound(reading[c]) /\ TypeOK
  BY <1>1, Holds DEF ReadingsInv
<1>3. cache[slot[c]] = reading[c]
  BY <1>1 DEF ReadingsInv, CommandInv, WritingInv
<1>4. OthersWait(c)
  BY <1>1, <1>2 DEF OthersWait, TypeOK, local
<1>5. TypeOK'
  BY <1>1, <1>2 DEF TypeOK, local, PcSet
<1>6. pc'[c] = "decide"
  BY <1>1, <1>2 DEF TypeOK
<1>7. CommandInv(c)'
  <2>1. DecisionInv(c)
    BY DEF ReadingsInv, CommandInv
  <2>2. DecisionInv(c)'
    BY <1>1, <1>6, <2>1 DEF DecisionInv, local
  <2>3. WritingInv(c)'
    BY <1>6 DEF WritingInv, Forgets
  <2>4. QED BY <2>2, <2>3 DEF CommandInv
<1>8. (\A d \in Commands \ {c} : CommandInv(d)') /\ LockInv' /\ JobInv'
  BY <1>1, <1>4, OthersKept
<1>9. \A s \in Slots : seen'[s] \in {seen[s], reading[c]}
  BY <1>1, <1>2 DEF TypeOK
<1>10. KeptInv'
  BY <1>1, <1>2, <1>9 DEF ReadingsInv, KeptInv, Sound
<1>11. \A r : Kept(r)' => Kept(r)
  BY <1>1, <1>2, <1>3, <1>9 DEF Kept
<1>12. \A d \in Commands : Forgets(d) => Forgets(d)' /\ whose'[d] = whose[d]
  BY <1>1, <1>4 DEF OthersWait, Forgets, local
<1>13. ResetIsSeen'
  BY <1>1, <1>11, <1>12, ResetStillSeen DEF ReadingsInv
<1>14. QED BY <1>5, <1>7, <1>8, <1>10, <1>13 DEF ReadingsInv

LEMMA RedeemStep ==
  ASSUME ReadingsInv, NEW c \in Commands, Redeem(c)
  PROVE  ReadingsInv'
<1> DEFINE a == home[slot[c]]
<1>1. /\ pc[c] = "checked" /\ a # NoAccount /\ spent[a] < MaxCredits
      /\ spent' = [spent EXCEPT ![a] = @ + 1]
      /\ UNCHANGED <<disk, job, changes>>
  BY DEF Redeem
<1>2. \/ /\ Goto(c, "forget") /\ whose' = [whose EXCEPT ![c] = a]
         /\ Take(c, NoReading) /\ UNCHANGED <<slot, acct, late>>
      \/ End(c) /\ late' = late \cup {a}
  BY DEF Redeem
<1>3. TypeOK /\ slot[c] \in Slots /\ acct[c] \in Accounts
  BY <1>1, Holds DEF ReadingsInv
<1>4. a \in Accounts
  BY <1>1, <1>3 DEF TypeOK, Someone
<1>5. spent' \in [Accounts -> 0..MaxCredits]
  BY <1>1, <1>3, <1>4, Constants DEF TypeOK
<1> HIDE DEF a
<1>6. ~Forgets(c) /\ c \notin Writing /\ c \notin Writing'
  BY <1>1, <1>2, <1>3 DEF Forgets, Writing, Goto, End, TypeOK
<1>7. late \subseteq late' /\ late' \subseteq Accounts
  BY <1>2, <1>3, <1>4 DEF TypeOK
<1>8. OthersWait(c) /\ LocalType' /\ CommandInv(c)'
  <2>1. CASE End(c)
    BY <2>1, EndIsQuiet
  <2>2. CASE Goto(c, "forget") /\ Take(c, NoReading) /\ slot' = slot
             /\ acct' = acct /\ whose' = [whose EXCEPT ![c] = a]
    <3>1. OthersWait(c)
      BY <1>3, <2>2 DEF OthersWait, TypeOK, Goto, Take
    <3>2. LocalType'
      BY <1>3, <1>4, <2>2, Constants
         DEF LocalType, TypeOK, Goto, Take, PcSet, Someone
    <3>3. /\ pc'[c] = "forget" /\ whose'[c] = a /\ reading'[c] = NoReading
          /\ slot'[c] \in Slots /\ acct'[c] \in Accounts
      BY <1>3, <2>2 DEF TypeOK, Goto, Take
    <3>4. CommandInv(c)'
      BY <1>4, <3>3, NoReadingFits, Constants
         DEF CommandInv, DecisionInv, WritingInv, Forgets
    <3>5. QED BY <3>1, <3>2, <3>4
  <2>3. QED BY <1>2, <2>1, <2>2
<1>9. TypeOK'
  BY <1>1, <1>3, <1>5, <1>7, <1>8 DEF TypeOK, LocalType, disk
<1>10. JobInv' /\ KeptInv'
  BY <1>1 DEF ReadingsInv, JobInv, KeptInv, Sound, disk
<1>11. Writing' \subseteq Writing
  BY <1>6, <1>8 DEF Writing, OthersWait
<1>12. LockInv'
  BY <1>1, <1>11 DEF ReadingsInv, LockInv
<1>13. ASSUME NEW d \in Commands PROVE CommandInv(d)'
  <2>1. CASE d = c
    BY <1>8, <2>1
  <2>2. CASE d # c
    BY <1>1, <1>7, <1>8, <2>2, CommandKept DEF ReadingsInv, OthersWait, disk
  <2>3. QED BY <2>1, <2>2
<1>14. ASSUME NEW r, Kept(r), Outdated(r)' PROVE Excused(r)'
  <2>1. r # NoReading /\ r.of \in Accounts
    BY <1>14 DEF Outdated, Kept, Sound, ReadingsInv, KeptInv
  <2>2. CASE r.of = a
    <3>1. CASE a \in late'
      BY <2>2, <3>1 DEF Excused
    <3>2. CASE Goto(c, "forget") /\ whose' = [whose EXCEPT ![c] = a]
      <4>1. Forgets(c)' /\ whose'[c] = a
        BY <1>3, <3>2 DEF Goto, TypeOK, Forgets
      <4>2. QED BY <2>2, <4>1 DEF Excused
    <3>3. QED BY <1>2, <3>1, <3>2
  <2>3. CASE r.of # a
    <3>1. spent'[r.of] = spent[r.of]
      BY <1>1, <1>3, <2>1, <2>3 DEF TypeOK
    <3>2. Excused(r)
      BY <1>14, <3>1 DEF Outdated, ReadingsInv, ResetIsSeen, Kept, Excused
    <3>3. \A d \in Commands :
              Forgets(d) => Forgets(d)' /\ whose'[d] = whose[d]
      BY <1>6, <1>8 DEF OthersWait, Forgets
    <3>4. QED BY <1>7, <3>2, <3>3 DEF Excused
  <2>4. QED BY <2>2, <2>3
<1>15. ResetIsSeen'
  BY <1>1, <1>14 DEF ResetIsSeen, Kept, Excused, disk
<1>16. QED BY <1>9, <1>10, <1>12, <1>13, <1>15 DEF ReadingsInv

LEMMA ForgetCacheStep ==
  ASSUME ReadingsInv, NEW c \in Commands, ForgetCache(c)
  PROVE  ReadingsInv'
<1>1. /\ pc[c] = "forget" /\ LockFree
      /\ cache' = [cache EXCEPT ![slot[c]] = NoReading]
      /\ pc' = [pc EXCEPT ![c] = "forgetting"]
      /\ late' = IF Elsewhere(c) THEN late \cup {whose[c]} ELSE late
      /\ UNCHANGED <<home, ident, seen, job, spent, local, changes>>
  BY DEF ForgetCache, Goto
<1>2. TypeOK /\ slot[c] \in Slots /\ whose[c] \in Accounts
  BY <1>1, Holds DEF ReadingsInv, CommandInv, WritingInv, Forgets
<1>3. OthersWait(c)
  BY <1>1, <1>2 DEF OthersWait, TypeOK, local
<1>4. late \subseteq late' /\ late' \subseteq Accounts
  BY <1>1, <1>2 DEF TypeOK
<1>5. TypeOK'
  BY <1>1, <1>2, <1>4, Constants DEF TypeOK, local, PcSet
<1>6. pc'[c] = "forgetting" /\ cache'[slot[c]] = NoReading
  BY <1>1, <1>2 DEF TypeOK
<1>7. \A s \in Slots \ {slot[c]} : cache'[s] = cache[s]
  BY <1>1, <1>2 DEF TypeOK
<1>8. CommandInv(c)'
  <2>1. DecisionInv(c)
    BY DEF ReadingsInv, CommandInv
  <2>2. DecisionInv(c)'
    BY <1>1, <1>6, <2>1 DEF DecisionInv, local
  <2>3. Elsewhere(c)' => whose'[c] \in late'
    BY <1>1, <1>7 DEF Elsewhere, local
  <2>4. WritingInv(c)'
    BY <1>1, <1>2, <1>6, <2>3 DEF WritingInv, Forgets, local
  <2>5. QED BY <2>2, <2>4 DEF CommandInv
<1>9. (\A d \in Commands \ {c} : CommandInv(d)') /\ LockInv' /\ JobInv'
  BY <1>1, <1>3, <1>4, OthersKept
<1>10. \A s \in Slots : cache'[s] \in {cache[s], NoReading}
  BY <1>6, <1>7
<1>11. KeptInv'
  BY <1>1, <1>10, NoReadingFits DEF ReadingsInv, KeptInv, Sound
<1>12. \A r : Kept(r)' => Kept(r) \/ r = NoReading
  BY <1>1, <1>10 DEF Kept
<1>13. \A d \in Commands : Forgets(d) => Forgets(d)' /\ whose'[d] = whose[d]
  BY <1>1, <1>3, <1>6 DEF OthersWait, Forgets, local
<1>14. ResetIsSeen'
  BY <1>1, <1>4, <1>12, <1>13, ResetStillSeen DEF ReadingsInv
<1>15. QED BY <1>5, <1>8, <1>9, <1>11, <1>14 DEF ReadingsInv

(* Only here does an excuse end: nothing it was for is left.               *)
LEMMA ForgetSaveStep ==
  ASSUME ReadingsInv, NEW c \in Commands, ForgetSave(c)
  PROVE  ReadingsInv'
<1>1. /\ pc[c] = "forgetting" /\ c \in Writing /\ End(c)
      /\ seen' = [seen EXCEPT ![slot[c]] = NoReading]
      /\ UNCHANGED <<home, ident, cache, job, spent, late, changes>>
  BY DEF ForgetSave, SeenGoes, Writing
<1>2. TypeOK /\ slot[c] \in Slots
  BY <1>1, Holds DEF ReadingsInv
<1>3. /\ cache[slot[c]] = NoReading
      /\ Elsewhere(c) => whose[c] \in late
  BY <1>1 DEF ReadingsInv, CommandInv, WritingInv
<1>4. OthersWait(c) /\ LocalType'
  BY <1>1, EndIsQuiet
<1>5. TypeOK'
  BY <1>1, <1>2, <1>4, Constants DEF TypeOK, LocalType
<1>6. CommandInv(c)'
  <2>1. pc'[c] = "idle" /\ reading'[c] = NoReading
    BY <1>1, <1>2 DEF End, Goto, TypeOK
  <2>2. QED BY <2>1, NoReadingFits
            DEF CommandInv, DecisionInv, WritingInv, Forgets
<1>7. (\A d \in Commands \ {c} : CommandInv(d)') /\ LockInv' /\ JobInv'
  BY <1>1, <1>4, OthersKept
<1>8. /\ seen'[slot[c]] = NoReading
      /\ \A s \in Slots \ {slot[c]} : seen'[s] = seen[s]
  BY <1>1, <1>2 DEF TypeOK
<1>9. KeptInv'
  BY <1>1, <1>8, NoReadingFits DEF ReadingsInv, KeptInv, Sound
<1>10. ASSUME NEW r, Kept(r)', Outdated(r)' PROVE Excused(r)'
  <2>1. r # NoReading /\ Outdated(r)
    BY <1>1, <1>10 DEF Outdated
  <2>2. PICK s \in Slots : r \in {cache[s], seen'[s]}
    BY <1>1, <1>10 DEF Kept
  <2>3. s # slot[c]
    BY <1>3, <1>8, <2>1, <2>2
  <2>4. r \in {cache[s], seen[s]}
    BY <1>8, <2>2, <2>3
  <2>5. CASE r.of \in late
    BY <1>1, <2>5 DEF Excused
  <2>6. CASE r.of \notin late
    <3>1. PICK d \in Commands : Forgets(d) /\ whose[d] = r.of
      BY <2>1, <2>4, <2>6 DEF ReadingsInv, ResetIsSeen
    <3>2. d # c
      BY <1>3, <2>3, <2>4, <2>6, <3>1 DEF Elsewhere
    <3>3. Forgets(d)' /\ whose'[d] = r.of
      BY <1>4, <3>1, <3>2 DEF OthersWait, Forgets
    <3>4. QED BY <3>3 DEF Excused
  <2>7. QED BY <2>5, <2>6
<1>11. ResetIsSeen'
  BY <1>10 DEF ResetIsSeen, Kept, Excused
<1>12. QED BY <1>5, <1>6, <1>7, <1>9, <1>11 DEF ReadingsInv

LEMMA CommandSteps ==
  ASSUME ReadingsInv, NEW c \in Commands, Command(c)
  PROVE  ReadingsInv'
BY LoadStep, AnswerStep, MismatchStep, FallBackStep, EndStep,
   UnforgottenStep, CheckStep, RecordCacheStep, RecordSaveStep, RedeemStep,
   ForgetCacheStep, ForgetSaveStep DEF Command

-----------------------------------------------------------------------------
(* The steps of the registry and of the homes.                             *)

LEMMA RenumberedIs ==
  ASSUME JobInv, job # NoJob, NEW f, NEW none
  PROVE  /\ DOMAIN Renumbered(f, job, none) = Slots
         /\ \A s \in Slots : \/ Renumbered(f, job, none)[s] = none
                             \/ \E t \in Slots :
                                   Renumbered(f, job, none)[s] = f[t]
BY DEF JobInv, Renumbered

LEMMA RenumberedType ==
  ASSUME NEW j, j.from \in Slots, j.to \in Slots,
         NEW X, NEW f \in [Slots -> X], NEW none \in X
  PROVE  Renumbered(f, j, none) \in [Slots -> X]
BY DEF Renumbered

(* The world moves no command, gives back nothing and shows nothing new.   *)
LEMMA WorldStep ==
  ASSUME ReadingsInv, TypeOK', JobInv',
         UNCHANGED <<spent, pc, local, late>>,
         job' # NoJob => Writing = {},
         Writing = {} \/ (cache' = cache /\ seen' = seen),
         \A r : Kept(r)' => Kept(r) \/ r = NoReading
  PROVE  ReadingsInv'
<1>1. Writing' = Writing
  BY DEF Writing
<1>2. LockInv'
  BY <1>1 DEF ReadingsInv, LockInv
<1>3. ASSUME NEW r, Kept(r) PROVE Sound(r)
  BY <1>3 DEF Kept, ReadingsInv, KeptInv
<1>4. KeptInv'
  BY <1>3, NoReadingFits DEF KeptInv, Kept, Sound
<1>5. ASSUME NEW d \in Commands PROVE CommandInv(d)'
  <2>1. late \subseteq late'
    OBVIOUS
  <2>2. QED BY <2>1, CommandKept DEF ReadingsInv, local
<1>6. \A d \in Commands : Forgets(d) => Forgets(d)' /\ whose'[d] = whose[d]
  BY DEF Forgets, local
<1>7. ResetIsSeen'
  BY <1>6, ResetStillSeen DEF ReadingsInv
<1>8. QED BY <1>2, <1>4, <1>5, <1>7 DEF ReadingsInv

LEMMA BeginStep ==
  ASSUME ReadingsInv,
         NEW o \in {"swap", "move", "remove"},
         NEW s \in Slots, NEW t \in Slots, Begin(Work(o, s, t))
  PROVE  ReadingsInv'
<1> DEFINE j == Work(o, s, t)
<1>1. /\ LockFree /\ Change /\ job' = j
      /\ home' = Renumbered(home, j, NoAccount)
      /\ UNCHANGED <<ident, seen, cache, spent, pc, local, late>>
  BY DEF Begin
<1>2. /\ j \in Jobs /\ j.from \in Slots /\ j.to \in Slots
      /\ j.stage = "cache"
  BY Constants DEF Work, Jobs
<1> HIDE DEF j
<1>3. home' \in [Slots -> Someone]
  BY <1>1, <1>2, Constants, RenumberedType DEF ReadingsInv, TypeOK
<1>4. changes' \in 0..MaxChanges
  BY <1>1, ReadingsAssumption DEF Change, ReadingsInv, TypeOK
<1>5. TypeOK'
  BY <1>1, <1>2, <1>3, <1>4 DEF ReadingsInv, TypeOK, local
<1>6. JobInv'
  BY <1>1, <1>2 DEF JobInv
<1>7. Writing = {} /\ (\A r : Kept(r)' => Kept(r))
  BY <1>1 DEF LockFree, Kept
<1>8. QED BY <1>1, <1>5, <1>6, <1>7, WorldStep

LEMMA AddStep ==
  ASSUME ReadingsInv, NEW a \in Accounts, Add(a)
  PROVE  ReadingsInv'
<1>1. /\ LockFree /\ Change
      /\ UNCHANGED <<ident, seen, cache, spent, pc, local, late>>
  BY DEF Add
<1>2. PICK s \in Slots :
         /\ home' = [home EXCEPT ![s] = a]
         /\ job' = [op |-> "add", stage |-> "save", from |-> s, to |-> s,
                    acct |-> a]
  BY DEF Add, Vacant, Registered
<1>3. /\ job' \in Jobs /\ job'.from \in Slots /\ job'.to \in Slots
      /\ job'.stage = "save"
  BY <1>2 DEF Jobs, Someone
<1>4. home' \in [Slots -> Someone]
  BY <1>2 DEF ReadingsInv, TypeOK, Someone
<1>5. changes' \in 0..MaxChanges
  BY <1>1, ReadingsAssumption DEF Change, ReadingsInv, TypeOK
<1>6. TypeOK'
  BY <1>1, <1>3, <1>4, <1>5 DEF ReadingsInv, TypeOK, local
<1>7. JobInv'
  BY <1>3 DEF JobInv
<1>8. Writing = {} /\ (\A r : Kept(r)' => Kept(r))
  BY <1>1 DEF LockFree, Kept
<1>9. QED BY <1>1, <1>6, <1>7, <1>8, WorldStep

LEMMA WriteCacheStep ==
  ASSUME ReadingsInv, WriteCache
  PROVE  ReadingsInv'
<1>1. /\ job.stage = "cache" /\ job' = [job EXCEPT !.stage = "save"]
      /\ cache' = Renumbered(cache, job, NoReading)
      /\ UNCHANGED <<home, ident, seen, spent, pc, local, late, changes>>
  BY DEF WriteCache
<1>2. job # NoJob /\ job \in Jobs
  BY <1>1 DEF NoJob, ReadingsInv, TypeOK
<1>3. job.from \in Slots /\ job.to \in Slots /\ Writing = {}
  BY <1>2 DEF ReadingsInv, JobInv, LockInv
<1>4. /\ job' \in Jobs /\ job'.from \in Slots /\ job'.to \in Slots
      /\ job'.stage = "save"
  BY <1>1, <1>2, <1>3 DEF Jobs
<1>5. cache' \in [Slots -> Readings]
  BY <1>1, <1>3, Constants, RenumberedType DEF ReadingsInv, TypeOK
<1>6. TypeOK'
  BY <1>1, <1>4, <1>5 DEF ReadingsInv, TypeOK, local
<1>7. JobInv'
  BY <1>4 DEF JobInv
<1>8. \A r : Kept(r)' => Kept(r) \/ r = NoReading
  BY <1>1, <1>2, RenumberedIs DEF Kept, ReadingsInv
<1>9. QED BY <1>1, <1>3, <1>6, <1>7, <1>8, WorldStep

LEMMA SaveRegistryStep ==
  ASSUME ReadingsInv, SaveRegistry
  PROVE  ReadingsInv'
<1>1. /\ job.stage = "save" /\ job' = NoJob
      /\ UNCHANGED <<home, cache, spent, pc, local, late, changes>>
  BY DEF SaveRegistry
<1>2. job # NoJob /\ job \in Jobs
  BY <1>1 DEF NoJob, ReadingsInv, TypeOK
<1>3. /\ job.from \in Slots /\ job.to \in Slots /\ Writing = {}
      /\ job.acct \in Someone
  BY <1>2 DEF ReadingsInv, JobInv, LockInv, Jobs
<1>4. ident' \in [Slots -> Someone] /\ seen' \in [Slots -> Readings]
  <2>1. /\ ident \in [Slots -> Someone] /\ seen \in [Slots -> Readings]
        /\ NoAccount \in Someone /\ NoReading \in Readings
    BY Constants DEF ReadingsInv, TypeOK
  <2>2. CASE job.op = "add"
    <3>1. /\ ident' = [ident EXCEPT ![job.from] = job.acct]
          /\ seen' = seen
      BY <2>2 DEF SaveRegistry
    <3>2. QED BY <1>3, <2>1, <3>1
  <2>3. CASE job.op # "add"
    <3>1. /\ ident' = Renumbered(ident, job, NoAccount)
          /\ seen' = Renumbered(seen, job, NoReading)
      BY <2>3 DEF SaveRegistry
    <3>2. QED BY <1>3, <2>1, <3>1, RenumberedType
  <2>4. QED BY <2>2, <2>3
<1>5. NoJob \in Jobs
  BY Constants DEF NoJob, Jobs
<1>6. TypeOK'
  BY <1>1, <1>4, <1>5 DEF ReadingsInv, TypeOK, local
<1>7. JobInv'
  BY <1>1 DEF JobInv
<1>8. seen' = seen \/ seen' = Renumbered(seen, job, NoReading)
  BY DEF SaveRegistry
<1>9. \A r : Kept(r)' => Kept(r) \/ r = NoReading
  BY <1>1, <1>2, <1>8, RenumberedIs DEF Kept, ReadingsInv
<1>10. QED BY <1>1, <1>3, <1>6, <1>7, <1>9, WorldStep

LEMMA OtherWorldSteps ==
  ASSUME ReadingsInv, JobDies \/ Quarantine \/ \E s \in Slots : LogIn(s)
  PROVE  ReadingsInv'
<1>1. NoJob \in Jobs /\ NoAccount \in Someone
  BY Constants DEF NoJob, Jobs
<1>2. CASE JobDies
  <2>1. TypeOK'
    BY <1>1, <1>2 DEF JobDies, ReadingsInv, TypeOK, local, disk
  <2>2. JobInv' /\ (\A r : Kept(r)' => Kept(r))
    BY <1>2 DEF JobDies, JobInv, Kept, disk
  <2>3. QED BY <1>2, <2>1, <2>2, WorldStep DEF JobDies, disk
<1>3. ASSUME Change PROVE changes' \in 0..MaxChanges
  BY <1>3, ReadingsAssumption DEF Change, ReadingsInv, TypeOK
<1>4. CASE Quarantine
  <2>1. TypeOK'
    BY <1>1, <1>3, <1>4, Constants
       DEF Quarantine, ReadingsInv, TypeOK, local
  <2>2. JobInv' /\ Writing = {} /\ job' = NoJob
    BY <1>4 DEF Quarantine, LockFree, JobInv, ReadingsInv
  <2>3. \A r : Kept(r)' => Kept(r) \/ r = NoReading
    BY <1>4 DEF Quarantine, Kept
  <2>4. QED BY <1>4, <2>1, <2>2, <2>3, WorldStep DEF Quarantine
<1>5. ASSUME NEW s \in Slots, LogIn(s) PROVE ReadingsInv'
  <2>1. TypeOK'
    BY <1>3, <1>5 DEF LogIn, ReadingsInv, TypeOK, local
  <2>2. JobInv' /\ (\A r : Kept(r)' => Kept(r))
    BY <1>5 DEF LogIn, JobInv, ReadingsInv, Kept
  <2>3. job' # NoJob => Writing = {}
    BY <1>5 DEF LogIn, ReadingsInv, LockInv
  <2>4. QED BY <1>5, <2>1, <2>2, <2>3, WorldStep DEF LogIn
<1>6. QED BY <1>2, <1>4, <1>5

LEMMA WorldSteps ==
  ASSUME ReadingsInv, World
  PROVE  ReadingsInv'
<1>1. ASSUME NEW s \in Slots, NEW t \in Slots, Swap(s, t) \/ Move(s, t)
      PROVE  ReadingsInv'
  BY <1>1, BeginStep DEF Swap, Move
<1>2. ASSUME NEW s \in Slots, Remove(s) PROVE ReadingsInv'
  BY <1>2, BeginStep DEF Remove
<1>3. QED BY <1>1, <1>2, AddStep, WriteCacheStep, SaveRegistryStep,
             OtherWorldSteps DEF World

-----------------------------------------------------------------------------
(* The results.                                                            *)

LEMMA ReadingsStep == ReadingsInv /\ [Next]_vars => ReadingsInv'
<1> SUFFICES ASSUME ReadingsInv, [Next]_vars PROVE ReadingsInv'
  OBVIOUS
<1>1. CASE World
  BY <1>1, WorldSteps
<1>2. ASSUME NEW c \in Commands, Command(c) PROVE ReadingsInv'
  BY <1>2, CommandSteps
<1>3. CASE UNCHANGED vars
  <2>1. UNCHANGED <<disk, job, spent, pc, local, late, changes>>
    BY <1>3 DEF vars
  <2>2. TypeOK'
    BY <2>1 DEF ReadingsInv, TypeOK, disk, local
  <2>3. JobInv' /\ (\A r : Kept(r)' => Kept(r))
    BY <2>1 DEF ReadingsInv, JobInv, Kept, disk
  <2>4. job' # NoJob => Writing = {}
    BY <2>1 DEF ReadingsInv, LockInv
  <2>5. QED BY <2>1, <2>2, <2>3, <2>4, WorldStep DEF disk
<1>4. QED BY <1>1, <1>2, <1>3 DEF Next

(* The inductive invariant: what a command holds is sound and describes    *)
(* the account it loaded, the lock has one holder, and what is kept of the *)
(* time before a reset is excused.                                         *)
THEOREM ReadingsInductive == Spec => []ReadingsInv
BY InitHolds, ReadingsStep, PTL DEF Spec

(* Every variable has its type.                                            *)
THEOREM ReadingsTypeCorrect == Spec => []TypeOK
<1>1. ReadingsInv => TypeOK
  BY DEF ReadingsInv
<1>2. QED BY <1>1, ReadingsInductive, PTL

(* A reading that names its account is shown, or decided on, for that      *)
(* account only (_cached, _probe_all, _backend_fallback).                  *)
THEOREM ShownIsAlwaysOwn == Spec => []ShownIsOwn
<1>1. ASSUME ReadingsInv PROVE ShownIsOwn
  <2>1. SUFFICES ASSUME NEW c \in Commands, pc[c] \in {"show", "decide"},
                        reading[c].names # NoAccount, acct[c] \notin Anonymous
                 PROVE  reading[c].of = acct[c]
    BY DEF ShownIsOwn
  <2>2. /\ Sound(reading[c]) /\ Describes(reading[c], acct[c])
        /\ acct[c] # NoAccount
    BY <1>1, <2>1 DEF ReadingsInv, CommandInv, DecisionInv
  <2>3. reading[c].names = reading[c].of
    BY <2>1, <2>2, Constants DEF Sound
  <2>4. QED BY <2>1, <2>2, <2>3 DEF Describes, Id
<1>2. QED BY <1>1, ReadingsInductive, PTL

(* After a reset no reading of before it is kept, but for the windows that *)
(* the property names (_reset, forget_usage).                              *)
THEOREM ResetIsAlwaysSeen == Spec => []ResetIsSeen
<1>1. ReadingsInv => ResetIsSeen
  BY DEF ReadingsInv
<1>2. QED BY <1>1, ReadingsInductive, PTL

(* A credit is spent of the account the reading was taken of and the user  *)
(* named, if the home has not changed since redeem looked at it.           *)
THEOREM AlwaysSpentAsDecided == Spec => SpentAsDecided
<1> DEFINE Decided ==
      \A c \in Commands :
          /\ Redeem(c)
          /\ reading[c].names # NoAccount /\ home[slot[c]] = whose[c]
          => LET a == home[slot[c]]
             IN  a = reading[c].of /\ Id(acct[c]) \in {NoAccount, a}
<1>1. ASSUME ReadingsInv PROVE Decided
  <2>1. SUFFICES ASSUME NEW c \in Commands, Redeem(c),
                        reading[c].names # NoAccount,
                        home[slot[c]] = whose[c]
                 PROVE  /\ whose[c] = reading[c].of
                        /\ Id(acct[c]) \in {NoAccount, whose[c]}
    OBVIOUS
  <2>2. pc[c] = "checked"
    BY <2>1 DEF Redeem
  <2>3. /\ Sound(reading[c]) /\ Describes(reading[c], acct[c])
        /\ Id(whose[c]) = reading[c].names
    BY <1>1, <2>1, <2>2 DEF ReadingsInv, CommandInv, DecisionInv
  <2>4. whose[c] = reading[c].names
    BY <2>1, <2>3 DEF Id
  <2>5. reading[c].of = whose[c]
    BY <2>1, <2>3, <2>4, Constants DEF Sound
  <2>6. Id(acct[c]) \in {NoAccount, whose[c]}
    BY <2>1, <2>3, <2>4 DEF Describes, Id
  <2>7. QED BY <2>5, <2>6
<1>2. ReadingsInv /\ [Next]_vars => [Decided]_vars
  BY <1>1
<1>3. Spec => [][Decided]_vars
  BY <1>2, ReadingsInductive, PTL DEF Spec
<1>4. QED BY <1>3 DEF SpentAsDecided
=============================================================================
