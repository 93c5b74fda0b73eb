-------------------------- MODULE AutoDaemonProofs --------------------------
(***************************************************************************)
(* What the daemon's decisions promise, for any number of daemons, slots   *)
(* and keys, and every value of the settings: first what the selection and *)
(* the reset policy return, then what each tick makes of it, then what     *)
(* state.json promises as long as one daemon runs at a time.               *)
(***************************************************************************)
EXTENDS AutoDaemon, WellFoundedInduction, TLAPS

(***************************************************************************)
(* Selection and reset policy, for every threshold, hysteresis and         *)
(* horizon, and any number of accounts and credits.                        *)
(***************************************************************************)
Percents == 0..100 \cup {Unknown}
SlotNumbers == Nat \ {NoSlot}
AllCandidates == [slot : SlotNumbers, percent : Percents]
Credits == [available : BOOLEAN, left : Int]

(* No two candidates of one slot.                                          *)
OnePerSlot(candidates) ==
    \A c, d \in candidates : c.slot = d.slot => c = d

(* What pick_target chooses from.                                          *)
Available(candidates, current) ==
    {c \in candidates : c.slot # current /\ Eligible(c)}

-----------------------------------------------------------------------------
LEMMA NatHasMin ==
  ASSUME NEW S \in SUBSET Nat, S # {}
  PROVE  \E m \in S : \A x \in S : m <= x
<1>1. PICK m \in S : \A x \in S : ~ (<<x, m>> \in OpToRel(<, Nat))
  BY NatLessThanWellFounded, WFMin
<1>2. \A x \in S : ~ (x < m)
  BY <1>1 DEF OpToRel
<1>3. QED BY <1>2

LEMMA MinOf ==
  ASSUME NEW S \in SUBSET Nat, S # {}
  PROVE  Min(S) \in S /\ \A x \in S : Min(S) <= x
BY NatHasMin DEF Min

LEMMA RotateNextType ==
  ASSUME NEW slots \in SUBSET SlotNumbers, NEW current \in Nat
  PROVE  IF slots \ {current} = {}
         THEN RotateNext(slots, current) = NoSlot
         ELSE RotateNext(slots, current) \in slots \ {current}
<1> DEFINE others == slots \ {current}
           after == {s \in others : s > current}
<1>1. others \in SUBSET Nat /\ after \in SUBSET Nat
  BY DEF SlotNumbers
<1>2. CASE others = {}
  BY <1>2 DEF RotateNext
<1>3. CASE others # {}
  <2>1. Min(others) \in others
    BY <1>1, <1>3, MinOf
  <2>2. after # {} => Min(after) \in others
    BY <1>1, MinOf
  <2>3. RotateNext(slots, current) =
           IF after # {} /\ current # NoSlot THEN Min(after) ELSE Min(others)
    BY <1>3 DEF RotateNext
  <2>4. QED BY <1>3, <2>1, <2>2, <2>3
<1>4. QED BY <1>2, <1>3

(* The order of `best' has a first candidate.                              *)
LEMMA BestExists ==
  ASSUME NEW A \in SUBSET AllCandidates, A # {}, OnePerSlot(A)
  PROVE  \E c \in A : \A d \in A \ {c} : Better(c, d)
<1> DEFINE Key(c) == IF c.percent = Unknown THEN 101 ELSE c.percent
           keys == {Key(c) : c \in A}
<1>1. keys \in SUBSET Nat /\ keys # {}
  BY DEF AllCandidates, Percents, Unknown
<1> HIDE DEF keys
<1>2. PICK m \in keys : \A x \in keys : m <= x
  BY <1>1, NatHasMin
<1> USE DEF keys
<1> DEFINE first == {c \in A : Key(c) = m}
           slots == {c.slot : c \in first}
<1>3. slots \in SUBSET Nat /\ slots # {}
  BY <1>2 DEF AllCandidates, SlotNumbers
<1>4. PICK s \in slots : \A x \in slots : s <= x
  BY <1>3, NatHasMin
<1>5. PICK c \in first : c.slot = s
  BY <1>4
<1>6. SUFFICES ASSUME NEW d \in A \ {c} PROVE Better(c, d)
  BY <1>5
<1>7. /\ c \in A /\ c \in AllCandidates /\ d \in AllCandidates
      /\ c.slot # d.slot
      /\ Key(c) <= Key(d)
      /\ Key(c) = Key(d) => c.slot <= d.slot
  BY <1>2, <1>4, <1>5, <1>6 DEF OnePerSlot
<1>8. QED BY <1>7 DEF Better, AllCandidates, Percents, SlotNumbers, Unknown

(* pick_target returns an eligible candidate other than the current one,   *)
(* and none only if there is none.                                         *)
LEMMA PickTargetType ==
  ASSUME NEW candidates \in SUBSET AllCandidates, OnePerSlot(candidates),
         NEW current \in Nat, NEW strategy
  PROVE  IF Available(candidates, current) = {}
         THEN PickTarget(candidates, current, strategy) = NoSlot
         ELSE \E c \in Available(candidates, current) :
                 PickTarget(candidates, current, strategy) = c.slot
<1> DEFINE A == Available(candidates, current)
           slots == {c.slot : c \in A}
           best == CHOOSE c \in A : \A d \in A \ {c} : Better(c, d)
<1>1. PickTarget(candidates, current, strategy) =
         IF A = {} THEN NoSlot
         ELSE IF strategy = "best" THEN best.slot
         ELSE RotateNext(slots, current)
  BY DEF PickTarget, Available
<1>2. A \in SUBSET AllCandidates /\ OnePerSlot(A)
  BY DEF Available, OnePerSlot
<1>3. slots \in SUBSET SlotNumbers /\ current \notin slots
  BY <1>2 DEF AllCandidates, Available
<1> HIDE DEF A
<1>4. CASE A = {}
  BY <1>1, <1>4 DEF A
<1>5. ASSUME A # {}, strategy # "best"
      PROVE  \E c \in A :
                PickTarget(candidates, current, strategy) = c.slot
  <2>1. PickTarget(candidates, current, strategy) = RotateNext(slots, current)
    BY <1>1, <1>5
  <2>2. slots \ {current} # {}
    BY <1>3, <1>5
  <2>3. RotateNext(slots, current) \in slots
    BY <1>3, <2>2, RotateNextType
  <2>4. QED BY <2>1, <2>3
<1>6. ASSUME A # {}, strategy = "best"
      PROVE  \E c \in A :
                PickTarget(candidates, current, strategy) = c.slot
  <2>1. best \in A
    BY <1>2, <1>6, BestExists
  <2>2. PickTarget(candidates, current, strategy) = best.slot
    BY <1>1, <1>6
  <2>3. QED BY <2>1, <2>2
<1>7. QED BY <1>4, <1>5, <1>6 DEF A

(* `best' chooses the first of them in its order.                          *)
LEMMA PickTargetBest ==
  ASSUME NEW candidates \in SUBSET AllCandidates, OnePerSlot(candidates),
         NEW current, Available(candidates, current) # {}
  PROVE  \E c \in Available(candidates, current) :
            /\ PickTarget(candidates, current, "best") = c.slot
            /\ \A d \in Available(candidates, current) \ {c} : Better(c, d)
<1> DEFINE A == Available(candidates, current)
           best == CHOOSE c \in A : \A d \in A \ {c} : Better(c, d)
<1>1. PickTarget(candidates, current, "best") = best.slot
  BY DEF PickTarget, Available
<1>2. A \in SUBSET AllCandidates /\ OnePerSlot(A)
  BY DEF Available, OnePerSlot
<1> HIDE DEF A
<1>3. A # {}
  BY DEF A
<1>4. best \in A /\ \A d \in A \ {best} : Better(best, d)
  BY <1>2, <1>3, BestExists
<1>5. QED BY <1>1, <1>4 DEF A

(* pick_target depends only on what is available.                          *)
LEMMA PickTargetCong ==
  ASSUME NEW C, NEW D, NEW current, NEW strategy,
         Available(C, current) = Available(D, current)
  PROVE  PickTarget(C, current, strategy) = PickTarget(D, current, strategy)
<1> DEFINE Of(A) == IF A = {} THEN NoSlot
                    ELSE IF strategy = "best"
                    THEN (CHOOSE c \in A :
                             \A d \in A \ {c} : Better(c, d)).slot
                    ELSE RotateNext({c.slot : c \in A}, current)
<1>1. PickTarget(C, current, strategy) = Of(Available(C, current))
  BY DEF PickTarget, Available
<1>2. PickTarget(D, current, strategy) = Of(Available(D, current))
  BY DEF PickTarget, Available
<1> HIDE DEF Of
<1>3. QED BY <1>1, <1>2

-----------------------------------------------------------------------------
(* soonest_expiring_credit finds a usable credit if there is one, and none *)
(* of the usable ones expires sooner.                                      *)
LEMMA SoonestExpiringType ==
  ASSUME NEW credits \in SUBSET Credits
  PROVE  LET usable == {k \in credits : Usable(k)}
             k == SoonestExpiring(credits)
         IN  IF usable = {} THEN k = NoCredit
             ELSE k \in usable /\ \A j \in usable : k.left <= j.left
<1> DEFINE usable == {k \in credits : Usable(k)}
           days == {k.left : k \in usable}
<1>1. CASE usable = {}
  BY <1>1 DEF SoonestExpiring
<1>2. CASE usable # {}
  <2>1. days \in SUBSET Nat /\ days # {}
    BY <1>2 DEF Usable, Credits
  <2>2. PICK m \in days : \A x \in days : m <= x
    BY <2>1, NatHasMin
  <2>3. \E k \in usable : \A j \in usable : k.left <= j.left
    BY <2>2
  <2>4. QED BY <1>2, <2>3 DEF SoonestExpiring
<1>3. QED BY <1>1, <1>2

(* If decide says yes and there is a credit to spend, then it is usable,   *)
(* the usage is known and high enough, and the policy's condition holds.   *)
LEMMA RedeemedForAReason ==
  ASSUME NEW policy, NEW credits \in SUBSET Credits, NEW percent \in Percents,
         NEW capped, NEW alternatives,
         ShouldRedeem(policy, credits, percent, capped, alternatives),
         SoonestExpiring(credits) # NoCredit
  PROVE  /\ \E k \in credits : Usable(k)
         /\ percent \in MinUsage..100
         /\ policy \in {"expiring", "exhausted", "always"}
         /\ policy = "exhausted" => ~alternatives
         /\ policy = "expiring" =>
               \E k \in credits : Usable(k) /\ k.left <= ExpiryDays
<1>1. SoonestExpiring(credits) \in {k \in credits : Usable(k)}
  BY SoonestExpiringType
<1>2. percent \in MinUsage..100
  BY PolicyAssumption DEF ShouldRedeem, Percents, Unknown
<1>3. policy = "expiring" => SoonestExpiring(credits).left <= ExpiryDays
  BY DEF ShouldRedeem, ExpiringSoon
<1>4. QED BY <1>1, <1>2, <1>3 DEF ShouldRedeem

-----------------------------------------------------------------------------
(***************************************************************************)
(* The ticks.                                                              *)
(***************************************************************************)

(* A reading of an account, a target, and all that a tick knows.           *)
ReadingType ==
    [binding : Readings, percent : Readings, credits : SUBSET Credits]
TargetType == [slot : Slots \cup {NoSlot}, percent : Readings]
Counts == [Slots -> 0..UnhealthyTicks]
Pcs == {"down", "broken", "asleep", "woken", "probing", "considering",
        "reserving", "redeeming", "picking", "ending"}
TickType ==
    [pc : Pcs, cooldown : Moments, unhealthy : Counts, age : 0..MaxAge,
     at : Slots \cup {NoSlot}, probe : {"none", "ok", "failed"},
     reading : ReadingType,
     others : [Slots -> Readings \cup {Failed, Absent}],
     cleared : SUBSET Slots, policy : Policies, strategy : Strategies,
     disturbed : BOOLEAN, target : TargetType, acted : BOOLEAN, due : Moments]

(* The parts of the promises that concern one tick.                        *)
Deciding == {"considering", "reserving", "redeeming", "picking"}
SpendsForAReason(t) ==
    LET good == {k \in t.reading.credits : k.available /\ k.left > 0}
    IN  /\ t.probe = "ok" /\ good # {}
        /\ t.reading.binding \in MinUsage..100
        /\ t.policy \in {"expiring", "exhausted", "always"}
        /\ t.policy = "exhausted" => \A s \in Slots \ {t.at} :
                                        t.others[s] >= Threshold
        /\ t.policy = "expiring" => \E k \in good : k.left <= ExpiryDays
LastResort(t) ==
    \A s \in Slots \ (Keys \cup {t.at}) :
        t.others[s] # Failed
        /\ Eligible([slot |-> s, percent |-> t.others[s]]) =>
            /\ t.disturbed
            /\ t.strategy = "best" => t.others[s] = Unknown

TickInv(t) ==
    /\ t \in TickType
    /\ Eligible(t.target)
    /\ t.pc \in {"asleep", "woken", "probing"} =>
          t.probe = "none" /\ t.target = Nobody
    /\ t.pc \in Deciding /\ t.probe = "ok" =>
          t.reading.percent = Unknown \/ t.reading.percent >= Threshold
    /\ t.pc = "reserving" => SpendsForAReason(t)
    /\ t.target.slot \in Keys => LastResort(t)

(* The inductive invariant.                                                *)
DaemonInv ==
    /\ active \in Slots \cup {NoSlot}
    /\ cooldown \in Moments /\ pause \in Moments
    /\ unhealthy \in Counts /\ failed \in Counts
    /\ arrived \in TargetType /\ Eligible(arrived)
    /\ swaps \in 0..MaxSwaps
    /\ DOMAIN tick = Daemons
    /\ \A d \in Daemons : TickInv(tick[d])

-----------------------------------------------------------------------------
(* The numbers.                                                            *)
LEMMA MomentTypes ==
  /\ Moments \in SUBSET Int /\ Never \in Moments
  /\ \A m \in Moments : Earlier(m) \in Moments
  /\ \A a \in 0..MaxAge : CooldownTime - a \in Moments
<1>1. Never \in Int /\ Moments \in SUBSET Int /\ Never \in Moments
  BY DaemonAssumption DEF Moments, Never
<1>2. ASSUME NEW m \in Moments
      PROVE  Earlier(m) \in Moments
  <2>1. \E x \in {m - 1, Never} : \A y \in {m - 1, Never} : x >= y
    BY <1>1
  <2>2. Earlier(m) \in {m - 1, Never} /\ Earlier(m) >= Never
    BY <2>1 DEF Earlier, Max
  <2>3. QED BY <1>1, <2>2, DaemonAssumption DEF Moments
<1>3. \A a \in 0..MaxAge : CooldownTime - a \in Moments
  BY DaemonAssumption DEF Moments, Never
<1>4. QED BY <1>1, <1>2, <1>3

LEMMA OneMoreType ==
  \A n \in 0..UnhealthyTicks : OneMore(n) \in 0..UnhealthyTicks
<1>1. SUFFICES ASSUME NEW n \in 0..UnhealthyTicks
               PROVE  OneMore(n) \in 0..UnhealthyTicks
  OBVIOUS
<1>2. \E x \in {n + 1, UnhealthyTicks} :
         \A y \in {n + 1, UnhealthyTicks} : x <= y
  BY DaemonAssumption
<1>3. /\ OneMore(n) \in {n + 1, UnhealthyTicks}
      /\ OneMore(n) <= UnhealthyTicks
  BY <1>2 DEF OneMore, Min
<1>4. QED BY <1>3, DaemonAssumption

LEMMA WorstType ==
  ASSUME NEW x \in Readings, NEW y \in Readings
  PROVE  Worst({x, y}) \in Readings
<1> DEFINE S == {x, y} \cup {Unknown}
<1>1. S \in SUBSET Readings /\ Readings \in SUBSET Int
  BY DaemonAssumption DEF Readings, Unknown
<1>2. x \in Int /\ y \in Int /\ Unknown \in Int
  BY <1>1
<1>3. \E a \in S : \A b \in S : a >= b
  BY <1>2
<1>4. QED BY <1>1, <1>3 DEF Worst, Max

LEMMA ReadingPercents ==
  /\ Readings \in SUBSET Percents /\ Unknown \in Readings
  /\ \A x \in Readings : x \in Int
BY DaemonAssumption DEF Readings, Percents, Unknown

(* A tick that knows nothing.                                              *)
LEMMA RestingInv ==
  ASSUME NEW pc \in Pcs \ Deciding, NEW until \in Moments,
         NEW counts \in Counts
  PROVE  TickInv(Resting(pc, until, counts))
<1>1. Resting(pc, until, counts) \in TickType
  BY MomentTypes, DaemonAssumption, ReadingPercents
     DEF Resting, TickType, NoReading, ReadingType, NoOthers, Nobody,
         TargetType, Policies, Strategies
<1>2. NoSlot \notin Keys
  BY DaemonAssumption
<1>3. QED BY <1>1, <1>2
          DEF Resting, TickInv, Deciding, Eligible, Nobody

LEMMA PickingInv ==
  ASSUME NEW t, TickInv(t), t.pc \in Deciding
  PROVE  TickInv(Picking(t))
<1>1. t \in TickType
  BY DEF TickInv
<1>2. /\ Picking(t).pc = "picking" /\ Picking(t).target = t.target
      /\ Picking(t).probe = t.probe /\ Picking(t).at = t.at
      /\ Picking(t).reading.percent = t.reading.percent
      /\ t.target.slot \in Keys => /\ Picking(t).others = t.others
                                   /\ Picking(t).disturbed = t.disturbed
                                   /\ Picking(t).strategy = t.strategy
  BY <1>1 DEF Picking, TickType, NoReading
<1>3. Picking(t) \in TickType
  <2>1. [NoReading EXCEPT !.percent = t.reading.percent] \in ReadingType
    BY <1>1, ReadingPercents DEF NoReading, ReadingType, TickType
  <2>2. NoOthers \in [Slots -> Readings \cup {Failed, Absent}]
    BY DEF NoOthers
  <2>3. QED BY <1>1, <2>1, <2>2
             DEF Picking, TickType, Pcs, Policies, Strategies
<1>4. QED BY <1>2, <1>3 DEF TickInv, LastResort

LEMMA EndingInv ==
  ASSUME NEW t \in TickType
  PROVE  TickInv(Ending(t))
<1>1. Ending(t) \in TickType
  <2>1. NoReading \in ReadingType /\ Nobody \in TargetType
    BY ReadingPercents DEF NoReading, ReadingType, Nobody, TargetType
  <2>2. NoOthers \in [Slots -> Readings \cup {Failed, Absent}]
    BY DEF NoOthers
  <2>3. QED BY <2>1, <2>2 DEF Ending, TickType, Pcs, Policies, Strategies
<1>2. Ending(t).pc = "ending" /\ Ending(t).target = Nobody
  BY DEF Ending, TickType
<1>3. NoSlot \notin Keys
  BY DaemonAssumption
<1>4. QED BY <1>1, <1>2, <1>3 DEF TickInv, Deciding, Eligible, Nobody

LEMMA ActedInv ==
  ASSUME NEW t \in TickType, NEW m \in Moments
  PROVE  TickInv([Ending(t) EXCEPT !.acted = TRUE, !.cooldown = m])
<1> DEFINE u == [Ending(t) EXCEPT !.acted = TRUE, !.cooldown = m]
<1>1. TickInv(Ending(t)) /\ Ending(t) \in TickType
  BY EndingInv DEF TickInv
<1>2. /\ u \in TickType /\ u.pc = Ending(t).pc /\ u.target = Ending(t).target
      /\ u.probe = Ending(t).probe /\ u.at = Ending(t).at
      /\ u.others = Ending(t).others /\ u.reading = Ending(t).reading
      /\ u.policy = Ending(t).policy
  BY <1>1 DEF TickType
<1>3. QED BY <1>1, <1>2 DEF TickInv, LastResort, SpendsForAReason

-----------------------------------------------------------------------------
(* The candidates of a tick.                                               *)
LEMMA CandidateTypes ==
  ASSUME NEW at, NEW enabled \in SUBSET (Slots \ {at}),
         NEW r \in [enabled \ (Keys \cup {at}) -> Readings \cup {Failed}],
         NEW left \in SUBSET (Keys \cap enabled)
  PROVE  \A c \in Candidates(left, r) :
            /\ c = [slot |-> c.slot, percent |-> c.percent]
            /\ c.slot \in Slots /\ c.percent \in Readings
            /\ c.slot \notin Keys =>
                  c.slot \in DOMAIN r /\ c.percent = r[c.slot]
            /\ c.slot \in Keys =>
                  c.percent = Unknown /\ c.slot \in left
<1> SUFFICES
      ASSUME NEW c \in Candidates(left, r)
      PROVE  /\ c = [slot |-> c.slot, percent |-> c.percent]
             /\ c.slot \in Slots /\ c.percent \in Readings
             /\ c.slot \notin Keys =>
                   c.slot \in DOMAIN r /\ c.percent = r[c.slot]
             /\ c.slot \in Keys =>
                   c.percent = Unknown /\ c.slot \in left
  BY Zenon
<1>1. CASE c \in Answers(r)
  <2>1. PICK s \in DOMAIN r : r[s] # Failed
                              /\ c = [slot |-> s, percent |-> r[s]]
    BY <1>1 DEF Answers
  <2>2. c.slot = s /\ c.percent = r[s]
    BY <2>1
  <2>3. s \in Slots \ Keys /\ r[s] \in Readings
    BY <2>1
  <2>4. QED BY <2>1, <2>2, <2>3
<1>2. CASE c \notin Answers(r)
  <2>1. PICK s \in left : c = [slot |-> s, percent |-> Unknown]
    BY <1>2 DEF Candidates
  <2>2. c.slot = s /\ c.percent = Unknown
    BY <2>1
  <2>3. s \in Keys /\ s \in Slots
    BY <2>1, DaemonAssumption
  <2>4. QED BY <2>1, <2>2, <2>3, ReadingPercents
<1>3. QED BY <1>1, <1>2

LEMMA CandidateSet ==
  ASSUME NEW at, NEW enabled \in SUBSET (Slots \ {at}),
         NEW r \in [enabled \ (Keys \cup {at}) -> Readings \cup {Failed}],
         NEW left \in SUBSET (Keys \cap enabled)
  PROVE  /\ Candidates(left, r) \in SUBSET AllCandidates
         /\ Candidates(left, r) \in SUBSET TargetType
         /\ OnePerSlot(Candidates(left, r))
<1> DEFINE C == Candidates(left, r)
<1>1. \A c \in C :
         /\ c = [slot |-> c.slot, percent |-> c.percent]
         /\ c.slot \in Slots /\ c.percent \in Readings
         /\ c.slot \notin Keys =>
               c.slot \in DOMAIN r /\ c.percent = r[c.slot]
         /\ c.slot \in Keys =>
               c.percent = Unknown /\ c.slot \in left
  BY CandidateTypes, Zenon
<1> HIDE DEF C
<1>2. ASSUME NEW c \in C
      PROVE  c \in AllCandidates /\ c \in TargetType
  <2>1. c.slot \in SlotNumbers /\ c.percent \in Percents
    BY <1>1, DaemonAssumption, ReadingPercents DEF SlotNumbers
  <2>2. QED BY <1>1, <2>1 DEF AllCandidates, TargetType
<1>3. ASSUME NEW c \in C, NEW e \in C, c.slot = e.slot
      PROVE  c = e
  <2>1. c.percent = e.percent
    BY <1>1, <1>3
  <2>2. QED BY <1>1, <1>3, <2>1
<1>4. QED BY <1>2, <1>3 DEF OnePerSlot, C

(* The target is one of the candidates, eligible, and under `best' no      *)
(* other one that is available comes before it.                            *)
LEMMA TargetFacts ==
  ASSUME NEW at \in Slots \cup {NoSlot}, NEW C \in SUBSET AllCandidates,
         C \in SUBSET TargetType, OnePerSlot(C), NEW strategy
  PROVE  LET c == Target(C, at, strategy)
         IN  /\ c \in TargetType /\ Eligible(c)
             /\ c.slot # NoSlot => c \in C
             /\ c.slot # NoSlot /\ strategy = "best" =>
                   \A e \in Available(C, at) \ {c} : Better(c, e)
<1> DEFINE p == PickTarget(C, at, strategy)
           c == Target(C, at, strategy)
<1>1. at \in Nat
  BY DaemonAssumption DEF NoSlot
<1>2. IF Available(C, at) = {} THEN p = NoSlot
      ELSE \E x \in Available(C, at) : p = x.slot
  BY <1>1, PickTargetType
<1>3. CASE p = NoSlot
  <2>1. c = Nobody
    BY <1>3 DEF Target
  <2>2. QED BY <2>1, ReadingPercents DEF Nobody, TargetType, Eligible
<1>4. CASE p # NoSlot
  <2>1. PICK x \in Available(C, at) : p = x.slot
    BY <1>2, <1>4
  <2>2. x \in C /\ Eligible(x)
    BY <2>1 DEF Available
  <2>3. c = x
    <3>1. c = CHOOSE y \in C : y.slot = p
      BY <1>4 DEF Target
    <3>2. c \in C /\ c.slot = p
      BY <2>1, <2>2, <3>1
    <3>3. QED BY <2>1, <2>2, <3>2 DEF OnePerSlot
  <2>4. ASSUME strategy = "best"
        PROVE  \A e \in Available(C, at) \ {x} : Better(x, e)
    <3>1. PICK y \in Available(C, at) :
             /\ p = y.slot
             /\ \A e \in Available(C, at) \ {y} : Better(y, e)
      BY <2>1, <2>4, PickTargetBest
    <3>2. y = x
      BY <2>1, <3>1 DEF OnePerSlot, Available
    <3>3. QED BY <3>1, <3>2
  <2>5. QED BY <2>2, <2>3, <2>4
<1>5. QED BY <1>3, <1>4

(* Without headroom every other account is known to have none.             *)
LEMMA NoHeadroom ==
  ASSUME NEW at, NEW enabled \in SUBSET (Slots \ {at}),
         NEW r \in [enabled \ (Keys \cup {at}) -> Readings \cup {Failed}],
         NEW left \in SUBSET (Keys \cap enabled),
         ~Headroom(Keys \cap enabled, left, r)
  PROVE  \A s \in Slots \ {at} : Known(enabled, r)[s] >= Threshold
<1> DEFINE keys == Keys \cap enabled
<1>1. /\ \A s \in DOMAIN r : r[s] # Failed
      /\ left = keys
      /\ \A c \in Candidates(left, r) :
            c.percent # Unknown /\ ~(c.percent < Threshold)
  BY DEF Headroom
<1>2. SUFFICES ASSUME NEW s \in Slots \ {at}
               PROVE  Known(enabled, r)[s] >= Threshold
  OBVIOUS
<1>3. keys = {}
  <2>1. SUFFICES ASSUME NEW k \in keys PROVE FALSE
    OBVIOUS
  <2>2. [slot |-> k, percent |-> Unknown] \in Candidates(left, r)
    BY <1>1 DEF Candidates
  <2>3. QED BY <1>1, <2>2
<1>4. CASE s \in DOMAIN r
  <2>1. [slot |-> s, percent |-> r[s]] \in Candidates(left, r)
    BY <1>1, <1>4 DEF Candidates, Answers
  <2>2. r[s] # Unknown /\ ~(r[s] < Threshold) /\ r[s] \in Readings
    BY <1>1, <1>4, <2>1
  <2>3. r[s] >= Threshold
    <3>1. r[s] \in 0..100
      BY <2>2, DaemonAssumption DEF Readings
    <3>2. QED BY <2>2, <3>1, PolicyAssumption
  <2>4. QED BY <1>2, <1>4, <2>3 DEF Known
<1>5. CASE s \notin DOMAIN r
  <2>1. s \notin enabled
    BY <1>2, <1>3, <1>5
  <2>2. Known(enabled, r)[s] = Absent
    BY <1>2, <1>5, <2>1 DEF Known
  <2>3. QED BY <2>2, PolicyAssumption DEF Absent
<1>6. QED BY <1>4, <1>5

(* The daemon chooses the account that `codexswap switch' would choose, of *)
(* those whose usage it learned, in a tick that nobody has disturbed:      *)
(* suppressing the keys one by one comes to the same as leaving them out.  *)
THEOREM SelectionsAgree ==
  ASSUME NEW at, NEW enabled \in SUBSET (Slots \ {at}),
         NEW r \in [enabled \ (Keys \cup {at}) -> Readings \cup {Failed}],
         NEW d \in Daemons, NEW look \in Looks(d, Keys \cap enabled, r),
         ~look.disturbed, NEW strategy
  PROVE  LET all == Answers(r) \cup
                    {[slot |-> s, percent |-> Unknown] :
                        s \in Keys \cap enabled}
         IN  PickTarget(Candidates(look.left, r), at, strategy)
             = PickOrdinary(all, Keys, at, strategy)
<1> DEFINE keys == Keys \cap enabled
           keyed == {[slot |-> s, percent |-> Unknown] : s \in keys}
           all == Answers(r) \cup keyed
           ordinary == {c \in all : c.slot \notin Keys \cup {at}
                                    /\ Eligible(c)}
<1>1. \A c \in Answers(r) : c.slot \notin Keys /\ c.slot # at
  BY DEF Answers
<1>2. \A c \in keyed : c.slot \in Keys
  OBVIOUS
<1>3. ordinary = {c \in Answers(r) : Eligible(c)}
  BY <1>1, <1>2
<1>4. PickOrdinary(all, Keys, at, strategy) =
         PickTarget(IF ordinary = {} THEN all ELSE ordinary, at, strategy)
  BY DEF PickOrdinary
<1>0. look.left = KeysLeft(keys, r)
  BY DEF Looks
<1>5. CASE \E c \in Answers(r) : Eligible(c)
  <2>1. Candidates(look.left, r) = Answers(r)
    BY <1>0, <1>5 DEF Candidates, KeysLeft
  <2>2. ordinary # {}
    BY <1>3, <1>5
  <2>3. Available(ordinary, at) = Available(Answers(r), at)
    BY <1>1, <1>3 DEF Available
  <2>4. PickTarget(ordinary, at, strategy)
        = PickTarget(Answers(r), at, strategy)
    BY <2>3, PickTargetCong
  <2>5. QED BY <1>4, <2>1, <2>2, <2>4
<1>6. CASE ~ \E c \in Answers(r) : Eligible(c)
  <2>0. look.left = keys
    BY <1>0, <1>6 DEF KeysLeft
  <2>1. Candidates(look.left, r) = all
    BY <2>0 DEF Candidates
  <2>2. ordinary = {}
    BY <1>3, <1>6
  <2>3. QED BY <1>4, <2>1, <2>2
<1>7. QED BY <1>5, <1>6

(* What Consider comes to.                                                 *)
Considers(d, enabled, r, strategy, probed, look) ==
    LET t == Considered(tick[d], enabled, r, strategy, probed, look)
    IN  \/ tick' = [tick EXCEPT ![d] = Picking(t)]
        \/ \E policy \in PolicyValues :
              /\ Redeems(d, policy, Headroom(Keys \cap enabled, look.left, r))
              /\ tick' = [tick EXCEPT ![d] =
                    [t EXCEPT !.pc = "reserving", !.policy = policy]]

LEMMA ConsiderIs ==
  ASSUME NEW d \in Daemons, Consider(d)
  PROVE  \E enabled \in SUBSET (Slots \ {tick[d].at}) :
         \E r \in [Ordinary(d, enabled) -> Readings \cup {Failed}],
            strategy \in StrategyValues :
         \E probed \in SUBSET {s \in DOMAIN r : r[s] # Failed} :
         \E look \in Looks(d, Keys \cap enabled, r) :
            Considers(d, enabled, r, strategy, probed, look)
BY DEF Consider, Considers

LEMMA ClearType ==
  ASSUME NEW counts \in Counts, NEW probed
  PROVE  Clear(counts, probed) \in Counts
<1>1. 0 \in 0..UnhealthyTicks
  BY DaemonAssumption
<1>2. QED BY <1>1 DEF Clear, Counts

-----------------------------------------------------------------------------
(* The invariant holds at first.                                           *)
LEMMA DaemonInit == Init => DaemonInv
<1>1. SUFFICES ASSUME Init PROVE DaemonInv
  OBVIOUS
<1>2. [s \in Slots |-> 0] \in Counts
  BY DaemonAssumption DEF Counts
<1>3. TickInv(Off("down"))
  BY <1>2, MomentTypes, RestingInv DEF Off, Pcs, Deciding
<1>4. Nobody \in TargetType /\ Eligible(Nobody)
  BY ReadingPercents DEF Nobody, TargetType, Eligible
<1>5. swaps \in 0..MaxSwaps
  BY <1>1, DaemonAssumption DEF Init
<1>6. QED BY <1>1, <1>2, <1>3, <1>4, <1>5, MomentTypes DEF Init, DaemonInv

(* One daemon's step leaves the others as they are.                        *)
LEMMA OneTick ==
  ASSUME DaemonInv, NEW d \in Daemons, NEW u, TickInv(u),
         tick' = [tick EXCEPT ![d] = u]
  PROVE  DOMAIN tick' = Daemons /\ \A e \in Daemons : TickInv(tick'[e])
<1>1. DOMAIN tick = Daemons /\ \A e \in Daemons : TickInv(tick[e])
  BY DEF DaemonInv
<1>2. DOMAIN tick' = Daemons
  BY <1>1
<1>3. \A e \in Daemons : tick'[e] = IF e = d THEN u ELSE tick[e]
  BY <1>1
<1>4. QED BY <1>1, <1>2, <1>3

(* A step that changes nothing but one daemon's tick.                      *)
LEMMA OnlyTick ==
  ASSUME DaemonInv, NEW d \in Daemons, NEW u, TickInv(u),
         tick' = [tick EXCEPT ![d] = u], UNCHANGED <<active, state, ghosts>>
  PROVE  DaemonInv'
BY OneTick DEF DaemonInv, state, ghosts

LEMMA StartWake ==
  ASSUME DaemonInv, NEW d \in Daemons, Start(d) \/ Wake(d)
  PROVE  DaemonInv'
<1>1. TickInv(tick[d]) /\ tick[d] \in TickType
  BY DEF DaemonInv, TickInv
<1>2. CASE Start(d)
  <2>1. TickInv(Resting("asleep", cooldown, unhealthy))
    BY RestingInv DEF DaemonInv, Pcs, Deciding
  <2>2. QED BY <1>2, <2>1, OnlyTick DEF Start
<1>3. CASE Wake(d)
  <2> DEFINE u == [tick[d] EXCEPT !.pc = "woken", !.due = pause]
  <2>1. u \in TickType
    BY <1>1 DEF TickType, Pcs, DaemonInv
  <2>2. /\ u.pc = "woken" /\ u.probe = tick[d].probe
        /\ u.target = tick[d].target
    BY <1>1 DEF TickType
  <2>3. tick[d].probe = "none" /\ u.target = Nobody /\ NoSlot \notin Keys
    BY <1>1, <1>3, <2>2, DaemonAssumption DEF TickInv, Wake, At
  <2>4. TickInv(u)
    BY <2>1, <2>2, <2>3 DEF TickInv, Deciding, Eligible, Nobody
  <2>5. tick' = [tick EXCEPT ![d] = u]
    BY <1>3 DEF Wake
  <2>6. QED BY <1>3, <2>4, <2>5, OnlyTick DEF Wake
<1>4. QED BY <1>2, <1>3

LEMMA LoadKeeps ==
  ASSUME DaemonInv, NEW d \in Daemons, Load(d)
  PROVE  DaemonInv'
<1>1. PICK enabled \in BOOLEAN :
         tick' = [tick EXCEPT
             ![d].cooldown = cooldown, ![d].unhealthy = unhealthy,
             ![d].at = active,
             ![d].pc = IF ~enabled \/ -tick[d].age < cooldown THEN "ending"
                       ELSE IF active = NoSlot THEN "considering"
                       ELSE "probing"]
  BY Zenon DEF Load
<1> DEFINE pc == IF ~enabled \/ -tick[d].age < cooldown THEN "ending"
                 ELSE IF active = NoSlot THEN "considering"
                 ELSE "probing"
           u == [tick[d] EXCEPT !.cooldown = cooldown,
                   !.unhealthy = unhealthy, !.at = active, !.pc = pc]
<1>2. pc \in {"ending", "considering", "probing"}
  OBVIOUS
<1>3. tick' = [tick EXCEPT ![d] = u]
  BY <1>1
<1> HIDE DEF pc
<1>4. TickInv(tick[d]) /\ tick[d] \in TickType /\ tick[d].pc = "woken"
  BY DEF DaemonInv, TickInv, Load, At
<1>5. u \in TickType
  BY <1>2, <1>4 DEF TickType, Pcs, DaemonInv
<1>6. u.pc = pc /\ u.probe = tick[d].probe /\ u.target = tick[d].target
  BY <1>4 DEF TickType
<1>7. u.probe = "none" /\ u.target = Nobody /\ NoSlot \notin Keys
  BY <1>4, <1>6, DaemonAssumption DEF TickInv
<1>8. TickInv(u)
  BY <1>2, <1>5, <1>6, <1>7 DEF TickInv, Eligible, Nobody
<1>9. QED BY <1>3, <1>8, OnlyTick DEF Load

LEMMA ProbeKeeps ==
  ASSUME DaemonInv, NEW d \in Daemons, ProbeFails(d) \/ ProbeActive(d)
  PROVE  DaemonInv'
<1> DEFINE s == tick[d].at
<1>1. /\ TickInv(tick[d]) /\ tick[d] \in TickType
      /\ tick[d].pc = "probing" /\ tick[d].target = Nobody
  BY DEF DaemonInv, TickInv, ProbeFails, ProbeActive, At
<1>2. NoSlot \notin Keys
  BY DaemonAssumption
<1>3. CASE ProbeFails(d)
  <2> DEFINE count == OneMore(tick[d].unhealthy[s])
             pc == IF count < UnhealthyTicks THEN "ending" ELSE "considering"
             u == [tick[d] EXCEPT !.unhealthy[s] = count,
                     !.probe = "failed", !.pc = pc]
  <2>1. s \in Slots => count \in 0..UnhealthyTicks
    BY <1>1, OneMoreType DEF TickType, Counts
  <2>2. [tick[d].unhealthy EXCEPT ![s] = count] \in Counts
    BY <1>1, <2>1 DEF TickType, Counts
  <2>3. pc \in {"ending", "considering"}
    OBVIOUS
  <2>4. tick' = [tick EXCEPT ![d] = u]
    BY <1>3 DEF ProbeFails
  <2> HIDE DEF count, pc
  <2>5. u \in TickType
    BY <1>1, <2>2, <2>3 DEF TickType, Pcs
  <2>6. u.pc = pc /\ u.probe = "failed" /\ u.target = Nobody
    BY <1>1 DEF TickType
  <2>7. TickInv(u)
    BY <1>2, <2>3, <2>5, <2>6 DEF TickInv, Eligible, Nobody
  <2>8. QED BY <1>3, <2>4, <2>7, OnlyTick DEF ProbeFails
<1>4. CASE ProbeActive(d)
  <2>1. PICK binding \in Readings, model \in Readings,
             credits \in SUBSET Credits :
           LET percent == Worst({binding, model})
               idle == percent # Unknown /\ percent < Threshold
           IN  tick' = [tick EXCEPT
                 ![d].unhealthy[s] = Healthy(@), ![d].probe = "ok",
                 ![d].reading =
                    IF idle THEN NoReading
                    ELSE [binding |-> binding, percent |-> percent,
                          credits |-> credits],
                 ![d].pc = IF idle THEN "ending" ELSE "considering"]
    <3>1. {Unknown} \in SUBSET Readings /\ {{}} \in SUBSET SUBSET Credits
      BY ReadingPercents
    <3>2. CreditSets \in SUBSET SUBSET Credits
      BY DaemonAssumption DEF Credits
    <3>3. QED BY <1>4, <3>1, <3>2 DEF ProbeActive
  <2> DEFINE percent == Worst({binding, model})
             idle == percent # Unknown /\ percent < Threshold
             reading == IF idle THEN NoReading
                        ELSE [binding |-> binding, percent |-> percent,
                              credits |-> credits]
             pc == IF idle THEN "ending" ELSE "considering"
             u == [tick[d] EXCEPT !.unhealthy[s] = 0, !.probe = "ok",
                     !.reading = reading, !.pc = pc]
  <2>2. percent \in Readings
    BY WorstType
  <2>3. reading \in ReadingType
    BY <2>2, ReadingPercents DEF ReadingType, NoReading
  <2>4. /\ pc \in {"ending", "considering"}
        /\ pc = "considering" => reading.percent = Unknown
                                 \/ reading.percent >= Threshold
    BY <2>2, ReadingPercents, PolicyAssumption
  <2>5. tick' = [tick EXCEPT ![d] = u]
    BY <2>1 DEF Healthy
  <2> HIDE DEF reading, pc
  <2>6. [tick[d].unhealthy EXCEPT ![s] = 0] \in Counts
    <3>1. 0 \in 0..UnhealthyTicks
      BY DaemonAssumption
    <3>2. QED BY <1>1, <3>1 DEF TickType, Counts
  <2>7. u \in TickType
    BY <1>1, <2>3, <2>4, <2>6 DEF TickType, Pcs
  <2>8. u.pc = pc /\ u.target = Nobody /\ u.reading = reading
    BY <1>1 DEF TickType
  <2> HIDE DEF u, percent, idle
  <2>9. TickInv(u)
    BY <1>2, <2>4, <2>7, <2>8 DEF TickInv, Deciding, Eligible, Nobody
  <2>10. QED BY <1>4, <2>5, <2>9, OnlyTick DEF ProbeActive, u
<1>5. QED BY <1>3, <1>4

(* What is known of the slots when the tick goes on to steps 7 and 8.      *)
LEMMA ConsiderKeeps ==
  ASSUME DaemonInv, NEW d \in Daemons, Consider(d)
  PROVE  DaemonInv'
<1> DEFINE at == tick[d].at
<1>1. /\ TickInv(tick[d]) /\ tick[d] \in TickType
      /\ tick[d].pc = "considering" /\ at \in Slots \cup {NoSlot}
  BY DEF DaemonInv, TickInv, TickType, Consider, At
<1>2. PICK enabled \in SUBSET (Slots \ {at}) :
         \E r \in [Ordinary(d, enabled) -> Readings \cup {Failed}],
            strategy \in StrategyValues :
         \E probed \in SUBSET {s \in DOMAIN r : r[s] # Failed} :
         \E look \in Looks(d, Keys \cap enabled, r) :
            Considers(d, enabled, r, strategy, probed, look)
  BY ConsiderIs, Zenon
<1>3. PICK r \in [Ordinary(d, enabled) -> Readings \cup {Failed}],
           strategy \in StrategyValues :
         \E probed \in SUBSET {s \in DOMAIN r : r[s] # Failed} :
         \E look \in Looks(d, Keys \cap enabled, r) :
            Considers(d, enabled, r, strategy, probed, look)
  BY <1>2, Zenon
<1>4. PICK probed \in SUBSET {s \in DOMAIN r : r[s] # Failed} :
         \E look \in Looks(d, Keys \cap enabled, r) :
            Considers(d, enabled, r, strategy, probed, look)
  BY <1>3, Zenon
<1>5. PICK look \in Looks(d, Keys \cap enabled, r) :
         Considers(d, enabled, r, strategy, probed, look)
  BY <1>4, Zenon
<1> DEFINE counts == Clear(tick[d].unhealthy, probed)
           others == Known(enabled, r)
           target == Target(Candidates(look.left, r), at, strategy)
           t == Considered(tick[d], enabled, r, strategy, probed, look)
<1>6. /\ r \in [enabled \ (Keys \cup {at}) -> Readings \cup {Failed}]
      /\ look.left \in SUBSET (Keys \cap enabled)
      /\ look.disturbed \in BOOLEAN
      /\ ~look.disturbed => look.left = KeysLeft(Keys \cap enabled, r)
  BY DEF Ordinary, Looks
<1>7. counts \in Counts
  BY <1>1, ClearType DEF TickType
<1>8. others \in [Slots -> Readings \cup {Failed, Absent}]
  BY <1>6, ReadingPercents DEF Known
<1> DEFINE C == Candidates(look.left, r)
<1>9. /\ C \in SUBSET AllCandidates /\ C \in SUBSET TargetType
       /\ OnePerSlot(C)
       /\ \A x \in C : x.slot \in Keys =>
             x.percent = Unknown /\ x.slot \in look.left
  <2> DEFINE left == look.left
  <2>1. left \in SUBSET (Keys \cap enabled)
    BY <1>6
  <2> HIDE DEF left
  <2>2. /\ Candidates(left, r) \in SUBSET AllCandidates
        /\ Candidates(left, r) \in SUBSET TargetType
        /\ OnePerSlot(Candidates(left, r))
    BY <1>6, <2>1, CandidateSet
  <2>3. \A x \in Candidates(left, r) : x.slot \in Keys =>
           x.percent = Unknown /\ x.slot \in left
    BY <1>6, <2>1, CandidateTypes
  <2>4. QED BY <2>2, <2>3 DEF left
<1>10. /\ target \in TargetType /\ Eligible(target)
       /\ target.slot # NoSlot => target \in C
       /\ target.slot # NoSlot /\ strategy = "best" =>
             \A e \in Available(C, at) \ {target} : Better(target, e)
  BY <1>1, <1>9, TargetFacts
<1>11. ASSUME target.slot \in Keys, NEW s \in Slots \ (Keys \cup {at}),
             others[s] # Failed,
             Eligible([slot |-> s, percent |-> others[s]])
      PROVE  /\ look.disturbed
             /\ strategy = "best" => others[s] = Unknown
  <2> DEFINE k == target.slot
             e == [slot |-> s, percent |-> others[s]]
  <2>1. others[s] # Absent
    BY <1>11, PolicyAssumption DEF Absent, Eligible, Unknown
  <2>2. s \in DOMAIN r /\ others[s] = r[s]
    BY <1>6, <1>11, <2>1 DEF Known
  <2>3. k # NoSlot /\ k # s /\ k \in Nat /\ s \in Nat
    BY <1>11, DaemonAssumption
  <2>4. target \in C /\ target.percent = Unknown /\ k \in look.left
    BY <1>9, <1>10, <1>11, <2>3
  <2> HIDE DEF target, others, C
  <2>5. e \in Answers(r) /\ Eligible(e)
    BY <1>11, <2>2 DEF Answers
  <2>6. look.disturbed
    BY <1>6, <2>4, <2>5 DEF KeysLeft
  <2>7. ASSUME strategy = "best"
        PROVE  others[s] = Unknown
    <3>1. e \in Available(C, at) /\ e # target
      BY <1>11, <2>3, <2>5 DEF Candidates, Available, C
    <3>2. Better(target, e)
      BY <1>10, <2>3, <2>7, <3>1
    <3>3. QED BY <2>4, <3>2 DEF Better
  <2>8. QED BY <2>6, <2>7
<1>12. probed \in SUBSET Slots /\ strategy \in Strategies
  BY <1>6, DaemonAssumption
<1>13. \/ tick' = [tick EXCEPT ![d] = Picking(t)]
      \/ \E policy \in PolicyValues :
            /\ Redeems(d, policy, Headroom(Keys \cap enabled, look.left, r))
            /\ tick' = [tick EXCEPT ![d] =
                  [t EXCEPT !.pc = "reserving", !.policy = policy]]
  BY <1>5 DEF Considers
<1>14. t = [Cleared(tick[d], probed) EXCEPT
                !.others = others, !.strategy = strategy,
                !.disturbed = look.disturbed, !.target = target]
  BY DEF Considered
<1> HIDE DEF counts, others, target, t
<1>15. t \in TickType
  BY <1>1, <1>6, <1>7, <1>8, <1>10, <1>12, <1>14 DEF TickType, Cleared, counts
<1>16. /\ t.pc = "considering" /\ t.at = at /\ t.probe = tick[d].probe
       /\ t.reading = tick[d].reading /\ t.target = target
       /\ t.others = others /\ t.disturbed = look.disturbed
       /\ t.strategy = strategy
  BY <1>1, <1>14 DEF TickType, Cleared
<1>17. TickInv(t)
  BY <1>1, <1>10, <1>11, <1>15, <1>16 DEF TickInv, LastResort
<1>18. CASE tick' = [tick EXCEPT ![d] = Picking(t)]
  <2>1. TickInv(Picking(t))
    BY <1>16, <1>17, PickingInv DEF Deciding
  <2>2. QED BY <1>18, <2>1, OnlyTick DEF Consider
<1>19. CASE \E policy \in PolicyValues :
               /\ Redeems(d, policy, Headroom(Keys \cap enabled, look.left, r))
               /\ tick' = [tick EXCEPT ![d] =
                     [t EXCEPT !.pc = "reserving", !.policy = policy]]
  <2>1. PICK policy \in PolicyValues :
           /\ Redeems(d, policy, Headroom(Keys \cap enabled, look.left, r))
           /\ tick' = [tick EXCEPT ![d] =
                 [t EXCEPT !.pc = "reserving", !.policy = policy]]
    BY <1>19
  <2> DEFINE u == [t EXCEPT !.pc = "reserving", !.policy = policy]
  <2>2. policy \in Policies
    BY DaemonAssumption
  <2>3. u \in TickType
    BY <1>15, <2>2 DEF TickType, Pcs
  <2>4. /\ u.pc = "reserving" /\ u.policy = policy /\ u.at = at
        /\ u.probe = tick[d].probe /\ u.reading = tick[d].reading
        /\ u.target = t.target /\ u.others = others
        /\ u.disturbed = t.disturbed /\ u.strategy = t.strategy
    BY <1>15, <1>16 DEF TickType
  <2> HIDE DEF u
  <2>5. tick[d].reading \in ReadingType
    BY <1>1 DEF TickType
  <2>6. /\ tick[d].reading.credits \in SUBSET Credits
        /\ tick[d].reading.binding \in Percents
    BY <2>5, ReadingPercents DEF ReadingType
  <2>7. /\ \E k \in u.reading.credits : Usable(k)
        /\ u.reading.binding \in MinUsage..100
        /\ policy \in {"expiring", "exhausted", "always"}
        /\ policy = "exhausted" => ~Headroom(Keys \cap enabled, look.left, r)
        /\ policy = "expiring" => \E k \in u.reading.credits :
                                     Usable(k) /\ k.left <= ExpiryDays
    BY <2>1, <2>4, <2>6, RedeemedForAReason DEF Redeems
  <2>8. ASSUME policy = "exhausted"
        PROVE  \A s \in Slots \ {at} : others[s] >= Threshold
    BY <1>6, <2>7, <2>8, NoHeadroom DEF others
  <2>9. tick[d].probe = "ok"
    BY <2>1 DEF Redeems
  <2>10. SpendsForAReason(u)
    BY <2>4, <2>7, <2>8, <2>9 DEF SpendsForAReason, Usable
  <2>11. TickInv(u)
    BY <1>16, <1>17, <2>3, <2>4, <2>10 DEF TickInv, LastResort, Deciding
  <2>12. QED BY <2>1, <2>11, OnlyTick DEF Consider, u
<1>20. QED BY <1>13, <1>18, <1>19

LEMMA RedemptionKeeps ==
  ASSUME DaemonInv, NEW d \in Daemons,
         Refuse(d) \/ Reserve(d) \/ Redeem(d)
  PROVE  DaemonInv'
<1>1. /\ TickInv(tick[d]) /\ tick[d] \in TickType
      /\ tick[d].pc \in {"reserving", "redeeming"}
  BY DEF DaemonInv, TickInv, Refuse, Reserve, Redeem, At
<1>2. TickInv(Picking(tick[d]))
  BY <1>1, PickingInv DEF Deciding
<1>3. ASSUME Save(d), NEW u, TickInv(u), tick' = [tick EXCEPT ![d] = u],
             UNCHANGED <<active, ghosts>>
      PROVE  DaemonInv'
  BY <1>1, <1>3, OneTick DEF DaemonInv, Save, TickType, ghosts
<1>4. CASE Refuse(d)
  BY <1>2, <1>4, OnlyTick DEF Refuse
<1>5. CASE Reserve(d)
  <2> DEFINE p == Picking(tick[d])
             u == [p EXCEPT !.pc = "redeeming"]
  <2>1. p \in TickType /\ p.pc = "picking"
    BY <1>1, <1>2 DEF TickInv, Picking, TickType
  <2> HIDE DEF p
  <2>2. u \in TickType
    BY <2>1 DEF TickType, Pcs
  <2>3. /\ u.pc = "redeeming" /\ u.at = p.at /\ u.probe = p.probe
        /\ u.reading = p.reading /\ u.target = p.target
        /\ u.others = p.others
        /\ u.disturbed = p.disturbed /\ u.strategy = p.strategy
    BY <2>1 DEF TickType
  <2> HIDE DEF u
  <2>4. TickInv(p)
    BY <1>2 DEF p
  <2>5. TickInv(u)
    BY <2>1, <2>2, <2>3, <2>4 DEF TickInv, LastResort, Deciding
  <2>6. QED BY <1>3, <1>5, <2>5 DEF Reserve, u, p
<1>6. CASE Redeem(d)
  <2>1. CooldownUntil(d) \in Moments
    BY <1>1, MomentTypes DEF CooldownUntil, TickType
  <2>2. TickInv([Ending(tick[d]) EXCEPT
                   !.acted = TRUE, !.cooldown = CooldownUntil(d)])
    BY <1>1, <2>1, ActedInv
  <2>3. QED BY <1>2, <1>3, <1>6, <2>2 DEF Redeem, Acted
<1>7. QED BY <1>4, <1>5, <1>6

LEMMA SwitchKeeps ==
  ASSUME DaemonInv, NEW d \in Daemons, Switch(d)
  PROVE  DaemonInv'
<1>1. TickInv(tick[d]) /\ tick[d] \in TickType
  BY DEF DaemonInv, TickInv
<1>2. tick[d].target \in TargetType /\ Eligible(tick[d].target)
  BY <1>1 DEF TickInv, TickType
<1>3. CooldownUntil(d) \in Moments
  BY <1>1, MomentTypes DEF CooldownUntil, TickType
<1>4. TickInv([Ending(tick[d]) EXCEPT
                 !.acted = TRUE, !.cooldown = CooldownUntil(d)])
  BY <1>1, <1>3, ActedInv
<1>5. DOMAIN tick' = Daemons /\ \A e \in Daemons : TickInv(tick'[e])
  BY <1>4, OneTick DEF Switch, Acted
<1>6. active' \in Slots \cup {NoSlot}
  BY <1>2 DEF Switch, TargetType
<1>7. QED BY <1>2, <1>5, <1>6 DEF DaemonInv, Switch, state

LEMMA EndTickKeeps ==
  ASSUME DaemonInv, NEW d \in Daemons, EndTick(d)
  PROVE  DaemonInv'
<1>1. TickInv(tick[d]) /\ tick[d] \in TickType
  BY DEF DaemonInv, TickInv
<1>2. /\ tick[d].cooldown \in Moments /\ tick[d].unhealthy \in Counts
      /\ CooldownTime - tick[d].age \in Moments
  BY <1>1, MomentTypes DEF TickType
<1>3. TickInv(Resting("asleep", tick[d].cooldown, tick[d].unhealthy))
  BY <1>2, RestingInv DEF Pcs, Deciding
<1>4. DOMAIN tick' = Daemons /\ \A e \in Daemons : TickInv(tick'[e])
  BY <1>3, OneTick DEF EndTick
<1>5. FailedAfter(d) \in Counts
  <2> DEFINE After(s) ==
             IF s = tick[d].at /\ tick[d].probe = "failed"
             THEN OneMore(failed[s])
             ELSE IF \/ s = tick[d].at /\ tick[d].probe = "ok"
                     \/ s \in tick[d].cleared THEN 0
             ELSE failed[s]
  <2>1. FailedAfter(d) = [s \in Slots |-> After(s)]
    BY DEF FailedAfter
  <2>2. \A s \in Slots : After(s) \in {OneMore(failed[s]), 0, failed[s]}
    OBVIOUS
  <2> HIDE DEF After
  <2>3. 0 \in 0..UnhealthyTicks
    BY DaemonAssumption
  <2>4. \A s \in Slots : failed[s] \in 0..UnhealthyTicks
    BY DEF DaemonInv, Counts
  <2>5. \A s \in Slots : After(s) \in 0..UnhealthyTicks
    BY <2>2, <2>3, <2>4, OneMoreType
  <2>6. QED BY <2>1, <2>5 DEF Counts
<1>6. cooldown' \in Moments /\ unhealthy' \in Counts /\ pause' \in Moments
  BY <1>2 DEF EndTick, Save, DaemonInv
<1>7. QED BY <1>4, <1>5, <1>6 DEF DaemonInv, EndTick

LEMMA StopKeeps ==
  ASSUME DaemonInv, NEW d \in Daemons,
         \/ NoTarget(d) \/ TickFails(d) \/ ConsiderFails(d)
         \/ SaveBusy(d) \/ Crash(d)
  PROVE  DaemonInv'
<1>1. TickInv(Ending(tick[d]))
  BY EndingInv DEF DaemonInv, TickInv
<1>2. TickInv(Off("down")) /\ TickInv(Off("broken"))
  <2>1. [s \in Slots |-> 0] \in Counts
    <3>1. 0 \in 0..UnhealthyTicks
      BY DaemonAssumption
    <3>2. QED BY <3>1 DEF Counts
  <2>2. QED BY <2>1, MomentTypes, RestingInv DEF Off, Pcs, Deciding
<1>3. CASE NoTarget(d) \/ TickFails(d)
  BY <1>1, <1>3, OnlyTick DEF NoTarget, TickFails, Ends
<1>4. CASE ConsiderFails(d)
  <2>1. PICK probed \in SUBSET Ordinary(d, Slots) :
           tick' = [tick EXCEPT ![d] = Ending(Cleared(tick[d], probed))]
    BY <1>4 DEF ConsiderFails
  <2>2. tick[d] \in TickType /\ probed \in SUBSET Slots
    BY DEF DaemonInv, TickInv, Ordinary
  <2>3. Clear(tick[d].unhealthy, probed) \in Counts
    BY <2>2, ClearType DEF TickType
  <2>4. Cleared(tick[d], probed) \in TickType
    BY <2>2, <2>3 DEF TickType, Cleared
  <2>5. TickInv(Ending(Cleared(tick[d], probed)))
    BY <2>4, EndingInv
  <2>6. QED BY <1>4, <2>1, <2>5, OnlyTick DEF ConsiderFails
<1>5. CASE SaveBusy(d) \/ Crash(d)
  BY <1>2, <1>5, OnlyTick DEF SaveBusy, Crash
<1>6. QED BY <1>3, <1>4, <1>5

(* The steps that no daemon takes.                                         *)
LEMMA UserKeeps ==
  ASSUME DaemonInv, NEW s \in Slots, UserSwitch(s)
  PROVE  DaemonInv'
<1>1. Nobody \in TargetType /\ Eligible(Nobody)
  BY ReadingPercents DEF Nobody, TargetType, Eligible
<1>2. QED BY <1>1 DEF DaemonInv, UserSwitch, state

LEMMA SwapKeeps ==
  ASSUME DaemonInv, NEW a \in Slots, NEW b \in Slots, SwapSlots(a, b)
  PROVE  DaemonInv'
<1> DEFINE New(s) == CASE s = a -> b [] s = b -> a [] OTHER -> s
<1>1. \A s \in Slots \cup {NoSlot} : New(s) \in {a, b, s}
  BY Zenon
<1>2. \A s \in Slots : New(s) \in Slots
  BY Zenon
<1>3. /\ active' = New(active)
      /\ failed' = [s \in Slots |-> failed[New(s)]]
      /\ arrived' = [arrived EXCEPT !.slot = New(@)]
      /\ swaps < MaxSwaps /\ swaps' = swaps + 1
      /\ UNCHANGED <<state, tick, pause>>
  BY Zenon DEF SwapSlots
<1> HIDE DEF New
<1>4. active' \in Slots \cup {NoSlot}
  BY <1>1, <1>3 DEF DaemonInv
<1>5. failed' \in Counts
  BY <1>2, <1>3 DEF DaemonInv, Counts
<1>6. arrived' \in TargetType /\ Eligible(arrived')
  <2>1. arrived \in TargetType /\ Eligible(arrived)
    BY DEF DaemonInv
  <2>2. New(arrived.slot) \in Slots \cup {NoSlot}
    BY <1>1, <2>1 DEF TargetType
  <2>3. QED BY <1>3, <2>1, <2>2 DEF TargetType, Eligible
<1>7. swaps' \in 0..MaxSwaps
  BY <1>3, DaemonAssumption DEF DaemonInv
<1>8. QED BY <1>3, <1>4, <1>5, <1>6, <1>7 DEF DaemonInv, state

LEMMA AdvanceKeeps ==
  ASSUME DaemonInv, Advance
  PROVE  DaemonInv'
<1>1. cooldown' \in Moments /\ pause' \in Moments
  BY MomentTypes DEF DaemonInv, Advance
<1>2. ASSUME NEW e \in Daemons
      PROVE  TickInv(tick'[e])
  <2> DEFINE t == tick[e]
             age == IF Ticking(e) THEN t.age + 1 ELSE t.age
             u == [t EXCEPT !.cooldown = Earlier(t.cooldown),
                            !.due = Earlier(t.due), !.age = age]
  <2>1. TickInv(t) /\ t \in TickType
    BY DEF DaemonInv, TickInv
  <2>2. tick'[e] = u
    BY DEF Advance
  <2>3. /\ Earlier(t.cooldown) \in Moments /\ Earlier(t.due) \in Moments
        /\ age \in 0..MaxAge
    <3>1. t.cooldown \in Moments /\ t.due \in Moments /\ t.age \in 0..MaxAge
      BY <2>1 DEF TickType
    <3>2. Ticking(e) => t.age < MaxAge
      BY DEF Advance
    <3>3. MaxAge \in Nat
      BY DaemonAssumption
    <3>4. age \in 0..MaxAge
      BY <3>1, <3>2, <3>3
    <3>5. QED BY <3>1, <3>4, MomentTypes
  <2> HIDE DEF age
  <2>4. u \in TickType
    BY <2>1, <2>3 DEF TickType
  <2>5. /\ u.pc = t.pc /\ u.at = t.at /\ u.probe = t.probe
        /\ u.reading = t.reading /\ u.target = t.target
        /\ u.others = t.others /\ u.policy = t.policy
        /\ u.disturbed = t.disturbed /\ u.strategy = t.strategy
    BY <2>1 DEF TickType
  <2> HIDE DEF u
  <2>6. TickInv(u)
    BY <2>1, <2>4, <2>5 DEF TickInv, LastResort, SpendsForAReason
  <2>7. QED BY <2>2, <2>6
<1>3. DOMAIN tick' = Daemons
  BY DEF Advance
<1>4. QED BY <1>1, <1>2, <1>3 DEF DaemonInv, Advance

LEMMA DaemonStep == DaemonInv /\ [Next]_vars => DaemonInv'
<1>1. SUFFICES ASSUME DaemonInv, [Next]_vars PROVE DaemonInv'
  OBVIOUS
<1>2. ASSUME NEW d \in Daemons, Tick(d) PROVE DaemonInv'
  BY <1>1, <1>2, StartWake, LoadKeeps, ProbeKeeps, ConsiderKeeps,
     RedemptionKeeps, SwitchKeeps, EndTickKeeps, StopKeeps DEF Tick
<1>3. CASE UNCHANGED vars
  BY <1>1, <1>3 DEF DaemonInv, vars, state, ghosts
<1>4. QED BY <1>1, <1>2, <1>3, UserKeeps, SwapKeeps, AdvanceKeeps DEF Next

-----------------------------------------------------------------------------
(* Whatever the daemons, the user and the usage of the accounts do, the    *)
(* invariant of the decisions holds.                                       *)
THEOREM DaemonInductive == Spec => []DaemonInv
BY DaemonInit, DaemonStep, PTL DEF Spec

(* Every variable of auto.py's model has its type.                         *)
THEOREM DaemonTypeCorrect == Spec => []TypeOK
<1>1. DaemonInv => TypeOK
  BY DEF DaemonInv, TickInv, TickType, TypeOK, Counts, TargetType
<1>2. QED BY <1>1, DaemonInductive, PTL

(* The hysteresis prevents ping-pong: select_target never leaves an        *)
(* account that the daemon chose before its usage rose by the hysteresis.  *)
THEOREM HysteresisAlways == Spec => []HysteresisHolds
<1>1. DaemonInv => HysteresisHolds
  <2>1. SUFFICES ASSUME DaemonInv, NEW d \in Daemons,
                        tick[d].pc = "picking", tick[d].probe = "ok",
                        tick[d].reading.percent # Unknown,
                        arrived.percent # Unknown
                 PROVE  tick[d].reading.percent >= arrived.percent + Hysteresis
    BY DEF HysteresisHolds
  <2>2. /\ tick[d].reading.percent \in Readings
        /\ tick[d].reading.percent >= Threshold
    BY <2>1 DEF DaemonInv, TickInv, TickType, ReadingType, Deciding
  <2>3. /\ arrived.percent \in Readings
        /\ arrived.percent <= Threshold - Hysteresis
    BY <2>1 DEF DaemonInv, TargetType, Eligible
  <2>4. QED BY <2>2, <2>3, ReadingPercents, PolicyAssumption
<1>2. QED BY <1>1, DaemonInductive, PTL

(* decide spends a credit only for the reason that its policy gives.       *)
THEOREM NoSpendAlways == Spec => []NoSpendOnAGuess
<1>1. DaemonInv => NoSpendOnAGuess
  BY DEF DaemonInv, TickInv, NoSpendOnAGuess, SpendsForAReason
<1>2. QED BY <1>1, DaemonInductive, PTL

(* In a tick that nobody disturbed, _AutoAccounts offers API keys only if  *)
(* no ordinary account is eligible; and `best' prefers every account whose *)
(* usage is known.                                                         *)
THEOREM KeysAlwaysLast == Spec => []KeysComeLast
<1>1. DaemonInv => KeysComeLast
  BY DEF DaemonInv, TickInv, KeysComeLast, LastResort, At
<1>2. QED BY <1>1, DaemonInductive, PTL

-----------------------------------------------------------------------------
(***************************************************************************)
(* One daemon.  Two daemons overwrite each other's cooldown and failure    *)
(* counters, so none of what follows can be had without OneDaemon.         *)
(***************************************************************************)

OneDaemon == \A d, e \in Daemons : d = e

(* Past the test of the cooldown.                                          *)
Working == {"probing"} \cup Deciding
Running(t) == t.pc \notin {"down", "broken"}

(* The cooldown of a running tick, if `p' is that of the last saved action.*)
CooldownKept(t, p) ==
    Running(t) =>
        /\ t.cooldown >= p
        /\ t.pc # "asleep" => t.due = p
        /\ t.pc \in Working => t.due <= -t.age
        /\ t.acted => t.pc = "ending" /\ t.cooldown >= CooldownTime - t.age

CooldownInv ==
    cooldown >= pause /\ \A d \in Daemons : CooldownKept(tick[d], pause)

-----------------------------------------------------------------------------
LEMMA EarlierIs ==
  ASSUME NEW m \in Int
  PROVE  Earlier(m) = IF m - 1 >= Never THEN m - 1 ELSE Never
<1>1. Never \in Int
  BY DaemonAssumption DEF Never
<1>2. \E x \in {m - 1, Never} : \A y \in {m - 1, Never} : x >= y
  BY <1>1
<1>3. /\ Earlier(m) \in {m - 1, Never}
      /\ Earlier(m) >= m - 1 /\ Earlier(m) >= Never
  BY <1>2 DEF Earlier, Max
<1>4. QED BY <1>1, <1>3

(* The numbers that the cooldown is made of.                               *)
LEMMA Numbers ==
  ASSUME DaemonInv, NEW d \in Daemons
  PROVE  /\ cooldown \in Int /\ pause \in Int
         /\ tick[d].cooldown \in Int /\ tick[d].due \in Int
         /\ tick[d].age \in 0..MaxAge /\ tick[d] \in TickType
BY MomentTypes DEF DaemonInv, TickInv, TickType

LEMMA CooldownInit == Init => CooldownInv
<1>1. SUFFICES ASSUME Init PROVE CooldownInv
  OBVIOUS
<1>2. Never \in Int
  BY MomentTypes
<1>3. \A d \in Daemons : ~Running(tick[d])
  BY <1>1 DEF Init, Off, Resting, Running
<1>4. QED BY <1>1, <1>2, <1>3 DEF Init, CooldownInv, CooldownKept

(* A step of the only daemon.                                              *)
LEMMA OnlyOne ==
  ASSUME OneDaemon, DaemonInv, NEW d \in Daemons, NEW u, NEW p \in Int,
         tick' = [tick EXCEPT ![d] = u], pause' = p, CooldownKept(u, p),
         cooldown' >= p
  PROVE  CooldownInv'
<1>1. \A e \in Daemons : tick'[e] = u
  BY DEF OneDaemon, DaemonInv
<1>2. QED BY <1>1 DEF CooldownInv

(* A step that leaves all of it alone, and does not pass the test.         *)
LEMMA SameCooldown ==
  ASSUME OneDaemon, DaemonInv, CooldownInv, NEW d \in Daemons, NEW u,
         tick' = [tick EXCEPT ![d] = u], pause' = pause,
         cooldown' \in {cooldown, tick[d].cooldown},
         Running(tick[d]), tick[d].pc # "asleep",
         u.cooldown = tick[d].cooldown, u.due = tick[d].due,
         u.age = tick[d].age, u.acted => tick[d].acted /\ u.pc = "ending",
         u.pc # "asleep", u.pc \in Working => tick[d].pc \in Working
  PROVE  CooldownInv'
<1>1. CooldownKept(tick[d], pause)
  BY DEF CooldownInv
<1>2. CooldownKept(u, pause)
  BY <1>1 DEF CooldownKept
<1>3. cooldown' >= pause
  BY <1>1 DEF CooldownKept, CooldownInv
<1>4. QED BY <1>2, <1>3, OnlyOne, Numbers

(* The answer is anything but "reset".                                     *)
RedeemsNothing(d) ==
    Redeem(d) /\ tick' = [tick EXCEPT ![d] = Picking(tick[d])]

LEMMA CooldownTicks ==
  ASSUME OneDaemon, DaemonInv, CooldownInv, NEW d \in Daemons,
         \/ ProbeFails(d) \/ ProbeActive(d) \/ Consider(d)
         \/ ConsiderFails(d) \/ Refuse(d) \/ Reserve(d) \/ NoTarget(d)
         \/ TickFails(d) \/ RedeemsNothing(d)
  PROVE  CooldownInv'
<1>1. /\ tick[d] \in TickType /\ Running(tick[d])
      /\ tick[d].pc \in Working \cup {"woken"}
  BY Numbers DEF ProbeFails, ProbeActive, Consider, ConsiderFails, Refuse,
                 Reserve, Redeem, RedeemsNothing,
                 NoTarget, TickFails, At, Running, Working, Deciding
<1>2. ~tick[d].acted
  BY <1>1 DEF CooldownInv, CooldownKept, Working, Deciding
<1> DEFINE Same(u) ==
      /\ u.cooldown = tick[d].cooldown /\ u.due = tick[d].due
      /\ u.age = tick[d].age /\ u.acted = tick[d].acted
<1>3. ASSUME NEW u, Same(u), tick' = [tick EXCEPT ![d] = u],
             UNCHANGED pause, cooldown' \in {cooldown, tick[d].cooldown},
             u.pc \in Working \cup {"ending"},
             u.pc \in Working => tick[d].pc \in Working
      PROVE  CooldownInv'
  <2>1. u.pc # "asleep" /\ tick[d].pc # "asleep"
    BY <1>1, <1>3 DEF Working, Deciding
  <2>2. QED BY <1>1, <1>2, <1>3, <2>1, SameCooldown
<1>4. CASE ProbeFails(d)
  <2> DEFINE s == tick[d].at
             count == OneMore(tick[d].unhealthy[s])
             pc == IF count < UnhealthyTicks THEN "ending" ELSE "considering"
             u == [tick[d] EXCEPT !.unhealthy[s] = count,
                     !.probe = "failed", !.pc = pc]
  <2>1. tick' = [tick EXCEPT ![d] = u]
    BY <1>4 DEF ProbeFails
  <2>2. pc \in {"ending", "considering"} /\ tick[d].pc = "probing"
    BY <1>4 DEF ProbeFails, At
  <2> HIDE DEF count, pc
  <2>3. Same(u) /\ u.pc = pc
    BY <1>1 DEF TickType
  <2> HIDE DEF u
  <2>4. QED BY <1>3, <1>4, <2>1, <2>2, <2>3
            DEF ProbeFails, Working, Deciding, ghosts, state
<1>5. CASE ProbeActive(d)
  <2> DEFINE
        Step(binding, percent, credits) ==
           LET idle == percent # Unknown /\ percent < Threshold
           IN  tick' = [tick EXCEPT
                 ![d].unhealthy[tick[d].at] = Healthy(@), ![d].probe = "ok",
                 ![d].reading =
                    IF idle THEN NoReading
                    ELSE [binding |-> binding, percent |-> percent,
                          credits |-> credits],
                 ![d].pc = IF idle THEN "ending" ELSE "considering"]
  <2>1. \E binding, model, credits :
           Step(binding, Worst({binding, model}), credits)
    BY <1>5 DEF ProbeActive
  <2> HIDE DEF Step
  <2>2. PICK binding, percent, credits : Step(binding, percent, credits)
    BY <2>1, Zenon
  <2> DEFINE idle == percent # Unknown /\ percent < Threshold
             reading == IF idle THEN NoReading
                        ELSE [binding |-> binding, percent |-> percent,
                              credits |-> credits]
             pc == IF idle THEN "ending" ELSE "considering"
             u == [tick[d] EXCEPT !.unhealthy[tick[d].at] = 0, !.probe = "ok",
                     !.reading = reading, !.pc = pc]
  <2>3. tick' = [tick EXCEPT ![d] = u]
    BY <2>2 DEF Healthy, Step
  <2>4. pc \in {"ending", "considering"} /\ tick[d].pc = "probing"
    BY <1>5 DEF ProbeActive, At
  <2> HIDE DEF reading, pc
  <2>5. Same(u) /\ u.pc = pc
    BY <1>1 DEF TickType
  <2> HIDE DEF u
  <2>6. QED BY <1>3, <1>5, <2>3, <2>4, <2>5
            DEF ProbeActive, Working, Deciding, ghosts, state
<1>6. CASE Consider(d)
  <2>1. \E enabled \in SUBSET (Slots \ {tick[d].at}) :
        \E r \in [Ordinary(d, enabled) -> Readings \cup {Failed}],
           strategy \in StrategyValues :
        \E probed \in SUBSET {s \in DOMAIN r : r[s] # Failed} :
        \E look \in Looks(d, Keys \cap enabled, r) :
           Considers(d, enabled, r, strategy, probed, look)
    BY <1>6, ConsiderIs, Zenon
  <2>2. PICK enabled, r, strategy, probed, look :
           Considers(d, enabled, r, strategy, probed, look)
    BY <2>1, Zenon
  <2> DEFINE base == Considered(tick[d], enabled, r, strategy, probed, look)
  <2>3. \/ tick' = [tick EXCEPT ![d] = Picking(base)]
        \/ \E policy \in PolicyValues :
              tick' = [tick EXCEPT ![d] =
                        [base EXCEPT !.pc = "reserving", !.policy = policy]]
    BY <2>2 DEF Considers
  <2>4. PICK policy : \/ tick' = [tick EXCEPT ![d] = Picking(base)]
                      \/ tick' = [tick EXCEPT ![d] =
                            [base EXCEPT !.pc = "reserving",
                                         !.policy = policy]]
    BY <2>3
  <2> DEFINE u == [base EXCEPT !.pc = "reserving", !.policy = policy]
  <2>5. Same(Picking(base)) /\ Picking(base).pc = "picking"
    BY <1>1 DEF TickType, Picking, Considered, Cleared
  <2>6. Same(u) /\ u.pc = "reserving"
    BY <1>1 DEF TickType, Considered, Cleared
  <2>7. tick[d].pc = "considering"
    BY <1>6 DEF Consider, At
  <2>8. \/ tick' = [tick EXCEPT ![d] = Picking(base)]
        \/ tick' = [tick EXCEPT ![d] = u]
    BY <2>4
  <2> HIDE DEF base, u
  <2>9. QED BY <1>3, <1>6, <2>5, <2>6, <2>7, <2>8
            DEF Consider, Working, Deciding, ghosts, state
<1>7. CASE Refuse(d) \/ Reserve(d) \/ RedeemsNothing(d)
  <2> DEFINE p == Picking(tick[d])
             u == [p EXCEPT !.pc = "redeeming"]
  <2>1. Same(p) /\ p.pc = "picking"
    BY <1>1 DEF TickType, Picking
  <2>2. Same(u) /\ u.pc = "redeeming"
    BY <1>1 DEF TickType, Picking
  <2>3. tick[d].pc \in {"reserving", "redeeming"}
    BY <1>7 DEF Refuse, Reserve, RedeemsNothing, Redeem, At
  <2>4. tick' = [tick EXCEPT ![d] = p] \/ tick' = [tick EXCEPT ![d] = u]
    BY <1>7 DEF Refuse, Reserve, RedeemsNothing
  <2>5. UNCHANGED pause /\ cooldown' \in {cooldown, tick[d].cooldown}
    BY <1>7 DEF Refuse, Reserve, RedeemsNothing, Redeem, Save, ghosts, state
  <2> HIDE DEF p, u
  <2>6. QED BY <1>3, <2>1, <2>2, <2>3, <2>4, <2>5 DEF Working, Deciding
<1>8. CASE NoTarget(d) \/ TickFails(d)
  <2>1. Same(Ending(tick[d])) /\ Ending(tick[d]).pc = "ending"
    BY <1>1 DEF TickType, Ending
  <2>2. tick' = [tick EXCEPT ![d] = Ending(tick[d])]
    BY <1>8 DEF NoTarget, TickFails, Ends
  <2>3. QED BY <1>3, <1>8, <2>1, <2>2
            DEF NoTarget, TickFails, Working, Deciding, ghosts, state
<1>9. CASE ConsiderFails(d)
  <2>1. PICK probed :
           tick' = [tick EXCEPT ![d] = Ending(Cleared(tick[d], probed))]
    BY <1>9 DEF ConsiderFails
  <2> DEFINE u == Ending(Cleared(tick[d], probed))
  <2>2. Same(u) /\ u.pc = "ending"
    BY <1>1 DEF TickType, Ending, Cleared
  <2>3. tick' = [tick EXCEPT ![d] = u]
    BY <2>1
  <2> HIDE DEF u
  <2>4. QED BY <1>3, <1>9, <2>2, <2>3
            DEF ConsiderFails, Working, Deciding, ghosts, state
<1>10. QED BY <1>4, <1>5, <1>6, <1>7, <1>8, <1>9

LEMMA CooldownStarts ==
  ASSUME OneDaemon, DaemonInv, CooldownInv, NEW d \in Daemons,
         Start(d) \/ Wake(d) \/ SaveBusy(d) \/ Crash(d)
  PROVE  CooldownInv'
<1>1. CooldownKept(tick[d], pause) /\ cooldown >= pause
  BY DEF CooldownInv
<1>2. UNCHANGED <<cooldown, pause>>
  BY DEF Start, Wake, SaveBusy, Crash, ghosts, state
<1>3. CASE Start(d)
  <2> DEFINE u == Resting("asleep", cooldown, unhealthy)
  <2>1. CooldownKept(u, pause)
    BY <1>1 DEF Resting, CooldownKept, Working, Deciding
  <2>2. QED BY <1>1, <1>2, <1>3, <2>1, OnlyOne, Numbers DEF Start
<1>4. CASE Wake(d)
  <2> DEFINE u == [tick[d] EXCEPT !.pc = "woken", !.due = pause]
  <2>1. /\ u.pc = "woken" /\ u.due = pause /\ u.acted = tick[d].acted
        /\ u.cooldown = tick[d].cooldown /\ tick[d].pc = "asleep"
    BY <1>4, Numbers DEF TickType, Wake, At
  <2>2. tick' = [tick EXCEPT ![d] = u]
    BY <1>4 DEF Wake
  <2> HIDE DEF u
  <2>3. CooldownKept(u, pause)
    BY <1>1, <2>1 DEF CooldownKept, Running, Working, Deciding
  <2>4. QED BY <1>1, <1>2, <2>2, <2>3, OnlyOne, Numbers
<1>5. CASE SaveBusy(d) \/ Crash(d)
  <2>1. PICK pc \in {"down", "broken"} : tick' = [tick EXCEPT ![d] = Off(pc)]
    BY <1>5 DEF SaveBusy, Crash
  <2>2. CooldownKept(Off(pc), pause)
    BY DEF CooldownKept, Running, Off, Resting
  <2>3. QED BY <1>1, <1>2, <2>1, <2>2, OnlyOne, Numbers
<1>6. QED BY <1>3, <1>4, <1>5

(* Step 3 of a tick: it goes on only after the cooldown.                   *)
LEMMA CooldownLoad ==
  ASSUME OneDaemon, DaemonInv, CooldownInv, NEW d \in Daemons, Load(d)
  PROVE  CooldownInv'
<1>1. PICK enabled \in BOOLEAN :
         tick' = [tick EXCEPT
             ![d].cooldown = cooldown, ![d].unhealthy = unhealthy,
             ![d].at = active,
             ![d].pc = IF ~enabled \/ -tick[d].age < cooldown THEN "ending"
                       ELSE IF active = NoSlot THEN "considering"
                       ELSE "probing"]
  BY Zenon DEF Load
<1> DEFINE pc == IF ~enabled \/ -tick[d].age < cooldown THEN "ending"
                 ELSE IF active = NoSlot THEN "considering"
                 ELSE "probing"
           u == [tick[d] EXCEPT !.cooldown = cooldown,
                   !.unhealthy = unhealthy, !.at = active, !.pc = pc]
<1>2. /\ pc \in {"ending", "considering", "probing"}
      /\ pc # "ending" => ~(-tick[d].age < cooldown)
  OBVIOUS
<1>3. tick' = [tick EXCEPT ![d] = u]
  BY <1>1
<1> HIDE DEF pc
<1>4. CooldownKept(tick[d], pause) /\ cooldown >= pause /\ tick[d].pc = "woken"
  BY DEF CooldownInv, Load, At
<1>5. /\ u.pc = pc /\ u.due = tick[d].due /\ u.cooldown = cooldown
      /\ u.age = tick[d].age /\ u.acted = tick[d].acted
  BY Numbers DEF TickType
<1> HIDE DEF u
<1>6. ~u.acted /\ u.due = pause
  BY <1>4, <1>5 DEF CooldownKept, Running
<1>7. u.pc \in Working => u.due <= -u.age
  <2>1. SUFFICES ASSUME u.pc \in Working PROVE u.due <= -u.age
    OBVIOUS
  <2>2. cooldown <= -u.age
    BY <1>2, <1>5, <2>1, Numbers DEF Working, Deciding
  <2>3. QED BY <1>4, <1>5, <1>6, <2>2, Numbers
<1>8. CooldownKept(u, pause)
  BY <1>2, <1>4, <1>5, <1>6, <1>7 DEF CooldownKept
<1>9. UNCHANGED <<cooldown, pause>>
  BY DEF Load, ghosts, state
<1>10. QED BY <1>3, <1>4, <1>8, <1>9, OnlyOne, Numbers

(* An action starts a cooldown that ends no earlier than the last one.     *)
LEMMA CooldownActs ==
  ASSUME OneDaemon, DaemonInv, CooldownInv, NEW d \in Daemons, Acted(d),
         tick[d].pc \in Working, pause' = pause,
         cooldown' \in {cooldown, tick[d].cooldown}
  PROVE  CooldownInv'
<1> DEFINE u == [Ending(tick[d]) EXCEPT
                    !.acted = TRUE, !.cooldown = CooldownUntil(d)]
<1>1. CooldownKept(tick[d], pause) /\ cooldown >= pause
  BY DEF CooldownInv
<1>2. /\ u.pc = "ending" /\ u.due = tick[d].due /\ u.age = tick[d].age
      /\ u.cooldown = CooldownTime - tick[d].age
  BY Numbers DEF TickType, Ending, CooldownUntil
<1>3. tick' = [tick EXCEPT ![d] = u]
  BY DEF Acted
<1> HIDE DEF u
<1>4. /\ tick[d].due = pause /\ tick[d].due <= -tick[d].age
      /\ tick[d].cooldown >= pause
  BY <1>1 DEF CooldownKept, Running, Working, Deciding
<1>5. CooldownTime \in Nat
  BY DaemonAssumption
<1>6. u.cooldown >= pause /\ u.cooldown >= CooldownTime - u.age
  BY <1>2, <1>4, <1>5, Numbers
<1>7. CooldownKept(u, pause)
  BY <1>2, <1>4, <1>6 DEF CooldownKept, Working, Deciding
<1>8. cooldown' >= pause
  BY <1>1, <1>4
<1>9. QED BY <1>3, <1>7, <1>8, OnlyOne, Numbers

LEMMA CooldownEnds ==
  ASSUME OneDaemon, DaemonInv, CooldownInv, NEW d \in Daemons, EndTick(d)
  PROVE  CooldownInv'
<1> DEFINE u == Resting("asleep", tick[d].cooldown, tick[d].unhealthy)
           p == IF tick[d].acted THEN CooldownTime - tick[d].age ELSE pause
<1>1. CooldownKept(tick[d], pause) /\ tick[d].pc = "ending"
  BY DEF CooldownInv, EndTick, At
<1>2. p \in Int /\ tick[d].cooldown >= p
  <2>1. CooldownTime \in Nat
    BY DaemonAssumption
  <2>2. QED BY <1>1, <2>1, Numbers DEF CooldownKept, Running
<1>3. tick' = [tick EXCEPT ![d] = u] /\ pause' = p
      /\ cooldown' = tick[d].cooldown
  BY DEF EndTick, Save
<1> HIDE DEF p
<1>4. CooldownKept(u, p)
  BY <1>2 DEF Resting, CooldownKept, Working, Deciding
<1>5. QED BY <1>2, <1>3, <1>4, OnlyOne

LEMMA CooldownAdvances ==
  ASSUME DaemonInv, CooldownInv, Advance
  PROVE  CooldownInv'
<1>1. /\ cooldown' = Earlier(cooldown) /\ pause' = Earlier(pause)
      /\ \A d \in Daemons : Ticking(d) => tick[d].age < MaxAge
      /\ tick' = [d \in Daemons |->
                    [tick[d] EXCEPT
                        !.cooldown = Earlier(@), !.due = Earlier(@),
                        !.age = IF Ticking(d) THEN @ + 1 ELSE @]]
  BY DEF Advance
<1>2. MaxAge \in Nat /\ CooldownTime \in Nat /\ Never = -MaxAge
  BY DaemonAssumption DEF Never
<1>3. ASSUME NEW m \in Int, NEW n \in Int, m >= n
      PROVE  Earlier(m) >= Earlier(n)
  BY <1>2, <1>3, EarlierIs
<1>4. cooldown' >= pause'
  <2>1. cooldown \in Int /\ pause \in Int
    BY MomentTypes DEF DaemonInv
  <2>2. QED BY <1>1, <1>3, <2>1 DEF CooldownInv
<1>5. ASSUME NEW d \in Daemons
      PROVE  CooldownKept(tick'[d], pause')
  <2> DEFINE t == tick[d]
             age == IF Ticking(d) THEN t.age + 1 ELSE t.age
             u == [t EXCEPT !.cooldown = Earlier(t.cooldown),
                            !.due = Earlier(t.due), !.age = age]
  <2>1. /\ t.cooldown \in Int /\ t.due \in Int /\ t.age \in 0..MaxAge
        /\ t \in TickType /\ pause \in Int /\ CooldownKept(t, pause)
    BY Numbers DEF CooldownInv
  <2>2. tick'[d] = u
    BY <1>1
  <2>3. /\ age \in 0..MaxAge /\ age <= t.age + 1
        /\ t.pc \notin {"down", "broken", "asleep"} => age = t.age + 1
    <3>1. CASE Ticking(d)
      <4>1. t.age < MaxAge /\ age = t.age + 1
        BY <1>1, <3>1
      <4>2. QED BY <1>2, <2>1, <4>1
    <3>2. CASE ~Ticking(d)
      BY <2>1, <3>2 DEF Ticking
    <3>3. QED BY <3>1, <3>2
  <2> HIDE DEF age
  <2>4. /\ u.pc = t.pc /\ u.acted = t.acted /\ u.age = age
        /\ u.cooldown = Earlier(t.cooldown) /\ u.due = Earlier(t.due)
    BY <2>1 DEF TickType
  <2> HIDE DEF u
  <2>5. SUFFICES ASSUME Running(t) PROVE CooldownKept(u, pause')
    BY <2>2, <2>4 DEF CooldownKept, Running
  <2>6. u.cooldown >= pause'
    BY <1>1, <1>3, <2>1, <2>4, <2>5 DEF CooldownKept
  <2>7. u.pc # "asleep" => u.due = pause'
    BY <1>1, <2>1, <2>4, <2>5 DEF CooldownKept
  <2>8. ASSUME u.pc \in Working
        PROVE  u.due <= -u.age
    <3>1. t.due <= -t.age /\ age = t.age + 1
      BY <2>1, <2>3, <2>4, <2>5, <2>8 DEF CooldownKept, Working, Deciding
    <3>2. Earlier(t.due) = IF t.due - 1 >= Never THEN t.due - 1 ELSE Never
      BY <2>1, EarlierIs
    <3>3. QED BY <1>2, <2>1, <2>3, <2>4, <3>1, <3>2
  <2>9. ASSUME u.acted
        PROVE  u.pc = "ending" /\ u.cooldown >= CooldownTime - u.age
    <3>1. t.pc = "ending" /\ t.cooldown >= CooldownTime - t.age
      BY <2>1, <2>4, <2>5, <2>9 DEF CooldownKept
    <3>2. age = t.age + 1
      BY <2>3, <3>1
    <3>3. Earlier(t.cooldown) >= t.cooldown - 1
      BY <1>2, <2>1, EarlierIs
    <3>4. Earlier(t.cooldown) \in Int
      BY <1>2, <2>1, EarlierIs
    <3>5. QED BY <1>2, <2>1, <2>4, <3>1, <3>2, <3>3, <3>4
  <2>10. QED BY <2>6, <2>7, <2>8, <2>9 DEF CooldownKept
<1>6. QED BY <1>4, <1>5 DEF CooldownInv

LEMMA CooldownStep ==
  ASSUME OneDaemon, DaemonInv, CooldownInv, [Next]_vars
  PROVE  CooldownInv'
<1>1. ASSUME NEW d \in Daemons, Tick(d) PROVE CooldownInv'
  <2>1. CASE Redeem(d)
    <3>1. CASE Acted(d)
      <4>1. tick[d].pc \in Working /\ pause' = pause
            /\ cooldown' \in {cooldown, tick[d].cooldown}
        BY <2>1 DEF Redeem, At, Working, Deciding, Save, ghosts
      <4>2. QED BY <3>1, <4>1, CooldownActs
    <3>2. CASE RedeemsNothing(d)
      BY <3>2, CooldownTicks
    <3>3. QED BY <2>1, <3>1, <3>2 DEF Redeem, RedeemsNothing
  <2>2. CASE Switch(d)
    <3>1. /\ tick[d].pc \in Working /\ pause' = pause /\ Acted(d)
          /\ cooldown' = cooldown
      BY <2>2 DEF Switch, At, Working, Deciding, state
    <3>2. QED BY <3>1, CooldownActs
  <2>3. QED BY <1>1, <2>1, <2>2, CooldownTicks, CooldownStarts, CooldownLoad,
               CooldownEnds DEF Tick
<1>2. ASSUME UNCHANGED <<cooldown, pause, tick>> PROVE CooldownInv'
  BY <1>2 DEF CooldownInv
<1>3. ASSUME NEW s \in Slots, UserSwitch(s) PROVE CooldownInv'
  BY <1>2, <1>3 DEF UserSwitch, state
<1>4. ASSUME NEW a \in Slots, NEW b \in Slots, SwapSlots(a, b)
      PROVE  CooldownInv'
  BY <1>2, <1>4, Zenon DEF SwapSlots, state
<1>5. CASE UNCHANGED vars
  BY <1>2, <1>5 DEF vars, ghosts, state
<1>6. QED BY <1>1, <1>3, <1>4, <1>5, CooldownAdvances DEF Next

-----------------------------------------------------------------------------
(* After an action that was saved no tick decides before its cooldown is   *)
(* over, whatever crashes and fails to be saved, if one daemon runs.       *)
THEOREM CooldownAlways == OneDaemon => (Spec => []CooldownPauses)
<1>1. DaemonInv /\ CooldownInv => CooldownPauses
  BY DEF CooldownInv, CooldownKept, CooldownPauses, Running, Working, Deciding
<1>2. SUFFICES ASSUME OneDaemon PROVE Spec => []CooldownPauses
  OBVIOUS
<1>3. DaemonInv /\ CooldownInv /\ [Next]_vars => CooldownInv'
  BY <1>2, CooldownStep
<1>4. QED BY <1>1, <1>3, CooldownInit, DaemonInductive, PTL DEF Spec

-----------------------------------------------------------------------------
(* What a slot's count of failures may be once the tick is saved, if `f'   *)
(* tells how many ticks in a row have really failed.                       *)
CountAfter(t, f, s) ==
    IF s = t.at /\ t.probe = "failed" THEN OneMore(f[s])
    ELSE IF (s = t.at /\ t.probe = "ok") \/ s \in t.cleared THEN 0
    ELSE f[s]

(* The counters of a running tick.                                         *)
CountKept(t, f) ==
    Running(t) =>
        /\ \A s \in Slots : t.unhealthy[s] <= CountAfter(t, f, s)
        /\ t.at \notin t.cleared
        /\ t.pc \in {"asleep", "woken", "probing", "considering"} =>
              t.cleared = {}
        /\ t.pc \in {"reserving", "redeeming"} => t.probe = "ok"
        /\ t.pc = "probing" => t.at \in Slots
        /\ t.probe = "failed" /\ t.pc \in {"considering", "picking"} =>
              t.at \in Slots /\ t.unhealthy[t.at] >= UnhealthyTicks

(* As long as the slots keep their accounts, no counter exceeds the ticks  *)
(* in a row that failed, neither in the file nor in a tick's own copy.     *)
FailInv ==
    swaps = 0 =>
        /\ \A s \in Slots : unhealthy[s] <= failed[s]
        /\ \A d \in Daemons : CountKept(tick[d], failed)

LEMMA OneMoreGrows ==
  ASSUME NEW m \in 0..UnhealthyTicks, NEW n \in 0..UnhealthyTicks, m <= n
  PROVE  OneMore(m) <= OneMore(n) /\ OneMore(n) <= n + 1
<1>1. UnhealthyTicks \in 1..20
  BY DaemonAssumption
<1>2. ASSUME NEW k \in 0..UnhealthyTicks
      PROVE  /\ OneMore(k) \in {k + 1, UnhealthyTicks}
             /\ OneMore(k) <= k + 1 /\ OneMore(k) <= UnhealthyTicks
  <2>1. \E x \in {k + 1, UnhealthyTicks} :
           \A y \in {k + 1, UnhealthyTicks} : x <= y
    BY <1>1
  <2>2. QED BY <2>1 DEF OneMore, Min
<1>3. /\ OneMore(m) <= m + 1 /\ OneMore(m) <= UnhealthyTicks
      /\ OneMore(m) \in {m + 1, UnhealthyTicks}
      /\ OneMore(n) \in {n + 1, UnhealthyTicks} /\ OneMore(n) <= n + 1
  BY <1>2
<1>4. QED BY <1>1, <1>3

(* The counters are numbers.                                               *)
LEMMA CountTypes ==
  ASSUME DaemonInv, NEW d \in Daemons
  PROVE  /\ tick[d] \in TickType
         /\ \A s \in Slots :
               /\ failed[s] \in 0..UnhealthyTicks
               /\ unhealthy[s] \in 0..UnhealthyTicks
               /\ tick[d].unhealthy[s] \in 0..UnhealthyTicks
BY Numbers DEF DaemonInv, TickType, Counts

LEMMA FailInit == Init => FailInv
<1>1. SUFFICES ASSUME Init PROVE FailInv
  OBVIOUS
<1>2. \A d \in Daemons : ~Running(tick[d])
  BY <1>1 DEF Init, Off, Resting, Running
<1>3. QED BY <1>1, <1>2 DEF Init, FailInv, CountKept

(* A step of the only daemon.                                              *)
LEMMA OnlyCounter ==
  ASSUME OneDaemon, DaemonInv, NEW d \in Daemons, NEW u, NEW f,
         tick' = [tick EXCEPT ![d] = u], failed' = f, swaps' = swaps,
         swaps = 0 => CountKept(u, f) /\ \A s \in Slots : unhealthy'[s] <= f[s]
  PROVE  FailInv'
<1>1. \A e \in Daemons : tick'[e] = u
  BY DEF OneDaemon, DaemonInv
<1>2. QED BY <1>1 DEF FailInv

(* A step that leaves the counters alone, and decides no further than it   *)
(* may.                                                                    *)
LEMMA SameCounter ==
  ASSUME OneDaemon, DaemonInv, FailInv, NEW d \in Daemons, NEW u,
         tick' = [tick EXCEPT ![d] = u], failed' = failed, swaps' = swaps,
         \/ unhealthy' = unhealthy
         \/ /\ unhealthy' = tick[d].unhealthy
            /\ tick[d].pc \in {"reserving", "redeeming"},
         Running(tick[d]), u.at = tick[d].at, u.probe = tick[d].probe,
         u.unhealthy = tick[d].unhealthy, u.cleared = tick[d].cleared,
         \/ u.pc = "ending"
         \/ /\ u.pc \in {"picking", "redeeming"}
            /\ tick[d].pc \in {"reserving", "redeeming"}
         \/ u.pc = "woken" /\ tick[d].pc = "asleep"
  PROVE  FailInv'
<1>1. SUFFICES ASSUME swaps = 0
               PROVE  /\ CountKept(u, failed)
                      /\ \A s \in Slots : unhealthy'[s] <= failed[s]
  BY OnlyCounter
<1>2. CountKept(tick[d], failed) /\ \A s \in Slots : unhealthy[s] <= failed[s]
  BY <1>1 DEF FailInv
<1>3. \A s \in Slots : CountAfter(u, failed, s) = CountAfter(tick[d], failed, s)
  BY DEF CountAfter
<1>4. CountKept(u, failed)
  BY <1>2, <1>3 DEF CountKept
<1>5. ASSUME tick[d].pc \in {"reserving", "redeeming"}, NEW s \in Slots
      PROVE  tick[d].unhealthy[s] <= failed[s]
  <2>1. /\ tick[d].probe = "ok"
        /\ tick[d].unhealthy[s] <= CountAfter(tick[d], failed, s)
    BY <1>2, <1>5 DEF CountKept
  <2>2. CountAfter(tick[d], failed, s) \in {0, failed[s]}
    BY <2>1 DEF CountAfter
  <2>3. QED BY <2>1, <2>2, CountTypes
<1>6. QED BY <1>2, <1>4, <1>5

LEMMA FailSame ==
  ASSUME OneDaemon, DaemonInv, FailInv, NEW d \in Daemons,
         \/ Wake(d) \/ Refuse(d) \/ Reserve(d) \/ Redeem(d)
         \/ NoTarget(d) \/ Switch(d) \/ TickFails(d)
  PROVE  FailInv'
<1> DEFINE Same(u) ==
      /\ u.at = tick[d].at /\ u.probe = tick[d].probe
      /\ u.unhealthy = tick[d].unhealthy /\ u.cleared = tick[d].cleared
<1>1. tick[d] \in TickType
  BY CountTypes
<1>2. UNCHANGED <<failed, swaps>>
  BY DEF Wake, Refuse, Reserve, Redeem, NoTarget, Switch, TickFails, ghosts
<1>3. CASE Wake(d)
  <2> DEFINE u == [tick[d] EXCEPT !.pc = "woken", !.due = pause]
  <2>1. Same(u) /\ u.pc = "woken"
    BY <1>1 DEF TickType
  <2>2. /\ tick' = [tick EXCEPT ![d] = u] /\ unhealthy' = unhealthy
        /\ tick[d].pc = "asleep"
    BY <1>3 DEF Wake, At, state
  <2> HIDE DEF u
  <2>3. QED BY <1>2, <2>1, <2>2, SameCounter DEF Running
<1>4. CASE Refuse(d) \/ Reserve(d) \/ RedeemsNothing(d)
  <2> DEFINE p == Picking(tick[d])
             u == [p EXCEPT !.pc = "redeeming"]
  <2>1. Same(p) /\ p.pc = "picking"
    BY <1>1 DEF TickType, Picking
  <2>2. Same(u) /\ u.pc = "redeeming"
    BY <1>1 DEF TickType, Picking
  <2>3. tick[d].pc \in {"reserving", "redeeming"}
    BY <1>4 DEF Refuse, Reserve, RedeemsNothing, Redeem, At
  <2>4. tick' = [tick EXCEPT ![d] = p] \/ tick' = [tick EXCEPT ![d] = u]
    BY <1>4 DEF Refuse, Reserve, RedeemsNothing
  <2>5. unhealthy' = unhealthy \/ unhealthy' = tick[d].unhealthy
    BY <1>4 DEF Refuse, Reserve, RedeemsNothing, Redeem, Save, state
  <2> HIDE DEF p, u
  <2>6. QED BY <1>2, <2>1, <2>2, <2>3, <2>4, <2>5, SameCounter DEF Running
<1>5. CASE Switch(d) \/ (Redeem(d) /\ Acted(d))
  <2> DEFINE u == [Ending(tick[d]) EXCEPT
                      !.acted = TRUE, !.cooldown = CooldownUntil(d)]
  <2>1. Same(u) /\ u.pc = "ending"
    BY <1>1 DEF TickType, Ending
  <2>2. tick' = [tick EXCEPT ![d] = u]
    BY <1>5 DEF Switch, Acted
  <2>3. /\ tick[d].pc \in {"picking", "redeeming"}
        /\ \/ unhealthy' = unhealthy
           \/ unhealthy' = tick[d].unhealthy /\ tick[d].pc = "redeeming"
    BY <1>5 DEF Switch, Redeem, At, Save, state
  <2> HIDE DEF u
  <2>4. QED BY <1>2, <2>1, <2>2, <2>3, SameCounter DEF Running
<1>6. CASE NoTarget(d) \/ TickFails(d)
  <2>1. Same(Ending(tick[d])) /\ Ending(tick[d]).pc = "ending"
    BY <1>1 DEF TickType, Ending
  <2>2. /\ tick' = [tick EXCEPT ![d] = Ending(tick[d])]
        /\ unhealthy' = unhealthy /\ Running(tick[d])
    BY <1>6 DEF NoTarget, TickFails, Ends, At, Running, state
  <2>3. QED BY <1>2, <2>1, <2>2, SameCounter
<1>7. QED BY <1>3, <1>4, <1>5, <1>6 DEF Redeem, RedeemsNothing

(* The steps at either end of a tick.                                      *)
LEMMA FailStarts ==
  ASSUME OneDaemon, DaemonInv, FailInv, NEW d \in Daemons,
         Start(d) \/ Load(d) \/ SaveBusy(d) \/ Crash(d)
  PROVE  FailInv'
<1>1. UNCHANGED <<failed, swaps, unhealthy>>
  BY DEF Start, Load, SaveBusy, Crash, ghosts, state
<1>2. CASE Start(d)
  <2> DEFINE u == Resting("asleep", cooldown, unhealthy)
  <2>1. ASSUME swaps = 0
        PROVE  CountKept(u, failed)
    BY <2>1
       DEF FailInv, CountKept, CountAfter, Resting
  <2>2. QED BY <1>1, <1>2, <2>1, OnlyCounter DEF FailInv, Start
<1>3. CASE SaveBusy(d) \/ Crash(d)
  <2>1. PICK pc \in {"down", "broken"} : tick' = [tick EXCEPT ![d] = Off(pc)]
    BY <1>3 DEF SaveBusy, Crash
  <2>2. CountKept(Off(pc), failed)
    BY DEF CountKept, Running, Off, Resting
  <2>3. QED BY <1>1, <2>1, <2>2, OnlyCounter DEF FailInv
<1>4. CASE Load(d)
  <2>1. PICK enabled \in BOOLEAN :
           tick' = [tick EXCEPT
               ![d].cooldown = cooldown, ![d].unhealthy = unhealthy,
               ![d].at = active,
               ![d].pc = IF ~enabled \/ -tick[d].age < cooldown THEN "ending"
                         ELSE IF active = NoSlot THEN "considering"
                         ELSE "probing"]
    BY <1>4, Zenon DEF Load
  <2> DEFINE pc == IF ~enabled \/ -tick[d].age < cooldown THEN "ending"
                   ELSE IF active = NoSlot THEN "considering"
                   ELSE "probing"
             u == [tick[d] EXCEPT !.cooldown = cooldown,
                     !.unhealthy = unhealthy, !.at = active, !.pc = pc]
  <2>2. /\ pc \in {"ending", "considering", "probing"}
        /\ pc = "probing" => active # NoSlot
    OBVIOUS
  <2>3. tick' = [tick EXCEPT ![d] = u]
    BY <2>1
  <2> HIDE DEF pc
  <2>4. /\ u.pc = pc /\ u.at = active /\ u.unhealthy = unhealthy
        /\ u.probe = tick[d].probe /\ u.cleared = tick[d].cleared
    BY CountTypes DEF TickType
  <2> HIDE DEF u
  <2>5. tick[d].pc = "woken" /\ tick[d].probe = "none"
    BY <1>4 DEF Load, At, DaemonInv, TickInv
  <2>6. active \in Slots \cup {NoSlot}
    BY DEF DaemonInv
  <2>7. ASSUME swaps = 0
        PROVE  CountKept(u, failed)
    <3>1. tick[d].cleared = {} /\ \A s \in Slots : unhealthy[s] <= failed[s]
      BY <2>5, <2>7 DEF FailInv, CountKept, Running
    <3>2. \A s \in Slots : CountAfter(u, failed, s) = failed[s]
      BY <2>4, <2>5, <3>1 DEF CountAfter
    <3>3. QED BY <2>2, <2>4, <2>5, <2>6, <3>1, <3>2 DEF CountKept
  <2>8. QED BY <1>1, <2>3, <2>7, OnlyCounter DEF FailInv
<1>5. QED BY <1>2, <1>3, <1>4

LEMMA FailEnds ==
  ASSUME OneDaemon, DaemonInv, FailInv, NEW d \in Daemons, EndTick(d)
  PROVE  FailInv'
<1> DEFINE u == Resting("asleep", tick[d].cooldown, tick[d].unhealthy)
<1>1. /\ tick' = [tick EXCEPT ![d] = u] /\ swaps' = swaps
      /\ unhealthy' = tick[d].unhealthy /\ failed' = FailedAfter(d)
      /\ tick[d].pc = "ending"
  BY DEF EndTick, Save, At
<1>2. \A s \in Slots : FailedAfter(d)[s] = CountAfter(tick[d], failed, s)
  BY DEF FailedAfter, CountAfter
<1>3. /\ u.unhealthy = tick[d].unhealthy /\ u.probe = "none"
      /\ u.cleared = {} /\ u.pc = "asleep"
  BY DEF Resting
<1> HIDE DEF u
<1>4. ASSUME swaps = 0
      PROVE  /\ CountKept(u, FailedAfter(d))
             /\ \A s \in Slots : tick[d].unhealthy[s] <= FailedAfter(d)[s]
  <2>1. \A s \in Slots : tick[d].unhealthy[s] <= FailedAfter(d)[s]
    BY <1>1, <1>2, <1>4 DEF FailInv, CountKept, Running
  <2>2. \A s \in Slots :
           CountAfter(u, FailedAfter(d), s) = FailedAfter(d)[s]
    BY <1>3 DEF CountAfter
  <2>3. QED BY <1>3, <2>1, <2>2 DEF CountKept
<1>5. QED BY <1>1, <1>4, OnlyCounter

(* Step 4: the failure counts before it is saved.                          *)
LEMMA FailProbes ==
  ASSUME OneDaemon, DaemonInv, FailInv, NEW d \in Daemons, ProbeFails(d)
  PROVE  FailInv'
<1> DEFINE s == tick[d].at
           count == OneMore(tick[d].unhealthy[s])
           pc == IF count < UnhealthyTicks THEN "ending" ELSE "considering"
           u == [tick[d] EXCEPT !.unhealthy[s] = count,
                   !.probe = "failed", !.pc = pc]
<1>1. /\ tick' = [tick EXCEPT ![d] = u] /\ tick[d].pc = "probing"
      /\ UNCHANGED <<failed, swaps, unhealthy>>
  BY DEF ProbeFails, At, state, ghosts
<1>2. tick[d] \in TickType
  BY CountTypes
<1>3. SUFFICES ASSUME swaps = 0
               PROVE  CountKept(u, failed)
  BY <1>1, OnlyCounter DEF FailInv
<1>4. /\ tick[d].cleared = {} /\ tick[d].probe = "none" /\ s \in Slots
      /\ \A x \in Slots : tick[d].unhealthy[x] <= failed[x]
  <2>1. CountKept(tick[d], failed) /\ tick[d].probe = "none"
    BY <1>1, <1>3 DEF FailInv, DaemonInv, TickInv
  <2>2. QED BY <1>1, <2>1 DEF CountKept, CountAfter, Running
<1>5. count <= OneMore(failed[s]) /\ count \in 0..UnhealthyTicks
  BY <1>4, OneMoreGrows, OneMoreType, CountTypes
<1>6. /\ pc \in {"ending", "considering"}
      /\ pc = "considering" => count >= UnhealthyTicks
  <2>1. UnhealthyTicks \in Int
    BY DaemonAssumption
  <2>2. QED BY <1>5, <2>1
<1> HIDE DEF count, pc
<1>7. /\ u.pc = pc /\ u.at = s /\ u.probe = "failed" /\ u.cleared = {}
      /\ u.unhealthy = [tick[d].unhealthy EXCEPT ![s] = count]
  BY <1>2, <1>4 DEF TickType
<1>8. /\ u.unhealthy[s] = count
      /\ \A x \in Slots \ {s} : u.unhealthy[x] = tick[d].unhealthy[x]
  BY <1>2, <1>4, <1>7 DEF TickType, Counts
<1> HIDE DEF u
<1>9. \A x \in Slots : u.unhealthy[x] <= CountAfter(u, failed, x)
  BY <1>4, <1>5, <1>7, <1>8 DEF CountAfter
<1>10. QED BY <1>4, <1>6, <1>7, <1>8, <1>9 DEF CountKept

(* Steps 4 and 5: a success starts the count again.                        *)
LEMMA FailProbeActive ==
  ASSUME OneDaemon, DaemonInv, FailInv, NEW d \in Daemons, ProbeActive(d)
  PROVE  FailInv'
<1> DEFINE
      s == tick[d].at
      Step(binding, percent, credits) ==
         LET idle == percent # Unknown /\ percent < Threshold
         IN  tick' = [tick EXCEPT
               ![d].unhealthy[tick[d].at] = Healthy(@), ![d].probe = "ok",
               ![d].reading =
                  IF idle THEN NoReading
                  ELSE [binding |-> binding, percent |-> percent,
                        credits |-> credits],
               ![d].pc = IF idle THEN "ending" ELSE "considering"]
<1>1. \E binding, model, credits :
         Step(binding, Worst({binding, model}), credits)
  BY DEF ProbeActive
<1> HIDE DEF Step
<1>2. PICK binding, percent, credits : Step(binding, percent, credits)
  BY <1>1, Zenon
<1> DEFINE idle == percent # Unknown /\ percent < Threshold
           reading == IF idle THEN NoReading
                      ELSE [binding |-> binding, percent |-> percent,
                            credits |-> credits]
           pc == IF idle THEN "ending" ELSE "considering"
           u == [tick[d] EXCEPT !.unhealthy[tick[d].at] = 0, !.probe = "ok",
                   !.reading = reading, !.pc = pc]
<1>3. tick' = [tick EXCEPT ![d] = u]
  BY <1>2 DEF Healthy, Step
<1>4. /\ tick[d].pc = "probing" /\ pc \in {"ending", "considering"}
      /\ UNCHANGED <<failed, swaps, unhealthy>>
  BY DEF ProbeActive, At, state, ghosts
<1>5. tick[d] \in TickType
  BY CountTypes
<1> HIDE DEF reading, pc
<1>6. /\ u.pc = pc /\ u.at = s /\ u.probe = "ok"
      /\ u.cleared = tick[d].cleared
      /\ u.unhealthy = [tick[d].unhealthy EXCEPT ![s] = 0]
  BY <1>5 DEF TickType
<1> HIDE DEF u
<1>7. SUFFICES ASSUME swaps = 0
               PROVE  CountKept(u, failed)
  BY <1>3, <1>4, OnlyCounter DEF FailInv
<1>8. /\ tick[d].cleared = {} /\ tick[d].probe = "none" /\ s \in Slots
      /\ \A x \in Slots : tick[d].unhealthy[x] <= failed[x]
  <2>1. CountKept(tick[d], failed) /\ tick[d].probe = "none"
    BY <1>4, <1>7 DEF FailInv, DaemonInv, TickInv
  <2>2. QED BY <1>4, <2>1 DEF CountKept, CountAfter, Running
<1>9. /\ u.unhealthy[s] = 0
      /\ \A x \in Slots \ {s} : u.unhealthy[x] = tick[d].unhealthy[x]
  BY <1>5, <1>6, <1>8 DEF TickType, Counts
<1>10. \A x \in Slots : u.unhealthy[x] <= CountAfter(u, failed, x)
  BY <1>6, <1>8, <1>9 DEF CountAfter
<1>11. QED BY <1>4, <1>6, <1>8, <1>10 DEF CountKept

(* Step 6: every other account that answers starts its count again.        *)
LEMMA FailCleared ==
  ASSUME OneDaemon, DaemonInv, FailInv, NEW d \in Daemons, NEW u, NEW probed,
         tick[d].pc = "considering", tick[d].at \notin probed,
         tick' = [tick EXCEPT ![d] = u],
         UNCHANGED <<failed, swaps, unhealthy>>,
         u.unhealthy = Clear(tick[d].unhealthy, probed), u.cleared = probed,
         u.at = tick[d].at, u.probe = tick[d].probe,
         \/ u.pc \in {"picking", "ending"}
         \/ u.pc = "reserving" /\ u.probe = "ok"
  PROVE  FailInv'
<1>1. SUFFICES ASSUME swaps = 0
               PROVE  CountKept(u, failed)
  BY OnlyCounter DEF FailInv
<1>2. CountKept(tick[d], failed) /\ Running(tick[d])
  BY <1>1 DEF FailInv, Running
<1>3. ASSUME NEW s \in Slots
      PROVE  u.unhealthy[s] <= CountAfter(u, failed, s)
  <2>1. /\ tick[d].unhealthy[s] <= CountAfter(tick[d], failed, s)
        /\ tick[d].cleared = {}
    BY <1>2 DEF CountKept
  <2>2. u.unhealthy[s] = IF s \in probed THEN 0 ELSE tick[d].unhealthy[s]
    BY DEF Clear
  <2>3. CASE s \in probed
    BY <2>2, <2>3 DEF CountAfter
  <2>4. CASE s \notin probed
    <3>1. CountAfter(u, failed, s) = CountAfter(tick[d], failed, s)
      BY <2>1, <2>4 DEF CountAfter
    <3>2. QED BY <2>1, <2>2, <2>4, <3>1
  <2>5. QED BY <2>3, <2>4
<1>4. ASSUME u.probe = "failed", u.pc = "picking"
      PROVE  u.at \in Slots /\ u.unhealthy[u.at] >= UnhealthyTicks
  <2>1. /\ tick[d].at \in Slots
        /\ tick[d].unhealthy[tick[d].at] >= UnhealthyTicks
    BY <1>2, <1>4 DEF CountKept
  <2>2. QED BY <2>1 DEF Clear
<1>5. QED BY <1>3, <1>4 DEF CountKept

LEMMA FailConsiders ==
  ASSUME OneDaemon, DaemonInv, FailInv, NEW d \in Daemons,
         Consider(d) \/ ConsiderFails(d)
  PROVE  FailInv'
<1>1. /\ tick[d].pc = "considering" /\ tick[d] \in TickType
      /\ UNCHANGED <<failed, swaps, unhealthy>>
  BY CountTypes DEF Consider, ConsiderFails, At, state, ghosts
<1>2. CASE Consider(d)
  <2>1. PICK enabled \in SUBSET (Slots \ {tick[d].at}) :
           \E r \in [Ordinary(d, enabled) -> Readings \cup {Failed}],
              strategy \in StrategyValues :
           \E probed \in SUBSET {s \in DOMAIN r : r[s] # Failed} :
           \E look \in Looks(d, Keys \cap enabled, r) :
              Considers(d, enabled, r, strategy, probed, look)
    BY <1>2, ConsiderIs, Zenon
  <2>2. PICK r \in [Ordinary(d, enabled) -> Readings \cup {Failed}],
             strategy \in StrategyValues :
           \E probed \in SUBSET {s \in DOMAIN r : r[s] # Failed} :
           \E look \in Looks(d, Keys \cap enabled, r) :
              Considers(d, enabled, r, strategy, probed, look)
    BY <2>1, Zenon
  <2>3. PICK probed \in SUBSET {s \in DOMAIN r : r[s] # Failed} :
           \E look \in Looks(d, Keys \cap enabled, r) :
              Considers(d, enabled, r, strategy, probed, look)
    BY <2>2, Zenon
  <2>4. PICK look \in Looks(d, Keys \cap enabled, r) :
           Considers(d, enabled, r, strategy, probed, look)
    BY <2>3, Zenon
  <2>5. tick[d].at \notin probed
    BY <2>1, <2>2, <2>3 DEF Ordinary
  <2> DEFINE base == Considered(tick[d], enabled, r, strategy, probed, look)
             spend(policy) == [base EXCEPT !.pc = "reserving",
                                           !.policy = policy]
             Same(u) == /\ u.unhealthy = Clear(tick[d].unhealthy, probed)
                        /\ u.cleared = probed
                        /\ u.at = tick[d].at /\ u.probe = tick[d].probe
  <2>6. \/ tick' = [tick EXCEPT ![d] = Picking(base)]
        \/ \E policy : /\ tick[d].probe = "ok"
                       /\ tick' = [tick EXCEPT ![d] = spend(policy)]
    BY <2>4 DEF Considers, Redeems
  <2>7. Same(Picking(base)) /\ Picking(base).pc = "picking"
    BY <1>1 DEF TickType, Picking, Considered, Cleared
  <2>8. \A policy : Same(spend(policy)) /\ spend(policy).pc = "reserving"
    BY <1>1 DEF TickType, Considered, Cleared
  <2> HIDE DEF base, spend
  <2>9. CASE tick' = [tick EXCEPT ![d] = Picking(base)]
    BY <1>1, <2>5, <2>7, <2>9, FailCleared
  <2>10. ASSUME NEW policy, tick[d].probe = "ok",
                tick' = [tick EXCEPT ![d] = spend(policy)]
         PROVE  FailInv'
    BY <1>1, <2>5, <2>8, <2>10, FailCleared
  <2>11. QED BY <2>6, <2>9, <2>10
<1>3. CASE ConsiderFails(d)
  <2>1. PICK probed \in SUBSET Ordinary(d, Slots) :
           tick' = [tick EXCEPT ![d] = Ending(Cleared(tick[d], probed))]
    BY <1>3 DEF ConsiderFails
  <2>2. tick[d].at \notin probed
    BY <2>1 DEF Ordinary
  <2> DEFINE u == Ending(Cleared(tick[d], probed))
  <2>3. /\ u.unhealthy = Clear(tick[d].unhealthy, probed)
        /\ u.cleared = probed /\ u.at = tick[d].at
        /\ u.probe = tick[d].probe /\ u.pc = "ending"
    BY <1>1 DEF TickType, Ending, Cleared
  <2>4. tick' = [tick EXCEPT ![d] = u]
    BY <2>1
  <2> HIDE DEF u
  <2>5. QED BY <1>1, <2>2, <2>3, <2>4, FailCleared
<1>4. QED BY <1>2, <1>3

(* Time does not change what a tick has counted.                           *)
LEMMA FailAdvances ==
  ASSUME DaemonInv, FailInv, Advance
  PROVE  FailInv'
<1>1. /\ UNCHANGED <<unhealthy, failed, swaps>>
      /\ tick' = [d \in Daemons |->
                    [tick[d] EXCEPT
                        !.cooldown = Earlier(@), !.due = Earlier(@),
                        !.age = IF Ticking(d) THEN @ + 1 ELSE @]]
  BY DEF Advance
<1>2. ASSUME NEW d \in Daemons, CountKept(tick[d], failed)
      PROVE  CountKept(tick'[d], failed)
  <2> DEFINE age == IF Ticking(d) THEN tick[d].age + 1 ELSE tick[d].age
             u == [tick[d] EXCEPT !.cooldown = Earlier(tick[d].cooldown),
                                  !.due = Earlier(tick[d].due), !.age = age]
  <2>1. tick'[d] = u
    BY <1>1
  <2> HIDE DEF age
  <2>2. /\ u.pc = tick[d].pc /\ u.at = tick[d].at /\ u.probe = tick[d].probe
        /\ u.unhealthy = tick[d].unhealthy /\ u.cleared = tick[d].cleared
    BY CountTypes DEF TickType
  <2> HIDE DEF u
  <2>3. \A s \in Slots :
           CountAfter(u, failed, s) = CountAfter(tick[d], failed, s)
    BY <2>2 DEF CountAfter
  <2>4. CountKept(u, failed)
    BY <1>2, <2>2, <2>3 DEF CountKept, Running
  <2>5. QED BY <2>1, <2>4
<1>3. QED BY <1>1, <1>2 DEF FailInv

LEMMA FailStep ==
  ASSUME OneDaemon, DaemonInv, FailInv, [Next]_vars
  PROVE  FailInv'
<1>1. ASSUME NEW d \in Daemons, Tick(d) PROVE FailInv'
  BY <1>1, FailSame, FailStarts, FailEnds, FailProbes, FailProbeActive,
     FailConsiders DEF Tick
<1>2. ASSUME UNCHANGED <<unhealthy, failed, swaps, tick>> PROVE FailInv'
  BY <1>2 DEF FailInv
<1>3. ASSUME NEW s \in Slots, UserSwitch(s) PROVE FailInv'
  BY <1>2, <1>3 DEF UserSwitch, state
<1>4. ASSUME NEW a \in Slots, NEW b \in Slots, SwapSlots(a, b)
      PROVE  FailInv'
  <2>1. swaps' = swaps + 1
    BY <1>4, Zenon DEF SwapSlots
  <2>2. swaps \in Nat
    BY DaemonAssumption DEF DaemonInv
  <2>3. QED BY <2>1, <2>2 DEF FailInv
<1>5. CASE UNCHANGED vars
  BY <1>2, <1>5 DEF vars, ghosts, state
<1>6. QED BY <1>1, <1>3, <1>4, <1>5, FailAdvances DEF Next

(* The active account is treated as unusable only after unhealthyTicks     *)
(* ticks in a row have failed to probe it, whatever crashes, fails to be   *)
(* saved or happens to the other accounts meanwhile, if one daemon runs.   *)
THEOREM FailuresAlwaysConsecutive ==
  OneDaemon => (Spec => []FailuresAreConsecutive)
<1>1. DaemonInv /\ FailInv => FailuresAreConsecutive
  <2>1. SUFFICES ASSUME DaemonInv, FailInv, NEW d \in Daemons, swaps = 0,
                        tick[d].probe = "failed",
                        tick[d].pc \in {"considering", "picking"}
                 PROVE  failed[tick[d].at] + 1 >= UnhealthyTicks
    BY DEF FailuresAreConsecutive
  <2> DEFINE s == tick[d].at
  <2>2. /\ s \in Slots /\ tick[d].unhealthy[s] >= UnhealthyTicks
        /\ tick[d].unhealthy[s] <= OneMore(failed[s])
    BY <2>1 DEF FailInv, CountKept, CountAfter, Running
  <2>3. /\ failed[s] \in 0..UnhealthyTicks
        /\ tick[d].unhealthy[s] \in 0..UnhealthyTicks
    BY <2>1, <2>2, CountTypes
  <2>4. /\ OneMore(failed[s]) <= failed[s] + 1
        /\ OneMore(failed[s]) \in 0..UnhealthyTicks
    BY <2>3, OneMoreGrows, OneMoreType
  <2>5. UnhealthyTicks \in Int
    BY DaemonAssumption
  <2> HIDE DEF s
  <2>6. failed[s] + 1 >= UnhealthyTicks
    BY <2>2, <2>3, <2>4, <2>5
  <2>7. QED BY <2>6 DEF s
<1>2. SUFFICES ASSUME OneDaemon PROVE Spec => []FailuresAreConsecutive
  OBVIOUS
<1>3. DaemonInv /\ FailInv /\ [Next]_vars => FailInv'
  BY <1>2, FailStep
<1>4. QED BY <1>1, <1>3, FailInit, DaemonInductive, PTL DEF Spec
=============================================================================
