----------------------- MODULE RedemptionLedgerProofs -----------------------
(***************************************************************************)
(* The ledger's properties, proved for every number of daemons, attempts,  *)
(* every cap, every length of the day and every bound.                     *)
(***************************************************************************)
EXTENDS RedemptionLedger, FiniteSetTheorems, TLAPS

-----------------------------------------------------------------------------
(* What the operators on one copy of the history return.                   *)

LEMMA LaterType ==
  ASSUME NEW s \in Status, NEW m \in Status
  PROVE  Later(s, m) \in Status
BY DEF Later, Status

LEMMA MergeType ==
  ASSUME NEW s \in History, NEW m \in History
  PROVE  Merge(s, m) \in History
BY LaterType DEF Merge, History

LEMMA KeepOnlyType ==
  ASSUME NEW h \in History, NEW K
  PROVE  KeepOnly(h, K) \in History
BY DEF KeepOnly, History, Status

LEMMA AdoptType ==
  ASSUME NEW m \in History, NEW s \in History
  PROVE  Adopt(m, s) \in History
BY DEF Adopt, History

LEMMA NewestStampType ==
  ASSUME NEW x \in Time, NEW y \in Time
  PROVE  /\ NewestStamp(x, y) \in Time
         /\ NewestStamp(x, y) >= x
         /\ NewestStamp(x, y) >= y
         /\ NewestStamp(x, y) \in {x, y}
BY DEF NewestStamp, Time, NoTime

LEMMA StoredStampType ==
  ASSUME TypeOK
  PROVE  StoredStamp \in Time
BY DEF StoredStamp, TypeOK, Time

(* Everything the other proofs use of a save: what becomes of each of the  *)
(* saver's entries and of the marker.                                      *)
LEMMA SaveFacts ==
  ASSUME TypeOK,
         NEW d \in Daemons,
         NEW h \in History,
         NEW stamps \in [Attempts -> Time],
         Save(d, h, stamps)
  PROVE  /\ mem' \in [Daemons -> History]
         /\ ledger' \in History
         /\ marker' \in Time
         /\ since' \in [Daemons -> Time]
         /\ readable' = TRUE
         /\ \A e \in Daemons \ {d} : mem'[e] = mem[e] /\ since'[e] = since[e]
         /\ \A a \in Attempts : mem'[d][a] \in {h[a], "absent"}
         /\ \A a \in Attempts : ledger'[a] = Later(ledger[a], mem'[d][a])
         /\ \A a \in Attempts :
               h[a] \in {"pending", "reset"} /\ stamps[a] >= clock - Day
                  => mem'[d][a] = h[a]
         /\ \/ /\ marker' = NoTime
               /\ \/ StoredStamp = NoTime
                  \/ clock - StoredStamp >= Day
            \/ /\ marker' >= StoredStamp
               /\ marker' \in {since[d], StoredStamp}
         /\ since'[d] \in {since[d], marker'}
<1> DEFINE stamp == NewestStamp(since[d], StoredStamp)
<1> DEFINE carried == stamp # NoTime /\ clock - stamp < Day
<1>1. stamp \in Time /\ stamp >= StoredStamp /\ stamp \in {since[d], StoredStamp}
  BY NewestStampType, StoredStampType DEF TypeOK
<1>2. PICK K \in Keepable(h, stamps, clock) :
          /\ mem' = [mem EXCEPT ![d] = KeepOnly(h, K)]
          /\ ledger' = Merge(ledger, KeepOnly(h, K))
          /\ marker' = IF carried THEN stamp ELSE NoTime
          /\ since' = [since EXCEPT ![d] = IF carried THEN stamp ELSE @]
          /\ readable' = TRUE
  BY DEF Save
<1>3. KeepOnly(h, K) \in History
  BY KeepOnlyType
<1>4. mem'[d] = KeepOnly(h, K)
  BY <1>2 DEF TypeOK
<1>5. mem' \in [Daemons -> History]
  BY <1>2, <1>3 DEF TypeOK
<1>6. ledger' \in History
  BY <1>2, <1>3, MergeType DEF TypeOK
<1>7. marker' \in Time /\ since' \in [Daemons -> Time]
  BY <1>1, <1>2 DEF TypeOK, Time
<1>8. \A e \in Daemons \ {d} : mem'[e] = mem[e] /\ since'[e] = since[e]
  BY <1>2 DEF TypeOK
<1>9. \A a \in Attempts : mem'[d][a] \in {h[a], "absent"}
  BY <1>4 DEF KeepOnly
<1>10. \A a \in Attempts : ledger'[a] = Later(ledger[a], mem'[d][a])
  BY <1>2, <1>4 DEF Merge
<1>11. ASSUME NEW a \in Attempts,
              h[a] \in {"pending", "reset"}, stamps[a] >= clock - Day
       PROVE  mem'[d][a] = h[a]
  <2>1. stamps[a] >= clock - Retention
    BY <1>11, LedgerAssumption DEF TypeOK, Time, NoTime
  <2>2. a \in Protected(h, stamps, clock)
    BY <1>11, <2>1 DEF Protected, Recent
  <2>3. a \in K
    BY <1>2, <2>2 DEF Keepable
  <2> QED
    BY <1>4, <2>3 DEF KeepOnly
<1>12. \/ /\ marker' = NoTime
          /\ \/ StoredStamp = NoTime
             \/ clock - StoredStamp >= Day
       \/ /\ marker' >= StoredStamp
          /\ marker' \in {since[d], StoredStamp}
  <2>1. CASE carried
    BY <2>1, <1>1, <1>2
  <2>2. CASE stamp = NoTime
    BY <2>2, <1>1, <1>2, StoredStampType DEF NoTime, Time
  <2>3. CASE ~carried /\ stamp # NoTime
    BY <2>3, <1>1, <1>2, StoredStampType, LedgerAssumption
       DEF NoTime, Time, TypeOK
  <2> QED
    BY <2>1, <2>2, <2>3
<1>13. since'[d] \in {since[d], marker'}
  BY <1>2 DEF TypeOK
<1> QED
  BY <1>2, <1>5, <1>6, <1>7, <1>8, <1>9, <1>10, <1>11, <1>12, <1>13

-----------------------------------------------------------------------------
(* Type correctness.                                                       *)

(* Every state a save leads to is typed, whichever of the three callers    *)
(* runs it.                                                                *)
LEMMA GrantCopyType ==
  ASSUME TypeOK, NEW d \in Daemons, NEW a \in Attempts
  PROVE  [Adopt(mem[d], ledger) EXCEPT ![a] = "pending"] \in History
<1>1. Adopt(mem[d], ledger) \in History
  BY AdoptType DEF TypeOK
<1> QED
  BY <1>1 DEF History, Status

LEMMA TypeStep == TypeOK /\ [Next]_vars => TypeOK'
<1> SUFFICES ASSUME TypeOK, [Next]_vars PROVE TypeOK'
  OBVIOUS
<1> USE DEF shared, local, ghosts
<1>1. ASSUME NEW d \in Daemons, Start(d) PROVE TypeOK'
  BY <1>1, StoredStampType DEF TypeOK, Start, Load, PcSet
<1>2. ASSUME NEW d \in Daemons, Wake(d) PROVE TypeOK'
  BY <1>2 DEF TypeOK, Wake, PcSet
<1>3. ASSUME NEW d \in Daemons, Reload(d) PROVE TypeOK'
  BY <1>3, StoredStampType DEF TypeOK, Reload, Load, PcSet
<1>4. ASSUME NEW d \in Daemons, ReloadFails(d) \/ NoRedemption(d) PROVE TypeOK'
  BY <1>4 DEF TypeOK, ReloadFails, NoRedemption, PcSet
<1>5. ASSUME NEW d \in Daemons, Refuse(d) PROVE TypeOK'
  <2>1. Adopt(mem[d], ledger) \in History
    BY AdoptType DEF TypeOK
  <2> QED
    BY <1>5, <2>1 DEF TypeOK, Refuse, PcSet
<1>6. ASSUME NEW d \in Daemons, Grant(d) PROVE TypeOK'
  <2>1. PICK a \in Attempts :
          /\ at' = [at EXCEPT ![a] = now[d]]
          /\ truth' = [truth EXCEPT ![a] = "pending"]
          /\ current' = [current EXCEPT ![d] = a]
          /\ Save(d, [Adopt(mem[d], ledger) EXCEPT ![a] = "pending"], at')
    BY <1>6 DEF Grant
  <2>2. at' \in [Attempts -> Time]
    BY <2>1 DEF TypeOK, Time
  <2>3. /\ mem' \in [Daemons -> History] /\ ledger' \in History
        /\ marker' \in Time /\ since' \in [Daemons -> Time] /\ readable' = TRUE
    BY <2>1, <2>2, GrantCopyType, SaveFacts
  <2>4. truth' \in History
    BY <2>1 DEF TypeOK, History, Status
  <2> QED
    BY <1>6, <2>1, <2>2, <2>3, <2>4 DEF TypeOK, Grant, PcSet
<1>7. ASSUME NEW d \in Daemons, Redeem(d) PROVE TypeOK'
  <2>1. PICK o \in Outcomes :
          /\ mem' = [mem EXCEPT ![d][current[d]] = IF @ = "absent" THEN @ ELSE o]
          /\ truth' = [truth EXCEPT ![current[d]] = o]
    BY <1>7 DEF Redeem
  <2>2. o \in Status
    BY DEF Outcomes, Status
  <2>3. mem' \in [Daemons -> History] /\ truth' \in History
    BY <2>1, <2>2 DEF TypeOK, History
  <2> QED
    BY <1>7, <2>3 DEF TypeOK, Redeem, PcSet
<1>8. ASSUME NEW d \in Daemons, RedeemFails(d) \/ SettleBusy(d) PROVE TypeOK'
  BY <1>8 DEF TypeOK, RedeemFails, SettleBusy, PcSet
<1>9. ASSUME NEW d \in Daemons, Settle(d) \/ EndTick(d) PROVE TypeOK'
  <2>1. Save(d, mem[d], at)
    BY <1>9 DEF Settle, EndTick
  <2>2. /\ mem' \in [Daemons -> History] /\ ledger' \in History
        /\ marker' \in Time /\ since' \in [Daemons -> Time] /\ readable' = TRUE
    BY <2>1, SaveFacts DEF TypeOK
  <2> QED
    BY <1>9, <2>2 DEF TypeOK, Settle, EndTick, PcSet
<1>10. ASSUME NEW d \in Daemons, Crash(d) PROVE TypeOK'
  BY <1>10 DEF TypeOK, Crash, PcSet, Empty, History, Status, Time, NoTime
<1>11. CASE Damage
  <2>1. ledger' \in History /\ marker' \in Time
    BY <1>11 DEF Damage, Empty, History, Status, Time, NoTime
  <2>2. damages' \in Nat /\ lastBad' \in Time
    BY <1>11 DEF Damage, TypeOK, Time
  <2>3. readable' \in BOOLEAN
    BY <1>11 DEF Damage
  <2>4. UNCHANGED <<clock, pc, now, mem, since, current, at, truth>>
    BY <1>11 DEF Damage
  <2> QED
    BY <2>1, <2>2, <2>3, <2>4 DEF TypeOK
<1>12. CASE Advance
  BY <1>12 DEF TypeOK, Advance, Time
<1>13. CASE UNCHANGED vars
  BY <1>13 DEF TypeOK, vars
<1> QED
  BY <1>1, <1>2, <1>3, <1>4, <1>5, <1>6, <1>7, <1>8, <1>9, <1>10, <1>11, <1>12,
     <1>13 DEF Next, Step

LEMMA TypeInit == Init => TypeOK
BY DEF Init, TypeOK, Empty, History, Status, Time, NoTime, PcSet

(* Every reachable state is typed (auto.py, AutoState and the loop of      *)
(* run()).                                                                 *)
THEOREM TypeCorrect == Spec => []TypeOK
BY TypeInit, TypeStep, PTL DEF Spec

-----------------------------------------------------------------------------
(* The parts of the inductive invariant.                                   *)

LEMMA StampStep ==
  TypeOK /\ StampInv /\ OwnerInv /\ RefusalEnds /\ [Next]_vars
     => StampInv' /\ RefusalEnds'
<1> SUFFICES ASSUME TypeOK, StampInv, OwnerInv, RefusalEnds, [Next]_vars
             PROVE  StampInv' /\ RefusalEnds'
  OBVIOUS
<1> USE DEF StampInv, RefusalEnds, TypeOK, Time, NoTime, shared, local, ghosts
<1>a. StoredStamp <= lastBad /\ StoredStamp \in Time
  BY StoredStampType DEF StoredStamp
<1>1. ASSUME NEW d \in Daemons, Start(d) \/ Reload(d)
      PROVE  StampInv' /\ RefusalEnds'
  BY <1>1, <1>a DEF Start, Reload, Load
<1>2. ASSUME NEW d \in Daemons, Wake(d) PROVE StampInv' /\ RefusalEnds'
  BY <1>2 DEF Wake
<1>3. ASSUME NEW d \in Daemons,
             ReloadFails(d) \/ NoRedemption(d) \/ Refuse(d)
               \/ RedeemFails(d) \/ SettleBusy(d)
      PROVE  StampInv' /\ RefusalEnds'
  BY <1>3 DEF ReloadFails, NoRedemption, Refuse, RedeemFails, SettleBusy
<1>r. ASSUME NEW d \in Daemons, Redeem(d) PROVE StampInv' /\ RefusalEnds'
  <2>1. PICK o \in Outcomes : truth' = [truth EXCEPT ![current[d]] = o]
    BY <1>r DEF Redeem
  <2>2. truth[current[d]] = "pending"
    BY <1>r DEF Redeem, OwnerInv
  <2> QED
    BY <1>r, <2>1, <2>2 DEF Redeem, History
<1>4. ASSUME NEW d \in Daemons, Grant(d) PROVE StampInv' /\ RefusalEnds'
  <2>1. PICK a \in Attempts :
          /\ at' = [at EXCEPT ![a] = now[d]]
          /\ truth' = [truth EXCEPT ![a] = "pending"]
          /\ Save(d, [Adopt(mem[d], ledger) EXCEPT ![a] = "pending"], at')
    BY <1>4 DEF Grant
  <2>2. at' \in [Attempts -> Time]
    BY <2>1
  <2>3. \A x \in Attempts :
           at'[x] <= clock /\ (truth'[x] # "absent" => at'[x] # NoTime)
    BY <2>1 DEF History
  <2>4. /\ marker' \in {NoTime, since[d], StoredStamp}
        /\ since'[d] \in {since[d], marker'}
        /\ \A e \in Daemons \ {d} : since'[e] = since[e]
        /\ readable' = TRUE
    BY <2>1, <2>2, GrantCopyType, SaveFacts
  <2> QED
    BY <1>4, <1>a, <2>3, <2>4 DEF Grant
<1>5. ASSUME NEW d \in Daemons, Settle(d) \/ EndTick(d)
      PROVE  StampInv' /\ RefusalEnds'
  <2>1. Save(d, mem[d], at)
    BY <1>5 DEF Settle, EndTick
  <2>2. /\ marker' \in {NoTime, since[d], StoredStamp}
        /\ since'[d] \in {since[d], marker'}
        /\ \A e \in Daemons \ {d} : since'[e] = since[e]
        /\ readable' = TRUE
    BY <2>1, SaveFacts
  <2> QED
    BY <1>5, <1>a, <2>2 DEF Settle, EndTick
<1>6. ASSUME NEW d \in Daemons, Crash(d) PROVE StampInv' /\ RefusalEnds'
  BY <1>6 DEF Crash
<1>7. CASE Damage
  BY <1>7 DEF Damage
<1>8. CASE Advance
  BY <1>8 DEF Advance
<1>9. CASE UNCHANGED vars
  BY <1>9 DEF vars
<1> QED
  BY <1>1, <1>2, <1>3, <1>r, <1>4, <1>5, <1>6, <1>7, <1>8, <1>9 DEF Next, Step

(* What a save does to the copies' soundness: it invents nothing.          *)
LEMMA SaveSound ==
  ASSUME TypeOK, CopyInv,
         NEW d \in Daemons,
         NEW h \in History,
         NEW stamps \in [Attempts -> Time],
         Save(d, h, stamps),
         truth' \in History,
         \A a \in Attempts : /\ truth'[a] = "absent" => h[a] = "absent"
                             /\ h[a] = "noCredit" => truth'[a] = "noCredit",
         \A a \in Attempts : /\ truth'[a] = "absent" => truth[a] = "absent"
                             /\ truth[a] = "noCredit" => truth'[a] = "noCredit"
  PROVE  CopyInv'
<1>1. /\ \A e \in Daemons \ {d} : mem'[e] = mem[e]
      /\ \A a \in Attempts : mem'[d][a] \in {h[a], "absent"}
      /\ \A a \in Attempts : ledger'[a] = Later(ledger[a], mem'[d][a])
  BY SaveFacts
<1>2. \A a \in Attempts :
          /\ truth'[a] = "absent" => mem'[d][a] = "absent"
          /\ mem'[d][a] = "noCredit" => truth'[a] = "noCredit"
  BY <1>1
<1>3. Sound(mem[d])'
  BY <1>2 DEF Sound
<1>4. ASSUME NEW e \in Daemons \ {d} PROVE Sound(mem[e])'
  BY <1>1, <1>4 DEF CopyInv, Sound
<1>5. Sound(ledger)'
  BY <1>1, <1>2 DEF CopyInv, Sound, Later
<1> QED
  BY <1>3, <1>4, <1>5 DEF CopyInv

LEMMA CopyStep ==
  TypeOK /\ TypeOK' /\ StampInv /\ CopyInv /\ OwnerInv /\ [Next]_vars => CopyInv'
<1> SUFFICES ASSUME TypeOK, TypeOK', StampInv, CopyInv, OwnerInv, [Next]_vars
             PROVE  CopyInv'
  OBVIOUS
<1> USE DEF shared, local, ghosts
<1>1. ASSUME NEW d \in Daemons, Start(d) \/ Reload(d) PROVE CopyInv'
  BY <1>1 DEF Start, Reload, Load, CopyInv, Sound, TypeOK
<1>2. ASSUME NEW d \in Daemons,
             Wake(d) \/ ReloadFails(d) \/ NoRedemption(d) \/ RedeemFails(d) \/ SettleBusy(d)
      PROVE  CopyInv'
  BY <1>2 DEF Wake, ReloadFails, NoRedemption, RedeemFails, SettleBusy, CopyInv, Sound
<1>3. ASSUME NEW d \in Daemons, Refuse(d) PROVE CopyInv'
  BY <1>3 DEF Refuse, Adopt, CopyInv, Sound, TypeOK
<1>4. ASSUME NEW d \in Daemons, Grant(d) PROVE CopyInv'
  <2>1. PICK a \in Attempts :
          /\ truth[a] = "absent"
          /\ at' = [at EXCEPT ![a] = now[d]]
          /\ truth' = [truth EXCEPT ![a] = "pending"]
          /\ Save(d, [Adopt(mem[d], ledger) EXCEPT ![a] = "pending"], at')
    BY <1>4 DEF Grant
  <2> DEFINE h == [Adopt(mem[d], ledger) EXCEPT ![a] = "pending"]
  <2>2. h \in History /\ at' \in [Attempts -> Time] /\ truth' \in History
    BY <2>1, GrantCopyType DEF TypeOK
  <2>3. \A x \in Attempts : /\ truth'[x] = "absent" => h[x] = "absent"
                            /\ h[x] = "noCredit" => truth'[x] = "noCredit"
    BY <2>1, AdoptType DEF TypeOK, History, Adopt, CopyInv, Sound
  <2>4. \A x \in Attempts : /\ truth'[x] = "absent" => truth[x] = "absent"
                            /\ truth[x] = "noCredit" => truth'[x] = "noCredit"
    BY <2>1 DEF TypeOK, History
  <2> HIDE DEF h
  <2> QED
    BY <2>1, <2>2, <2>3, <2>4, SaveSound DEF h
<1>5. ASSUME NEW d \in Daemons, Redeem(d) PROVE CopyInv'
  <2>1. PICK o \in Outcomes :
          /\ mem' = [mem EXCEPT ![d][current[d]] = IF @ = "absent" THEN @ ELSE o]
          /\ truth' = [truth EXCEPT ![current[d]] = o]
          /\ ledger' = ledger
    BY <1>5 DEF Redeem
  <2>2. current[d] \in Attempts /\ truth[current[d]] = "pending"
    BY <1>5 DEF Redeem, OwnerInv
  <2>3. o # "absent"
    BY DEF Outcomes
  <2>4. Sound(ledger)'
    BY <2>1, <2>2, <2>3 DEF CopyInv, Sound, TypeOK, History
  <2>5. ASSUME NEW e \in Daemons PROVE Sound(mem[e])'
    BY <2>1, <2>2, <2>3, <2>5 DEF CopyInv, Sound, TypeOK, History
  <2> QED
    BY <2>4, <2>5 DEF CopyInv
<1>6. ASSUME NEW d \in Daemons, Settle(d) \/ EndTick(d) PROVE CopyInv'
  <2>1. Save(d, mem[d], at) /\ truth' = truth
    BY <1>6 DEF Settle, EndTick
  <2>2. mem[d] \in History /\ at \in [Attempts -> Time] /\ truth' \in History
    BY DEF TypeOK
  <2>3. \A a \in Attempts : /\ truth'[a] = "absent" => mem[d][a] = "absent"
                            /\ mem[d][a] = "noCredit" => truth'[a] = "noCredit"
    BY <2>1 DEF CopyInv, Sound
  <2> QED
    BY <2>1, <2>2, <2>3, SaveSound
<1>7. ASSUME NEW d \in Daemons, Crash(d) PROVE CopyInv'
  BY <1>7 DEF Crash, CopyInv, Sound, Empty, TypeOK
<1>8. CASE Damage
  BY <1>8 DEF Damage, CopyInv, Sound, Empty
<1>9. CASE Advance \/ UNCHANGED vars
  BY <1>9 DEF Advance, vars, CopyInv, Sound
<1> QED
  BY <1>1, <1>2, <1>3, <1>4, <1>5, <1>6, <1>7, <1>8, <1>9 DEF Next, Step

LEMMA OwnerStep ==
  TypeOK /\ TypeOK' /\ OwnerInv /\ [Next]_vars => OwnerInv'
<1> SUFFICES ASSUME TypeOK, TypeOK', OwnerInv, [Next]_vars PROVE OwnerInv'
  OBVIOUS
<1> USE DEF shared, local, ghosts, TypeOK, OwnerInv
<1>1. ASSUME NEW d \in Daemons,
             Start(d) \/ Wake(d) \/ Reload(d) \/ ReloadFails(d) \/ NoRedemption(d)
               \/ Refuse(d) \/ RedeemFails(d) \/ Settle(d) \/ SettleBusy(d)
               \/ EndTick(d) \/ Crash(d)
      PROVE  OwnerInv'
  <2>1. /\ truth' = truth
        /\ pc'[d] # "reserved"
        /\ \A e \in Daemons \ {d} : pc'[e] = pc[e] /\ current'[e] = current[e]
    BY <1>1 DEF Start, Wake, Reload, ReloadFails, NoRedemption, Refuse,
                RedeemFails, Settle, SettleBusy, EndTick, Crash
  <2> QED
    BY <2>1
<1>2. ASSUME NEW d \in Daemons, Grant(d) PROVE OwnerInv'
  <2>1. PICK a \in Attempts :
          /\ truth[a] = "absent"
          /\ truth' = [truth EXCEPT ![a] = "pending"]
          /\ current' = [current EXCEPT ![d] = a]
    BY <1>2 DEF Grant
  <2>2. pc' = [pc EXCEPT ![d] = "reserved"]
    BY <1>2 DEF Grant
  <2>3. current'[d] = a /\ truth'[a] = "pending"
    BY <2>1 DEF History
  <2>4. ASSUME NEW e \in Daemons \ {d}, pc'[e] = "reserved"
        PROVE  /\ pc[e] = "reserved"
               /\ current'[e] = current[e]
               /\ current[e] # a
               /\ truth'[current[e]] = "pending"
    BY <2>1, <2>2, <2>4 DEF History
  <2> QED
    BY <2>3, <2>4
<1>3. ASSUME NEW d \in Daemons, Redeem(d) PROVE OwnerInv'
  <2>1. PICK o \in Outcomes : truth' = [truth EXCEPT ![current[d]] = o]
    BY <1>3 DEF Redeem
  <2>2. pc' = [pc EXCEPT ![d] = "answered"] /\ current' = current
    BY <1>3 DEF Redeem
  <2> QED
    BY <1>3, <2>1, <2>2 DEF Redeem, History
<1>4. CASE Damage \/ Advance \/ UNCHANGED vars
  BY <1>4 DEF Damage, Advance, vars
<1> QED
  BY <1>1, <1>2, <1>3, <1>4 DEF Next, Step

-----------------------------------------------------------------------------
(* No spend is forgotten.                                                  *)

(* A save keeps every young attempt accounted for: what the file said of   *)
(* it survives the merge, the marker is carried over, and an unreadable    *)
(* file is replaced by one with a marker that covers the attempt.          *)
LEMMA SaveKeepsRecord ==
  ASSUME TypeOK, StampInv, SpendOnRecord, CopyInv, CopyInv',
         NEW d \in Daemons,
         NEW h \in History,
         NEW stamps \in [Attempts -> Time],
         Save(d, h, stamps),
         NEW a \in Chargeable,
         truth'[a] = truth[a]
  PROVE  ledger'[a] \in {"pending", "reset"} \/ marker' >= at[a]
<1>1. /\ a \in Attempts /\ truth[a] \in {"pending", "reset"}
      /\ clock - Day < at[a] /\ at[a] \in Time /\ at[a] <= clock
  BY DEF Chargeable, TypeOK, StampInv
<1>2. /\ ledger'[a] = Later(ledger[a], mem'[d][a])
      /\ \/ /\ marker' = NoTime
            /\ StoredStamp = NoTime \/ clock - StoredStamp >= Day
         \/ /\ marker' >= StoredStamp
            /\ marker' \in {since[d], StoredStamp}
      /\ marker' \in Time /\ StoredStamp \in Time
  BY <1>1, SaveFacts, StoredStampType
<1>3. CASE ledger[a] \in {"pending", "reset"}
  <2>1. ledger'[a] # "noCredit"
    BY <1>1 DEF CopyInv, Sound
  <2>2. mem'[d][a] \in Status
    BY <1>1, SaveFacts DEF History
  <2> QED
    BY <1>2, <1>3, <2>1, <2>2 DEF Later, Status
<1>4. CASE ~readable
  <2>1. StoredStamp = clock
    BY <1>4 DEF StoredStamp
  <2> QED
    BY <1>1, <1>2, <2>1, LedgerAssumption DEF TypeOK, NoTime, Time
<1>5. CASE readable /\ marker >= at[a]
  <2>1. StoredStamp = marker
    BY <1>5 DEF StoredStamp
  <2> QED
    BY <1>1, <1>2, <1>5, <2>1, LedgerAssumption DEF TypeOK, NoTime, Time
<1> QED
  BY <1>3, <1>4, <1>5 DEF SpendOnRecord

LEMMA RecordStep ==
  LedgerInv /\ TypeOK' /\ CopyInv' /\ [Next]_vars => SpendOnRecord'
<1> SUFFICES ASSUME LedgerInv, TypeOK', CopyInv', [Next]_vars,
                    NEW a \in Chargeable'
             PROVE  \/ ledger'[a] \in {"pending", "reset"}
                    \/ ~readable'
                    \/ marker' >= at'[a]
  BY DEF SpendOnRecord
<1> DEFINE OnRecord == \/ ledger'[a] \in {"pending", "reset"}
                       \/ ~readable'
                       \/ marker' >= at'[a]
<1> USE DEF LedgerInv, shared, local, ghosts
<1>a. a \in Attempts /\ truth'[a] \in {"pending", "reset"} /\ clock' - Day < at'[a]
  BY DEF Chargeable
<1>1. ASSUME NEW d \in Daemons,
             Start(d) \/ Wake(d) \/ Reload(d) \/ ReloadFails(d) \/ NoRedemption(d)
               \/ Refuse(d) \/ RedeemFails(d) \/ SettleBusy(d) \/ Crash(d)
      PROVE  OnRecord
  <2>1. UNCHANGED <<clock, ledger, marker, readable, at, truth>>
    BY <1>1 DEF Start, Wake, Reload, ReloadFails, NoRedemption, Refuse,
                RedeemFails, SettleBusy, Crash
  <2> QED
    BY <1>a, <2>1 DEF SpendOnRecord, Chargeable
<1>2. ASSUME NEW d \in Daemons, Grant(d) PROVE OnRecord
  <2>1. PICK b \in Attempts :
          /\ truth[b] = "absent"
          /\ at' = [at EXCEPT ![b] = now[d]]
          /\ truth' = [truth EXCEPT ![b] = "pending"]
          /\ Save(d, [Adopt(mem[d], ledger) EXCEPT ![b] = "pending"], at')
    BY <1>2 DEF Grant
  <2> DEFINE h == [Adopt(mem[d], ledger) EXCEPT ![b] = "pending"]
  <2>2. h \in History /\ at' \in [Attempts -> Time] /\ clock' = clock
    BY <1>2, GrantCopyType DEF TypeOK, Grant
  <2>3. CASE a = b
    <3>1. h[a] = "pending"
      BY <2>3, AdoptType DEF TypeOK, History
    <3>2. at'[a] >= clock - Day
      BY <1>a, <2>2, LedgerAssumption DEF TypeOK, Time, NoTime
    <3>s. Save(d, h, at')
      BY <2>1
    <3> HIDE DEF h
    <3>f. /\ \A x \in Attempts : ledger'[x] = Later(ledger[x], mem'[d][x])
          /\ \A x \in Attempts :
                h[x] \in {"pending", "reset"} /\ at'[x] >= clock - Day
                   => mem'[d][x] = h[x]
      BY <2>2, <3>s, SaveFacts
    <3>3. mem'[d][a] = "pending" /\ ledger'[a] = Later(ledger[a], mem'[d][a])
      BY <1>a, <3>1, <3>2, <3>f
    <3>4. ledger[a] = "absent"
      BY <2>1, <2>3 DEF CopyInv, Sound
    <3> QED
      BY <3>3, <3>4 DEF Later
  <2>4. CASE a # b
    <3>1. truth'[a] = truth[a] /\ at'[a] = at[a]
      BY <1>a, <2>1, <2>4 DEF TypeOK, History
    <3>2. a \in Chargeable
      BY <1>a, <2>2, <3>1 DEF Chargeable
    <3> HIDE DEF h
    <3> QED
      BY <2>1, <2>2, <3>1, <3>2, SaveKeepsRecord DEF h
  <2> QED
    BY <2>3, <2>4
<1>3. ASSUME NEW d \in Daemons, Redeem(d) PROVE OnRecord
  <2>1. PICK o \in Outcomes : truth' = [truth EXCEPT ![current[d]] = o]
    BY <1>3 DEF Redeem
  <2>2. UNCHANGED <<clock, ledger, marker, readable, at>>
    BY <1>3 DEF Redeem
  <2>3. truth[a] \in {"pending", "reset"}
    BY <1>3, <1>a, <2>1 DEF Redeem, OwnerInv, TypeOK, History
  <2> QED
    BY <1>a, <2>2, <2>3 DEF SpendOnRecord, Chargeable
<1>4. ASSUME NEW d \in Daemons, Settle(d) \/ EndTick(d) PROVE OnRecord
  <2>1. Save(d, mem[d], at) /\ UNCHANGED <<clock, at, truth>>
    BY <1>4 DEF Settle, EndTick
  <2>2. a \in Chargeable
    BY <1>a, <2>1 DEF Chargeable
  <2>3. mem[d] \in History /\ at \in [Attempts -> Time]
    BY DEF TypeOK
  <2> QED
    BY <2>1, <2>2, <2>3, SaveKeepsRecord
<1>5. CASE Damage
  BY <1>5 DEF Damage
<1>6. CASE Advance
  <2>1. a \in Chargeable /\ UNCHANGED <<ledger, marker, readable, at>>
    BY <1>6, <1>a, LedgerAssumption DEF Advance, Chargeable, TypeOK, Time, NoTime
  <2> QED
    BY <2>1 DEF SpendOnRecord
<1>7. CASE UNCHANGED vars
  <2>1. UNCHANGED <<clock, ledger, marker, readable, at, truth>>
    BY <1>7 DEF vars
  <2> QED
    BY <1>a, <2>1 DEF SpendOnRecord, Chargeable
<1> QED
  BY <1>1, <1>2, <1>3, <1>4, <1>5, <1>6, <1>7 DEF Next, Step

LEMMA LedgerInvInit == Init => LedgerInv
<1>1. ASSUME Init PROVE Chargeable = {}
  BY <1>1 DEF Init, Chargeable
<1> QED
  BY <1>1, TypeInit DEF Init, LedgerInv, StampInv, CopyInv, Sound, OwnerInv,
     RefusalEnds, SpendOnRecord, NoTime, Empty

(* The inductive invariant.                                                *)
THEOREM LedgerInductive == Spec => []LedgerInv
<1>1. LedgerInv /\ [Next]_vars => LedgerInv'
  BY TypeStep, StampStep, CopyStep, OwnerStep, RecordStep DEF LedgerInv
<1> QED
  BY LedgerInvInit, <1>1, PTL DEF Spec

(* No spend of the last day is ever off the record, and a damaged history  *)
(* says that it is (_merge_history, AutoState.save, AutoState.prune).      *)
THEOREM SpendAlwaysOnRecord == Spec => []SpendOnRecord
<1>1. LedgerInv => SpendOnRecord
  BY DEF LedgerInv
<1> QED
  BY LedgerInductive, <1>1, PTL

(* The marker never outlives the damage by more than a day.                *)
THEOREM RefusalAlwaysEnds == Spec => []RefusalEnds
<1>1. LedgerInv => RefusalEnds
  BY DEF LedgerInv
<1> QED
  BY LedgerInductive, <1>1, PTL

-----------------------------------------------------------------------------
(* The cap.                                                                *)

LEMMA ChargeableFinite ==
  /\ IsFiniteSet(Chargeable)
  /\ IsFiniteSet(Chargeable')
  /\ Cardinality(Chargeable) \in Nat
  /\ Cardinality(Chargeable') \in Nat
<1>1. Chargeable \in SUBSET Attempts /\ Chargeable' \in SUBSET Attempts
  BY DEF Chargeable
<1>2. IsFiniteSet(Chargeable) /\ IsFiniteSet(Chargeable')
  BY <1>1, FS_Subset, LedgerAssumption
<1> QED
  BY <1>2, FS_CardinalityType

(* Every attempt of the last day stamped no later than this tick's start   *)
(* is in the set the reservation counts.                                   *)
LEMMA GrantSeesAll ==
  ASSUME LedgerInv, NEW d \in Daemons, Grant(d)
  PROVE  {a \in Chargeable : at[a] <= now[d]}
            \subseteq Counted(Adopt(mem[d], ledger), now[d])
<1> SUFFICES ASSUME NEW a \in Chargeable, at[a] <= now[d]
             PROVE  a \in Counted(Adopt(mem[d], ledger), now[d])
  OBVIOUS
<1> USE DEF LedgerInv
<1>1. /\ a \in Attempts /\ truth[a] \in {"pending", "reset"}
      /\ clock - Day < at[a] /\ at[a] \in Time
      /\ now[d] <= clock /\ now[d] \in Nat /\ marker \in Time
  BY DEF Chargeable, TypeOK, StampInv
<1>2. readable /\ (marker = NoTime \/ now[d] - marker >= Day)
  BY <1>1, LedgerAssumption DEF Grant, HistoryUnknown, Time, NoTime
<1>3. ~(marker >= at[a])
  <2>1. CASE marker = NoTime
    <3>1. at[a] # NoTime
      BY <1>1 DEF StampInv
    <3> QED
      BY <1>1, <2>1, <3>1 DEF Time, NoTime
  <2>2. CASE now[d] - marker >= Day
    BY <1>1, <2>2, LedgerAssumption DEF TypeOK, Time, NoTime
  <2> QED
    BY <1>2, <2>1, <2>2
<1>4. ledger[a] \in {"pending", "reset"}
  BY <1>2, <1>3 DEF SpendOnRecord
<1>5. mem[d][a] \in {"absent", "pending", "reset"}
  BY <1>1 DEF CopyInv, Sound, TypeOK, History, Status
<1>6. Adopt(mem[d], ledger)[a] \in {"pending", "reset"}
  BY <1>1, <1>4, <1>5 DEF Adopt
<1>7. now[d] - Day <= at[a]
  BY <1>1, LedgerAssumption DEF TypeOK, Time, NoTime
<1> QED
  BY <1>1, <1>6, <1>7 DEF Counted

LEMMA GrantBelowCap ==
  ASSUME LedgerInv, NEW d \in Daemons, Grant(d), Cap > 0
  PROVE  Cardinality({a \in Chargeable : at[a] <= now[d]}) < Cap
<1> DEFINE seen == {a \in Chargeable : at[a] <= now[d]}
           counted == Counted(Adopt(mem[d], ledger), now[d])
<1>1. seen \in SUBSET counted
  BY GrantSeesAll
<1>2. IsFiniteSet(counted)
  BY FS_Subset, LedgerAssumption DEF Counted
<1>3. Cardinality(counted) < Cap
  BY LedgerAssumption DEF Grant, CapAllows
<1>4. Cardinality(seen) <= Cardinality(counted) /\ IsFiniteSet(seen)
  BY <1>1, <1>2, FS_Subset
<1>5. Cardinality(seen) \in Nat /\ Cardinality(counted) \in Nat
  BY <1>2, <1>4, FS_CardinalityType
<1> QED
  BY <1>3, <1>4, <1>5, LedgerAssumption

(* A reservation is never granted at or above the cap, counting everything *)
(* stamped up to this tick (RedemptionJournal.reserve).                    *)
THEOREM GrantsStayWithinCap == Spec => GrantWithinCap
<1>1. LedgerInv /\ [Next]_vars =>
        [\A d \in Daemons : Grant(d) /\ Cap > 0 =>
            Cardinality({a \in Chargeable : at[a] <= now[d]}) < Cap]_vars
  BY GrantBelowCap
<1> QED
  BY <1>1, LedgerInductive, PTL DEF Spec, GrantWithinCap

(* A step after which fewer attempts count and fewer daemons are late      *)
(* leaves the budget intact.                                               *)
LEMMA ShrinkKeepsLateInv ==
  ASSUME LateInv, Chargeable' \subseteq Chargeable, Late' \subseteq Late
  PROVE  LateInv'
<1>1. Late \in SUBSET Daemons /\ Late' \in SUBSET Late
  BY DEF Late
<1>2. IsFiniteSet(Late) /\ IsFiniteSet(Late') /\ Cardinality(Late') <= Cardinality(Late)
  BY <1>1, FS_Subset, LedgerAssumption
<1>3. Cardinality(Chargeable') <= Cardinality(Chargeable)
  BY ChargeableFinite, FS_Subset
<1>4. /\ Cardinality(Late) \in Nat /\ Cardinality(Late') \in Nat
      /\ Cardinality(Daemons) \in Nat
  BY <1>2, FS_CardinalityType, LedgerAssumption
<1>5. Late' # Daemons
  BY <1>1 DEF LateInv
<1> QED
  BY <1>2, <1>3, <1>4, <1>5, ChargeableFinite, LedgerAssumption DEF LateInv

(* A granted reservation adds one attempt, and takes its daemon off the    *)
(* late ones; at or above the cap it had to be one of them.                *)
LEMMA GrantKeepsLateInv ==
  ASSUME LedgerInv, LateInv, NEW d \in Daemons, Grant(d)
  PROVE  LateInv'
<1> USE DEF LedgerInv
<1>1. PICK b \in Attempts :
          /\ truth[b] = "absent"
          /\ at' = [at EXCEPT ![b] = now[d]]
          /\ truth' = [truth EXCEPT ![b] = "pending"]
  BY DEF Grant
<1>2. /\ pc[d] = "loaded" /\ pc' = [pc EXCEPT ![d] = "reserved"]
      /\ now' = now /\ clock' = clock
  BY DEF Grant
<1>3. Chargeable' \subseteq Chargeable \cup {b}
  BY <1>1, <1>2 DEF Chargeable, TypeOK, History
<1>4. d \notin Late' /\ Late' \in SUBSET (Daemons \ {d})
  BY <1>2 DEF Late, TypeOK
<1>5. IsFiniteSet(Daemons \ {d}) /\ Cardinality(Daemons \ {d}) = Cardinality(Daemons) - 1
  BY FS_RemoveElement, LedgerAssumption
<1>6. IsFiniteSet(Late') /\ Cardinality(Late') <= Cardinality(Daemons) - 1
  BY <1>4, <1>5, FS_Subset
<1>7. Cardinality(Chargeable') <= Cardinality(Chargeable) + 1
  <2>1. /\ IsFiniteSet(Chargeable \cup {b})
        /\ Cardinality(Chargeable \cup {b}) \in
              {Cardinality(Chargeable), Cardinality(Chargeable) + 1}
    BY ChargeableFinite, FS_AddElement
  <2>2. Cardinality(Chargeable') <= Cardinality(Chargeable \cup {b})
    BY <1>3, <2>1, FS_Subset
  <2> QED
    BY <2>1, <2>2, ChargeableFinite
<1>8. Cardinality(Late') \in Nat /\ Cardinality(Daemons) \in Nat
  BY <1>6, FS_CardinalityType, LedgerAssumption
<1>9. CASE Cardinality(Chargeable) < Cap
  BY <1>4, <1>6, <1>7, <1>8, <1>9, ChargeableFinite, LedgerAssumption DEF LateInv
<1>10. CASE Cap > 0 /\ Cardinality(Chargeable) >= Cap
  <2> DEFINE seen == {a \in Chargeable : at[a] <= now[d]}
  <2>1. Cardinality(seen) < Cap
    BY <1>10, GrantBelowCap
  <2>2. seen # Chargeable
    BY <1>10, <2>1, ChargeableFinite, LedgerAssumption
  <2>3. PICK x \in Chargeable : at[x] > now[d]
    BY <2>2 DEF Chargeable, TypeOK, Time, NoTime
  <2>4. d \in Late
    BY <1>2, <2>3 DEF Late
  <2>5. x \in Attempts /\ at[x] \in Int /\ now[d] \in Nat
    BY <2>3 DEF Chargeable, TypeOK, Time, NoTime
  <2>6. ASSUME NEW e \in Late' PROVE e \in Late \ {d}
    <3>1. e \in Daemons /\ e # d /\ pc[e] \in {"woken", "loaded"}
      BY <1>2, <1>4 DEF Late, TypeOK
    <3>2. PICK y \in Chargeable' : at'[y] > now[e]
      BY <1>2 DEF Late
    <3>3. CASE y \in Chargeable
      <4>1. y # b /\ at'[y] = at[y]
        BY <1>1, <3>3 DEF Chargeable, TypeOK
      <4> QED
        BY <3>1, <3>2, <3>3, <4>1 DEF Late
    <3>4. CASE y = b
      <4>1. now[d] > now[e] /\ now[e] \in Nat
        BY <1>1, <3>1, <3>2, <3>4 DEF TypeOK
      <4>2. at[x] > now[e]
        BY <2>3, <2>5, <4>1
      <4> QED
        BY <2>3, <3>1, <4>2 DEF Late
    <3> QED
      BY <1>3, <3>3, <3>4
  <2>7. /\ IsFiniteSet(Late) /\ IsFiniteSet(Late \ {d})
        /\ Cardinality(Late \ {d}) = Cardinality(Late) - 1
    <3>1. Late \in SUBSET Daemons
      BY DEF Late
    <3>2. IsFiniteSet(Late)
      BY <3>1, FS_Subset, LedgerAssumption
    <3> QED
      BY <2>4, <3>2, FS_RemoveElement
  <2>8. Cardinality(Late') <= Cardinality(Late) - 1
    BY <2>6, <2>7, FS_Subset
  <2>9. Cardinality(Late) \in Nat
    BY <2>7, FS_CardinalityType
  <2>10. Cardinality(Chargeable) + Cardinality(Late) <= Cap + Cardinality(Daemons) - 1
    BY <1>10 DEF LateInv
  <2>11. Cardinality(Chargeable') + Cardinality(Late')
            <= Cap + Cardinality(Daemons) - 1
    BY <1>7, <1>8, <2>8, <2>9, <2>10, ChargeableFinite, LedgerAssumption
  <2> QED
    BY <1>4, <2>11 DEF LateInv
<1>11. CASE Cap = 0
  BY <1>4, <1>11 DEF LateInv
<1> QED
  BY <1>9, <1>10, <1>11, ChargeableFinite, LedgerAssumption

LEMMA LateStep == LedgerInv /\ LateInv /\ [Next]_vars => LateInv'
<1> SUFFICES ASSUME LedgerInv, LateInv, [Next]_vars PROVE LateInv'
  OBVIOUS
<1> USE DEF LedgerInv, shared, local, ghosts
<1>1. ASSUME NEW d \in Daemons,
             Start(d) \/ Reload(d) \/ ReloadFails(d) \/ NoRedemption(d) \/ Refuse(d)
               \/ RedeemFails(d) \/ Settle(d) \/ SettleBusy(d) \/ EndTick(d) \/ Crash(d)
      PROVE  LateInv'
  <2>1. UNCHANGED <<clock, at, truth>>
    BY <1>1 DEF Start, Reload, ReloadFails, NoRedemption, Refuse, RedeemFails,
                Settle, SettleBusy, EndTick, Crash
  <2>2. Chargeable' = Chargeable
    BY <2>1 DEF Chargeable
  <2>3. \A e \in Daemons : pc'[e] \in {"woken", "loaded"} =>
            pc[e] \in {"woken", "loaded"} /\ now'[e] = now[e]
    BY <1>1 DEF Start, Reload, ReloadFails, NoRedemption, Refuse, RedeemFails,
                Settle, SettleBusy, EndTick, Crash, TypeOK
  <2>4. Late' \subseteq Late
    BY <2>1, <2>2, <2>3 DEF Late
  <2> QED
    BY <2>2, <2>4, ShrinkKeepsLateInv
<1>2. ASSUME NEW d \in Daemons, Wake(d) PROVE LateInv'
  <2>1. Chargeable' = Chargeable /\ at' = at
    BY <1>2 DEF Wake, Chargeable
  <2>2. now'[d] = clock /\ \A e \in Daemons \ {d} : now'[e] = now[e] /\ pc'[e] = pc[e]
    BY <1>2 DEF Wake, TypeOK
  <2>3. d \notin Late'
    BY <2>1, <2>2 DEF Late, StampInv, Chargeable, TypeOK, Time, NoTime
  <2>4. Late' \subseteq Late
    BY <2>1, <2>2, <2>3 DEF Late
  <2> QED
    BY <2>1, <2>4, ShrinkKeepsLateInv
<1>3. ASSUME NEW d \in Daemons, Redeem(d) PROVE LateInv'
  <2>1. PICK o \in Outcomes : truth' = [truth EXCEPT ![current[d]] = o]
    BY <1>3 DEF Redeem
  <2>2. truth[current[d]] = "pending"
    BY <1>3 DEF Redeem, OwnerInv
  <2>3. Chargeable' \subseteq Chargeable /\ at' = at
    BY <1>3, <2>1, <2>2 DEF Redeem, Chargeable, TypeOK, History
  <2>4. Late' \subseteq Late
    BY <1>3, <2>3 DEF Redeem, Late, TypeOK
  <2> QED
    BY <2>3, <2>4, ShrinkKeepsLateInv
<1>4. ASSUME NEW d \in Daemons, Grant(d) PROVE LateInv'
  BY <1>4, GrantKeepsLateInv
<1>5. CASE Damage \/ Advance \/ UNCHANGED vars
  <2>1. /\ UNCHANGED <<pc, now, at, truth>>
        /\ clock' \in {clock, clock + 1}
    BY <1>5 DEF Damage, Advance, vars
  <2>2. Chargeable' \subseteq Chargeable
    BY <2>1, LedgerAssumption DEF Chargeable, TypeOK, Time, NoTime
  <2>3. Late' \subseteq Late
    BY <2>1, <2>2 DEF Late
  <2> QED
    BY <2>2, <2>3, ShrinkKeepsLateInv
<1> QED
  BY <1>1, <1>2, <1>3, <1>4, <1>5 DEF Next, Step

(* The daily total exceeds the cap by at most one attempt for each daemon  *)
(* but one: the price of stamping and counting with the tick's start       *)
(* (tick() passes its own `now' to reserve()).                             *)
THEOREM OvershootIsBounded == Spec => []OvershootBounded
<1>1. Init => LateInv
  <2> SUFFICES ASSUME Init PROVE LateInv
    OBVIOUS
  <2>1. Chargeable = {} /\ Late = {}
    BY DEF Init, Chargeable, Late
  <2>2. Cardinality(Chargeable) = 0
    BY <2>1, FS_EmptySet
  <2> QED
    BY <2>1, <2>2, LedgerAssumption DEF LateInv
<1>2. LateInv => OvershootBounded
  <2>1. Cardinality(Late) \in Nat /\ Cardinality(Daemons) \in Nat \ {0}
    <3>1. Late \in SUBSET Daemons
      BY DEF Late
    <3>2. IsFiniteSet(Late) /\ Cardinality(Daemons) # 0
      BY <3>1, FS_Subset, FS_EmptySet, LedgerAssumption
    <3> QED
      BY <3>2, FS_CardinalityType, LedgerAssumption
  <2> QED
    BY <2>1, ChargeableFinite, LedgerAssumption DEF LateInv, OvershootBounded
<1> QED
  BY <1>1, <1>2, LateStep, LedgerInductive, PTL DEF Spec

(* An outcome in the file is never replaced by a stale copy's "pending"    *)
(* (_merge_history).                                                       *)
THEOREM SettledStays == Spec => SettledIsFinal
<1> DEFINE A == \A a \in Attempts :
                  ledger[a] \in {"reset", "noCredit"} /\ readable' =>
                      ledger'[a] = ledger[a]
<1>1. LedgerInv /\ [Next]_vars => [A]_vars
  <2> SUFFICES ASSUME LedgerInv, Next, NEW a \in Attempts,
                      ledger[a] \in {"reset", "noCredit"}, readable'
               PROVE  ledger'[a] = ledger[a]
    OBVIOUS
  <2> USE DEF LedgerInv, TypeOK, shared
  <2>1. ASSUME NEW d \in Daemons, NEW h \in History,
               NEW stamps \in [Attempts -> Time], Save(d, h, stamps)
        PROVE  ledger'[a] = ledger[a]
    BY <2>1, SaveFacts DEF Later
  <2>2. ASSUME NEW d \in Daemons, Grant(d) PROVE ledger'[a] = ledger[a]
    <3>1. PICK b \in Attempts :
            /\ at' = [at EXCEPT ![b] = now[d]]
            /\ Save(d, [Adopt(mem[d], ledger) EXCEPT ![b] = "pending"], at')
      BY <2>2 DEF Grant
    <3>2. at' \in [Attempts -> Time]
      BY <3>1 DEF Time
    <3> QED
      BY <2>1, <3>1, <3>2, GrantCopyType
  <2>3. ASSUME NEW d \in Daemons, Settle(d) \/ EndTick(d)
        PROVE  ledger'[a] = ledger[a]
    BY <2>1, <2>3 DEF Settle, EndTick
  <2>4. ASSUME NEW d \in Daemons,
               Start(d) \/ Wake(d) \/ Reload(d) \/ ReloadFails(d) \/ NoRedemption(d)
                 \/ Refuse(d) \/ Redeem(d) \/ RedeemFails(d) \/ SettleBusy(d) \/ Crash(d)
        PROVE  ledger'[a] = ledger[a]
    BY <2>4 DEF Start, Wake, Reload, ReloadFails, NoRedemption, Refuse, Redeem,
                RedeemFails, SettleBusy, Crash
  <2>5. CASE Advance
    BY <2>5 DEF Advance
  <2>6. ASSUME Damage PROVE FALSE
    BY <2>6 DEF Damage
  <2> QED
    BY <2>2, <2>3, <2>4, <2>5, <2>6 DEF Next, Step
<1> QED
  BY <1>1, LedgerInductive, PTL DEF Spec, SettledIsFinal
=============================================================================
