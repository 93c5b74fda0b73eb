------------------------------- MODULE Policy -------------------------------
(***************************************************************************)
(* What the daemon and `codexswap switch' decide with: strategy.py,        *)
(* resets.decide, switcher.pick_target, and the readings of models.py.     *)
(*                                                                         *)
(* A percentage is a number, or Unknown, which is less than all of them.   *)
(* A candidate is a slot with the percentage that was read of it.  A reset *)
(* credit has the days it has left; one that never expires has NoExpiry,   *)
(* which is more than any setting asks for, and one with none left is      *)
(* expired whatever the server said when it was read.                      *)
(***************************************************************************)
EXTENDS Integers, FiniteSetsExt

CONSTANTS
    Threshold,   \* autoswitch.threshold
    Hysteresis,  \* autoswitch.hysteresisPct
    MinUsage,    \* reset.minUsagePercent
    ExpiryDays,  \* reset.expiryDays
    NoExpiry

Unknown == -1
NoSlot == 0
Policies == {"never", "expiring", "exhausted", "always", "invalid"}
Strategies == {"best", "next-available"}
NoCredit == [available |-> FALSE, left |-> 0]

ASSUME PolicyAssumption ==
    /\ Threshold \in 1..100 /\ Hysteresis \in 0..50 /\ MinUsage \in 0..100
    /\ ExpiryDays \in 0..30 /\ NoExpiry \in Nat /\ NoExpiry > ExpiryDays

-----------------------------------------------------------------------------
(* binding_percent and percent_for: the worst of what is known.            *)
Worst(percents) == Max(percents \cup {Unknown})

(* As if a target only had to be below the threshold.                      *)
BelowThreshold(c) == c.percent < Threshold
Eligible(c) == c.percent = Unknown \/ c.percent <= Threshold - Hysteresis

(* rotate_next: the next slot after the current one, or the first one.     *)
RotateNext(slots, current) ==
    LET others == slots \ {current}
        after == {s \in others : s > current}
    IN  CASE others = {} -> NoSlot
          [] after # {} /\ current # NoSlot -> Min(after)
          [] OTHER -> Min(others)

(* The order of `best': least used first, unknown usage last, then by slot.*)
Better(c, d) ==
    \/ c.percent # Unknown /\ (d.percent = Unknown \/ c.percent < d.percent)
    \/ c.percent = d.percent /\ c.slot < d.slot

PickTarget(candidates, current, strategy) ==
    LET available == {c \in candidates : c.slot # current /\ Eligible(c)}
        slots == {c.slot : c \in available}
        best == CHOOSE c \in available :
                   \A d \in available \ {c} : Better(c, d)
    IN  IF available = {} THEN NoSlot
        ELSE IF strategy = "best" THEN best.slot
        ELSE RotateNext(slots, current)

(* switcher.pick_target: API keys only if no other account qualifies.      *)
PickOrdinary(candidates, keys, current, strategy) ==
    LET ordinary == {c \in candidates :
                        c.slot \notin keys \cup {current} /\ Eligible(c)}
    IN  PickTarget(IF ordinary = {} THEN candidates ELSE ordinary,
                   current, strategy)

-----------------------------------------------------------------------------
(* soonest_expiring_credit, of those that are usable now.                  *)
Usable(k) == k.available /\ k.left > 0
SoonestExpiring(credits) ==
    LET usable == {k \in credits : Usable(k)}
    IN  IF usable = {} THEN NoCredit
        ELSE CHOOSE k \in usable : \A j \in usable : k.left <= j.left

(* As if the days were not compared with the setting.                      *)
AnyDay(credits) == SoonestExpiring(credits) # NoCredit
ExpiringSoon(credits) ==
    LET credit == SoonestExpiring(credits)
    IN  credit # NoCredit /\ credit.left <= ExpiryDays

(* decide: whether to redeem.  `capped' is the daily cap being reached,    *)
(* `alternatives' another account having headroom.  With "exhausted" and   *)
(* "always" the answer may be yes when all the credits are expired.        *)
ShouldRedeem(policy, credits, percent, capped, alternatives) ==
    /\ \E k \in credits : k.available
    /\ ~capped
    /\ percent # Unknown /\ percent >= MinUsage
    /\ \/ policy = "expiring" /\ ExpiringSoon(credits)
       \/ policy = "exhausted" /\ ~alternatives
       \/ policy = "always"
=============================================================================
