----------------------------- MODULE MCSettings -----------------------------
(* A small instance of Settings for TLC: three keys, two in one section.   *)
EXTENDS Settings, TLC

CONSTANTS policy, days, threshold, reset, autoswitch

Sections == (policy :> reset) @@ (days :> reset) @@ (threshold :> autoswitch)

(* Only one section gets unknown fields, only its keys bad values.         *)
Plausible(f) == f.foreign \subseteq {reset} /\ f.entry[threshold] # Bad

CommandSymmetry == Permutations(Commands)
=============================================================================
