------------------------ MODULE MCRedemptionLedger ------------------------
(* Small instances of RedemptionLedger for TLC.                            *)
EXTENDS RedemptionLedger, TLC

(* Neither the daemons nor the attempts are told apart by anything but     *)
(* their identity, and no property is a liveness property.                 *)
Symmetry == Permutations(Daemons) \cup Permutations(Attempts)
=============================================================================
