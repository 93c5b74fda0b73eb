----------------------------- MODULE MCSwitcher -----------------------------
(* A small instance of Switcher for TLC.                                   *)
EXTENDS Switcher, TLC

(* Processes and accounts are interchangeable; slots are ordered.          *)
Symmetry == Permutations(Processes) \cup Permutations(Accounts)

(* While activeSlot is adrift nothing asks for its value.                  *)
View == <<disk, IF adrift THEN 0 ELSE active, adrift, newest, lock, pc, local>>
=============================================================================
