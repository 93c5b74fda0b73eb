----------------------------- MODULE MCReadings -----------------------------
(* A small instance of Readings for TLC.                                   *)
EXTENDS Readings, TLC

CONSTANTS plain, nameless

(* The server names the plain account, or does not; it names the other     *)
(* one, whose login does not.                                              *)
SomeNames == plain :> {plain, NoAccount} @@ nameless :> {nameless}

(* Two accounts, or one and a free slot.                                   *)
SomeEnrolled == {<<plain, nameless>>, <<plain, NoAccount>>}

(* Commands are interchangeable; the accounts are not.                     *)
Symmetry == Permutations(Commands)
=============================================================================
