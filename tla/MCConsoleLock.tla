---------------------------- MODULE MCConsoleLock ----------------------------
(* Instances of ConsoleLock for TLC.                                       *)
EXTENDS ConsoleLock, TLC

CONSTANTS c0, c1, t1, t2, t3

\* Two threads compete with kmain on its core, one prints from the other core
TwoAtHome == (t1 :> c0) @@ (t2 :> c0) @@ (t3 :> c1)

\* One core
AtHome == (t1 :> c0) @@ (t2 :> c0)
=============================================================================
