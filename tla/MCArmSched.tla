----------------------------- MODULE MCArmSched -----------------------------
(* Instances of ArmSched for TLC.                                          *)
EXTENDS ArmSched, TLC

CONSTANTS t1, t2, t3

\* Two cores: kmain creates a thread, in a window or not
BootDo == (0 :> {"create", "disable", "sleep"}) @@ (1 :> {}) @@ (t1 :> {"sleep"}) @@ (t2 :> {"sleep", "exit"})

\* One core: threads of every habit
HabitsDo == (0 :> {}) @@ (t1 :> {"sleep", "yield"}) @@ (t2 :> {"exit"}) @@ (t3 :> {"exit"})

\* One core: t1 and t2 sleep now and then, t3 never does
MixedDo == (0 :> {}) @@ (t1 :> {"sleep"}) @@ (t2 :> {"sleep"}) @@ (t3 :> {})
=============================================================================
