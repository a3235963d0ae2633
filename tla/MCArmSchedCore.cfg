\* One core: a thread that sleeps and yields, and two that only exit
CONSTANTS
    t1 = t1
    t2 = t2
    t3 = t3
    Slice = 2
    NCpu = 1
    Threads = {t1, t2, t3}
    AppThreads = {}
    Created = {t1, t2, t3}
    NoTask = NoTask
    Does <- HabitsDo
    Durations = {1, 2}
    VrCap = 6
SPECIFICATION Spec
INVARIANTS LagBounded
PROPERTIES DeathIsFinal IdleOnlyWithoutWork
