\* kmain, two threads of its core and one of the other core print; kmain
\* exchanges the mutex for sched_disable once and back
CONSTANTS
    c0 = c0
    c1 = c1
    t1 = t1
    t2 = t2
    t3 = t3
    Kmain = Kmain
    NoTask = NoTask
    Cpus = {c0, c1}
    Threads = {t1, t2, t3}
    Home <- TwoAtHome
    BootCpu = c0
    MaxNest = 2
SPECIFICATION FairSpec
INVARIANTS RegionsExclusive
PROPERTIES HolderReleases
