\* One core: kmain and two threads print while kmain exchanges the mutex for
\* sched_disable and back
CONSTANTS
    c0 = c0
    c1 = c1
    t1 = t1
    t2 = t2
    t3 = t3
    Kmain = Kmain
    NoTask = NoTask
    Cpus = {c0}
    Threads = {t1, t2}
    Home <- AtHome
    BootCpu = c0
    MaxNest = 2
SPECIFICATION Spec
INVARIANTS LockNotAbandoned
