\* One core, two threads that sleep now and then and one that never does
CONSTANTS
    t1 = t1
    t2 = t2
    t3 = t3
    Slice = 2
    NCpu = 1
    Threads = {t1, t2, t3}
    AppThreads = {}
    Created = {t1, t2, t3}
    NoTask = NoTask
    Does <- MixedDo
    Durations = {1}
    VrCap = 2
SPECIFICATION FairSpec
PROPERTIES NoStarvation
