\* Two cores; kmain creates one more thread while the second core boots
CONSTANTS
    t1 = t1
    t2 = t2
    t3 = t3
    Slice = 2
    NCpu = 2
    Threads = {t1, t2}
    AppThreads = {}
    Created = {t1}
    NoTask = NoTask
    Does <- BootDo
    Durations = {1}
    VrCap = 1
SPECIFICATION Spec
INVARIANTS RunningIsCurrent RosterExact NoRefusedSwitch OnlineMeansReady WindowHolds SleepNotCutShort
