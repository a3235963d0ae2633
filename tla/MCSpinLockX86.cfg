\* include/cpu/lock.h on two cores
CONSTANTS
    Cpus = {c0, c1}
    Port = "x86"
SPECIFICATION FairSpec
INVARIANTS MutualExclusion HolderNotInterrupted
PROPERTIES InterruptsRestored LockProgress
