\* The contract of spin_unlock on the Zynq port
CONSTANTS
    Cpus = {c0, c1}
    Port = "arm32"
SPECIFICATION FairSpec
PROPERTIES InterruptsRestored
CHECK_DEADLOCK FALSE
