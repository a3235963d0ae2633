CONSTANTS
  Cpus = {"bsp", "ap"}
  First = "bsp"
  Reaper = "reaper"
  Kernel = {"worker", "second"}
  Apps = {"app"}
  Unborn = {"second"}
  Boot <- BootThreads
  Home <- Homes
  Callers = {c1, c2}
  Zones <- TheZones
  Regions <- TheRegions
  MaxOrder = 4
  ByteBits = 2
  Counts = {1, 2, 3}
  None = None
  Unlocked = Unlocked
  Slots = 4
  StackPages = 2
  SectionPages = 4
  TableCounts = {1, 2, 3, 4}
  Kinds = {"unmapped", "ap_none"}
  Procs = {p1, p2}
  Addresses = {1, 2, 3, 4}
  MaxFds = 1
SPECIFICATION FamilySpec
SYMMETRY Sym
CHECK_DEADLOCK FALSE
INVARIANTS
  FramesAccounted FullyMerged BitsOfOwners
  GuardsHold FailuresLeaveNoTrace
  NodesAlive
  SchedulingComesBack SleepersKeepTheirTime
