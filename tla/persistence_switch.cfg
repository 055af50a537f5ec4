SPECIFICATION FairSpec
CONSTANTS
  dir = dir inner = inner beside = beside
  s1 = s1 s2 = s2 s3 = s3 o1 = o1 o2 = o2
  Root = Root Foreign = Foreign Nil = Nil
  Targets = {dir, inner}
  Sources = {s1, s2, s3}
  Options = {o1, o2}
  Below <- NestedBelow
  Plans <- NestedPlans
  Preexisting <- RootDir
  FaultKinds = {"umount", "forget", "rename", "unlink", "stores", "prepare", "link", "apply", "write"}
  IdleActs = {}
  BusyActs = {}
  MaxRuns = 3 MaxFaults = 1 MaxCrashes = 0 MaxReboots = 0 MaxActs = 0
INVARIANTS TypeOK PlanOrRecorded OneFaultIsRestored NeverBusyOfItself NoOrphanPlaceholder
PROPERTIES RunsEnd ImplementsAtomicSwitch
CHECK_DEADLOCK FALSE
