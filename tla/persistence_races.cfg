SPECIFICATION Spec
CONSTANTS
  dir = dir inner = inner beside = beside
  s1 = s1 s2 = s2 s3 = s3 o1 = o1 o2 = o2
  Root = Root Foreign = Foreign Nil = Nil
  Targets = {dir, beside}
  Sources = {s1, s2}
  Options = {o1, o2}
  Below <- NoPairs
  Plans <- FlatPlans
  Preexisting <- BesideFile
  FaultKinds = {"umount", "rename", "unlink", "mount", "apply", "write"}
  IdleActs = {"link", "mount", "umount", "write"}
  BusyActs = {"link", "write"}
  MaxRuns = 3 MaxFaults = 1 MaxCrashes = 1 MaxReboots = 1 MaxActs = 2
INVARIANTS RetryCompletes
PROPERTIES HiddenTargetsSurvive QuarantineGivesBack ForeignMountsKept
CHECK_DEADLOCK FALSE
