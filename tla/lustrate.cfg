SPECIFICATION Spec
CONSTANTS
  etc = etc log = log passwd = passwd hosts = hosts logFile = logFile
  None = None Hollow = Hollow
  Names = {etc, log}
  Paths = {passwd, hosts, logFile}
  Top <- InEtc
  Plain = {log}
  Keepers <- SomeKeepers
  MaxStops = 2 MaxFaults = 1 MaxRequests = 2 MaxRescues = 1 MaxWrites = 2
INVARIANTS NothingLost LustrateComplete RetriesBeforePromotion
PROPERTIES OldRootKept
CHECK_DEADLOCK FALSE
