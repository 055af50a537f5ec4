SPECIFICATION Spec
CONSTANTS
  etc = etc log = log passwd = passwd hosts = hosts logFile = logFile
  None = None Hollow = Hollow
  Names = {etc, log}
  Paths = {passwd, hosts, logFile}
  Top <- InEtc
  Plain = {log}
  Keepers <- OnlyEtc
  MaxStops = 1 MaxFaults = 0 MaxRequests = 1 MaxRescues = 0 MaxWrites = 0
INVARIANT Retries
CHECK_DEADLOCK FALSE
