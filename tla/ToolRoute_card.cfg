SPECIFICATION Spec
CONSTANTS
  None = None
  HostNative = HostNative
  Installed <- MCInstalled
  Edits <- MCEdits
  MaxEdits = 2
  Rank <- MCRank
  ProviderCap = 1
  Bindings <- MCBindings
  Requests <- MCRequests
  Endpoints = {"e1", "e2"}
  MaxConsumes = 1
  MaxLaunches = 2
INVARIANTS
  RemoteRunsItsCard
CHECK_DEADLOCK FALSE
