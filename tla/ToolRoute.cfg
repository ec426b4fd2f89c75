SPECIFICATION Spec
CONSTANTS
  None = None
  HostNative = HostNative
  Installed <- MCInstalled
  Edits <- MCEdits
  MaxEdits = 2
  Rank <- MCRank
  ProviderCap = 1
  Bindings <- MCBindings
  Requests <- MCRequests
  Endpoints = {"e1", "e2"}
  MaxConsumes = 2
  MaxLaunches = 2
INVARIANTS
  LaunchedAsSigned
  FamiliesDiffer
  AcceptedAsAttested
CHECK_DEADLOCK FALSE
