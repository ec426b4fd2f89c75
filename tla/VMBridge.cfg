SPECIFICATION ProbeSpec
CONSTANTS
  l1 = l1  l2 = l2  c1 = c1  c2 = c2
  Launches <- MCLaunches
  Faulty <- MCFaulty
  Conns <- MCConns
  LastVersion = 2
  Generators <- MCGenerators
  NoLaunch = NoLaunch
  Slots = 1
  Budget = 1
CHECK_DEADLOCK FALSE
INVARIANTS
  PassedIsPinned
  ReturnedLeavesNothing
  EgressIsTheHolders
  CredentialStaysInLease
PROPERTIES
  AcceptedAsCommissioned
  LaunchEnds
