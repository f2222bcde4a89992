SPECIFICATION FairSpec
CONSTANTS
  Connections = {c1}
  Clients = {k1, k2}
  Scratchpads = {s1}
  MaxQueue = 2
  MaxProbes = 1
  None = None
INVARIANTS
  ConnectedIsKept
  NoSessionLeft
  ChangeUndisturbed
  CapabilityOfLiveSession
PROPERTIES
  LeaseGivenBack
