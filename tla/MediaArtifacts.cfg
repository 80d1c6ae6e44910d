SPECIFICATION Spec
CONSTANTS
  a1 = a1
  a2 = a2
  x1 = x1
  u1 = u1
  c1 = c1
  o1 = o1
  d1 = d1
  d2 = d2
  Artifacts <- MCArtifacts
  Old <- MCOld
  Uses <- MCUses
  Cleanups <- MCCleanups
  Owners <- MCOwners
  Devices <- MCDevices
  Ttl = 1
  Lease = 1
  MaxTime = 1
  None = None
  HistoryLimit = 1
  BatchSize = 1
  MaxThumbs = 1
  MaxGen = 2
  MaxLists = 1
  MaxFaults = 1
SYMMETRY Symmetry
INVARIANTS
  CopyIsKept
  ClaimableIsKnown
  CatalogueIsOfDevice
