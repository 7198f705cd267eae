CONSTANTS
  g0 = g0
  g1 = g1
  g2 = g2
  Generation <- MCGeneration
  Configured <- MCConfigured
  Fresh = g0
  Absent = Absent
  Torn = Torn
  Faults = {"crash", "raise", "late_raise", "torn_snapshot", "hot_database", "worker"}
  MaxFaults = 3
  Clients = {c1, c2}
  None = None
SPECIFICATION ApplianceSpec
SYMMETRY Symmetry
CHECK_DEADLOCK FALSE
INVARIANTS
  PartsTypeOK
  ForwardsCoherentState
  
  IngressIsWhole
  RestoreIsWhole
  
  
  
PROPERTIES
  ImplementsAtomicVolume
  CreatedAsConfirmed
  ReleaseIsVerified
