CONSTANTS
  Peer = {p1, p2}
  Default = p1
  Hosts = 2
  MaxPeers = 2
  MaxKeys = 3
  Tasks = {t1, t2}
  Ingress = {wg0}
  Accounts = {a1, a2}
  Valid = {a1}
  Profiles = {f1, f2}
  None = None
SPECIFICATION DataplaneSpec
CHECK_DEADLOCK FALSE
INVARIANTS
  PartsTypeOK
  Agreement
  PeersKept
  PolicyIsCurrent
  RowKnowsTunnel
  LoginLeavesNothing
PROPERTIES
  NoRetiredServed
  BackupCoherent
  PolicyStepsAreSafe
  EgressStaysGuarded
  ProfilesKept
  
  DiagnosesAreKept
