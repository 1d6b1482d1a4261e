SPECIFICATION AlertsFairSpec
CONSTANTS
  Clients = {ethrex1}
  Others = {geth1, geth2}
  Forks = {a, b}
  MaxHead = 2
  ForkConfirm = 2
  OfflineConfirm = 2
  LagThreshold = 1
  MaxTickKills = 1
INVARIANT ToldIsState
PROPERTIES AlertsConfirmed MajorityIsCanonical OfflineReported
