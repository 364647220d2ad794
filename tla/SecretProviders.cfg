SPECIFICATION FairSpec
CONSTANTS
  c1 = c1
  r1 = r1
  r2 = r2
  Conns = {c1}
  Refreshers = {r1, r2}
  Hosts <- MCHosts
  Answer <- MCAnswer
  MaxVersion <- MCMaxVersion
  HostSecret <- MCHostSecret
  Addresses <- MCAddresses
  PrefixConfigs <- MCPrefixConfigs
  Rejected = "rejected"
  Default = "rejected"
INVARIANTS
  GetAnswersOneMoment
PROPERTIES
  RefreshNeverGoesBack
  GetReturns
