SPECIFICATION FairSpec
CONSTANTS
  c1 = c1
  c2 = c2
  u1 = u1
  u2 = u2
  Conns = {c1}
  SessionIDs = {1, 2}
  Starts = {u1}
  SeqMod = 4
  TTL = 1
  IdsOf <- MultiplexedIds
  InboundSeqs = {1, 2, 3}
  HdrFlags <- AllFlags
  PacketTypes = {"authen", "author", "acct", "unknown"}
  Decisions = {"PASS", "FAIL", "ERROR", "GETUSER", "GETPASS", "GETDATA", "RESTART", "FOLLOW"}
  ProviderModes = {"legacy", "tls"}
  CfgMode = "legacy"
  CfgAllowUnencrypted = FALSE
INVARIANTS
  ProtectionEnforced
PROPERTIES
  IdleSessionReclaimed
