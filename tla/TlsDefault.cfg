SPECIFICATION Spec
CONSTANTS
  c1 = c1
  c2 = c2
  u1 = u1
  u2 = u2
  Conns = {c1}
  SessionIDs = {1}
  Starts = {u1}
  SeqMod = 6
  TTL = 1
  IdsOf <- OneId
  InboundSeqs = {1, 3}
  HdrFlags <- AllFlags
  PacketTypes = {"authen"}
  Decisions = {"PASS", "GETPASS"}
  ProviderModes = {"legacy"}
  CfgMode = "tls"
  CfgAllowUnencrypted = FALSE
INVARIANT
  ProtectionEnforced
