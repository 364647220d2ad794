SPECIFICATION Spec
CONSTANTS
  c1 = c1
  c2 = c2
  u1 = u1
  u2 = u2
  Conns = {c1, c2}
  SessionIDs = {1}
  Starts = {u1, u2}
  SeqMod = 6
  TTL = 1
  IdsOf <- SharedIds
  InboundSeqs = {1, 2, 3, 5}
  HdrFlags <- Plain
  PacketTypes = {"authen"}
  Decisions = {"PASS", "GETPASS"}
  ProviderModes = {"legacy"}
  CfgMode = "legacy"
  CfgAllowUnencrypted = FALSE
INVARIANTS
  TypeOK
  ActiveGaugeExact
  RegisteredSeqEven
  AuthenRepliesEven
