SPECIFICATION ClientFairSpec
CONSTANTS
  c1 = c1
  c2 = c2
  u1 = u1
  Conns = {c1}
  SessionIDs = {1}
  Starts = {u1}
  SeqMod = 8
  TTL = 1
  IdsOf <- OneId
  InboundSeqs = {1, 3, 5, 7}
  HdrFlags <- BothFlags
  PacketTypes = {"authen", "author", "acct"}
  Decisions = {"PASS", "GETPASS", "RESTART", "FOLLOW"}
  ProviderModes = {"legacy", "tls"}
  CfgMode = "legacy"
  CfgAllowUnencrypted = FALSE
  Calls = {"authen", "author", "acct"}
  AuthenOnce = TRUE
INVARIANTS
  ClientTypeOK
  
  AnswerExpected
  ClientKeepsRules
  VerdictEndsSession
  NoMutualWait
PROPERTIES
  ClientSeqNeverWraps
  CallReturns
