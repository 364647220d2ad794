SPECIFICATION FairSpec
CONSTANTS
  c1 = c1
  old = old
  new = new
  bad = bad
  Conns = {c1}
  Configs = {old, new}
  Bad = bad
  MaxEdits = 2
  MaxOther = 1
  QueueCap = 1
  Users = {"ann"}
  Passwords = {"p1"}
  Cmds = {"show"}
  Knows <- MCKnows
  Authenticates <- MCAuthenticates
  Permits <- MCPermits
  Sinks = {"none", "file", "syslog"}
  MaxRecords = 1
  MaxRestarts = 1
INVARIANTS
  TypeOK
  VerdictWasInForce
  RulesCoverLogin
  RulesAndUsersAgree
  
CHECK_DEADLOCK FALSE
PROPERTIES
  ChangeGetsIntoForce
