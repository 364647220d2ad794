SPECIFICATION Spec
CONSTANTS
  c1 = c1
  c2 = c2
  Conns = {c1, c2}
  MaxConns = 1
  FdLimit = 2
INVARIANT
  ListenerOutlivesErrors
CHECK_DEADLOCK FALSE
