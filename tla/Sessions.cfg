SPECIFICATION MCSpec
CONSTANTS
  op = op
  tab = tab
  n1 = n1
  n2 = n2
  p1 = p1
  p2 = p2
  Clients = {op, tab}
  Operators = {op}
  Usernames = {n1, n2}
  Passwords = {p1, p2}
  NoUser = NoUser
  NoSession = NoSession
  BootstrapConfigured = TRUE
  BootstrapName = n1
  BootstrapPassword = p1
  MaxFailedAttempts = 2
  MayRehash = TRUE
  Calls <- TabCalls
  MaxUsers = 3
  MaxVersion = 2
INVARIANTS
  SessionsTypeOK
  NoPendingSession
  TableHasAdmin
PROPERTIES
  TargetKeepsItsName
  SessionOfItsAccount
  ImplementsRegistry
  LastAdminStays
  FinalWhileApart
CHECK_DEADLOCK FALSE
