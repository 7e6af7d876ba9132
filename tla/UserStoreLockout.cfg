SPECIFICATION Spec
CONSTANTS
  op = op
  tab = tab
  n1 = n1
  n2 = n2
  p1 = p1
  p2 = p2
  Clients = {op, tab}
  Operators = {op}
  Usernames = {n1, n2}
  Passwords = {p1, p2}
  NoUser = NoUser
  MaxFailedAttempts = 2
  MayRehash = TRUE
  Calls <- SignInCalls
  MaxUsers = 2
  MaxVersion = 2
PROPERTY
  EveryMissCounts
CHECK_DEADLOCK FALSE
