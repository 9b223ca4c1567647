\* Does a logout end the sessions it has found?
SPECIFICATION Spec
CONSTANTS
  None = None
  Requests = {r1, r2, r3}
  Users = {u1}
  Lifetime = 1
  MaxTime = 2
INVARIANTS
  LogoutEndsSessions
