\* Four requests of a user: logins, refreshes and logouts in any mix.
SPECIFICATION FairSpec
CONSTANTS
  None = None
  Requests <- First
  Users = {u1}
  Lifetime = 1
  MaxTime = 2
ACTION_CONSTRAINT NamedInOrder
INVARIANTS
  IInv
  Rotation
  LogoutReaches
  SomeoneGoesOn
PROPERTIES
  RequestsEnd
  RevokedOnce
  ImplementsSessions
