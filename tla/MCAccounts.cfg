\* Three requests for one mailbox, two connections, two attempts per window of 2.
SPECIFICATION FairSpec
CONSTANTS
  m1 = m1
  p1 = p1
  p2 = p2
  h1 = h1
  Requests <- First
  Mailboxes <- MCMailboxes
  Passwords <- MCPasswords
  Hosts <- MCHosts
  Keys <- MCKeys
  PoolSize = 2
  Limit = 2
  Window = 2
  MaxTime = 2
  None = None
ACTION_CONSTRAINT NamedInOrder
INVARIANTS
  Consistent
  AnswersHold
  SomeoneGoesOn
  WindowHolds
PROPERTIES
  PasswordKept
  ImplementsWindow
  RequestsEnd
