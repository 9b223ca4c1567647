\* A rotation, two batches one after the other, and a caller; callers hold nothing up.
SPECIFICATION FairSpec
CONSTANTS
  None = None
  x1 = x1
  x2 = x2
  x3 = x3
  Products = {x1, x2, x3}
  Admins = {a1}
  Batches = {b1, b2}
  Callers = {c1}
  InitialHash <- StartHash
INVARIANTS
  IInv
  OldTokensRefused
  NoTokenLost
PROPERTIES
  IssuesEnd
