\* A rotation while a batch goes through its list.
SPECIFICATION Spec
CONSTANTS
  None = None
  x1 = x1
  x2 = x2
  x3 = x3
  Products = {x1, x2, x3}
  Admins = {a1}
  Batches = {b1}
  Callers = {c1}
  InitialHash <- StartHash
PROPERTIES
  BatchIssuesMissing
