\* Three transactions of one tenant while an administrator saves a plan.
SPECIFICATION FairSpec
CONSTANTS
  None = None
  Tenants = {t1}
  Requests <- First
  Products <- MCProducts
  Plans <- MCPlans
  ProductOf <- MCProductOf
  InitialCatalogue <- MCCatalogue
  Period = 1
  MaxTime = 2
  MaxEdits = 1
  MaxPosition = 0
ACTION_CONSTRAINTS
  NamedInOrder
  RenamedFew
INVARIANTS
  IInv
  NoLostUpdate
  AuditExplainsRow
  AuditReplayable
  AuditInOrder
  PendingIsBelow
  OwnProduct
PROPERTIES
  NeverEarly
  ImplementsLedger
  RequestsEnd
  DueIsSettled
