\* Is the end of the period still ahead when a downgrade is scheduled?
SPECIFICATION Spec
CONSTANTS
  None = None
  Tenants = {t1}
  Requests = {r1, r2, r3}
  Products <- MCProducts
  Plans <- MCPlans
  ProductOf <- MCProductOf
  InitialCatalogue <- MCCatalogue
  Period = 1
  MaxTime = 2
  MaxEdits = 0
  MaxPosition = 2
PROPERTIES
  ScheduledAhead
