\* Progress of three forms; new products take one id and one slug.
SPECIFICATION FairSpec
CONSTANTS
  None = None
  Requests = {r1, r2, r3}
  x1 = x1
  x2 = x2
  p1 = p1
  p2 = p2
  p3 = p3
  p4 = p4
  Free = free
  Pro = pro
  basic = basic
  full = basic
  Products = {x1, x2}
  Plans = {p1, p2, p3}
  Slugs = {free, pro}
  Terms = {basic}
  FreeTerms = basic
  InitialProducts <- StartProducts
  InitialPlans <- StartPlans
PROPERTIES
  SavesEnd
