\* A plan is deactivated by a save that has read it before it got the slug free.
SPECIFICATION Spec
CONSTANTS
  None = None
  Requests = {r1, r2, r3}
  x1 = x1
  x2 = x2
  p1 = p1
  p2 = p2
  p3 = p3
  p4 = p4
  Free = free
  Pro = pro
  basic = basic
  full = basic
  Products = {x1}
  Plans = {p1, p2}
  Slugs = {free, pro, other}
  Terms = {basic}
  FreeTerms = basic
  InitialProducts <- StartProducts
  InitialPlans <- StartPlans
PROPERTIES
  FreeStaysActive
