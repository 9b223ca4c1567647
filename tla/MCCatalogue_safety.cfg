\* Three forms sent at once: edits of either plan, new plans, new products.
SPECIFICATION Spec
CONSTANTS
  None = None
  Requests = {r1, r2, r3}
  x1 = x1
  x2 = x2
  p1 = p1
  p2 = p2
  p3 = p3
  p4 = p4
  Free = free
  Pro = pro
  basic = basic
  full = full
  Products = {x1, x2}
  Plans = {p1, p2, p3, p4}
  Slugs = {free, pro, other}
  Terms = {basic, full}
  FreeTerms = basic
  InitialProducts <- StartProducts
  InitialPlans <- StartPlans
SYMMETRY Interchangeable
INVARIANTS
  IInv
  ProductsComplete
  FreePlanAvailable
PROPERTIES
  SavesMerge
  ImplementsPlanTable
