----------------------------- MODULE PlanTable -----------------------------
(***************************************************************************)
(* What requests of tenants rely on about the table plans, however the     *)
(* saves of administrators interleave: a plan stays once it is there, it   *)
(* stays with its product, and no product has two free plans.  Anything    *)
(* else about a plan may change at any time, the free plan's being active  *)
(* included.                                                               *)
(***************************************************************************)
CONSTANTS Plans, Products, None

VARIABLE table  \* for each plan its product and whether its slug is "free", or None

Row == [product: Products, free: BOOLEAN]

\* The plan that row would be its product's second free plan.
Second(p, row) ==
  /\ row.free
  /\ \E q \in Plans \ {p} :
       table[q] # None /\ table[q].product = row.product /\ table[q].free

Init ==
  /\ table \in [Plans -> Row \cup {None}]
  /\ \A p \in Plans : table[p] # None => ~Second(p, table[p])

Allowed(p, row) ==
  /\ table[p] # None => row.product = table[p].product
  /\ ~Second(p, row)

Save(p, row) == Allowed(p, row) /\ table' = [table EXCEPT ![p] = row]

Next == \E p \in Plans, row \in Row : Save(p, row)

Spec == Init /\ [][Next]_table
=============================================================================
