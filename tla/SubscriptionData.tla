------------------------- MODULE SubscriptionData -------------------------
(***************************************************************************)
(* The tables of the subscription service (app/models/subscription.py and  *)
(* app/models/tenant.py) as sets of records, and what the audit log of a   *)
(* subscription says about its row.  Shared by the detailed specification  *)
(* (Subscriptions) and the abstract one (SubscriptionLedger).              *)
(*                                                                         *)
(* Left out of the rows: names, prices, currency, features, status, the    *)
(* Stripe columns and current_period_start, none of which decides          *)
(* anything.  A slug only matters for being "free" or not.                 *)
(***************************************************************************)
EXTENDS Naturals, Sequences

CONSTANTS
  Tenants,      \* ids of tenants; each has one subscription row
  Products,     \* ids of products
  Plans,        \* ids of plans
  ProductOf,    \* plans.product_id, which no code path ever updates
  Period,       \* the 30 days of a billing period, in ticks
  None          \* SQL NULL, or the absence of a row

ASSUME DataAssumption ==
  /\ ProductOf \in [Plans -> Products]
  /\ Period \in Nat \ {0}
  /\ None \notin Plans \cup Products \cup Tenants \cup Nat

---------------------------------------------------------------------------
(* Rows *)

\* A row of plans.  free stands for slug = "free".
PlanRow == [position: Nat, active: BOOLEAN, free: BOOLEAN]

\* A row of subscriptions; end is current_period_end.
SubRow == [plan: Plans, pending: Plans \cup {None}, end: Nat]

EventTypes == {"created", "upgraded", "downgrade_scheduled", "downgraded"}

\* A row of subscription_events.  from and to are the plan ids of the payload:
\* "created" has only to, and "downgraded" records slugs and no id at all.
EventRow == [type: EventTypes, from: Plans \cup {None}, to: Plans \cup {None},
             effective: Nat \cup {None}, created: Nat]

CreatedEvent(p, at) ==
  [type |-> "created", from |-> None, to |-> p, effective |-> None, created |-> at]

ChangeEvent(type, p, q, effective, at) ==
  [type |-> type, from |-> p, to |-> q, effective |-> effective, created |-> at]

DowngradedEvent(at) ==
  [type |-> "downgraded", from |-> None, to |-> None, effective |-> None, created |-> at]

\* The row of a new subscription: 30 days on the plan it starts with.
NewRow(p, now) == [plan |-> p, pending |-> None, end |-> now + Period]

\* Slips in Due: the date is not looked at, or the boundary is missed.
DueAtAnyTime(row, now) == row.pending # None
DueStrictly(row, now) == row.pending # None /\ row.end < now

\* The condition under which a read applies the scheduled downgrade.
Due(row, now) == row.pending # None /\ row.end <= now

\* The row once the scheduled downgrade is applied: a new period starts.
Downgraded(row, now) == [plan |-> row.pending, pending |-> None, end |-> now + Period]

---------------------------------------------------------------------------
(* What the audit log says *)

\* The plan in force after event i of the log.  A "downgraded" event names no
\* plan id: the "downgrade_scheduled" event before it does.
PlanAfter(log, i) ==
  CASE log[i].type \in {"created", "upgraded"} -> log[i].to
    [] log[i].type = "downgrade_scheduled"     -> log[i].from
    [] OTHER                                   -> log[i - 1].to

\* The downgrade still scheduled after event i of the log.
PendingAfter(log, i) ==
  IF log[i].type = "downgrade_scheduled" THEN log[i].to ELSE None

\* The log ends in the state the row is in.
Explains(log, row) ==
  /\ Len(log) > 0
  /\ row.plan = PlanAfter(log, Len(log))
  /\ row.pending = PendingAfter(log, Len(log))
  /\ log[Len(log)].type = "downgrade_scheduled" => row.end = log[Len(log)].effective

\* Event i can follow the events before it: every change starts from the plan
\* in force, and only a scheduled downgrade is ever applied.
Follows(log, i) ==
  IF i = 1 THEN log[i].type = "created"
  ELSE /\ log[i].type # "created"
       /\ log[i].type \in {"upgraded", "downgrade_scheduled"}
            => log[i].from = PlanAfter(log, i - 1)
       /\ log[i].type = "downgraded" => log[i - 1].type = "downgrade_scheduled"

\* The log is a history from creation to the present.
Replayable(log) == \A i \in 1 .. Len(log) : Follows(log, i)
===========================================================================
