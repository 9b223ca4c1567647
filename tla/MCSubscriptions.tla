-------------------------- MODULE MCSubscriptions --------------------------
(***************************************************************************)
(* Instances of Subscriptions for TLC: product "moara" with three plans    *)
(* and product "other" with one, so that a plan can be the current, the    *)
(* scheduled or a third one, or belong elsewhere.  The free plan stands    *)
(* between the other two: a tenant can go up and down from where it        *)
(* starts, and few requests make long histories.                           *)
(***************************************************************************)
EXTENDS SubscriptionsProofs, TLC

MCProducts == {"moara", "other"}
MCPlans == {"basic", "free", "pro", "else"}
MCProductOf == [p \in MCPlans |-> IF p = "else" THEN "other" ELSE "moara"]

PlanAt(position, free) == [position |-> position, active |-> TRUE, free |-> free]

MCCatalogue ==
  "basic" :> PlanAt(0, FALSE) @@ "free" :> PlanAt(1, TRUE)
  @@ "pro" :> PlanAt(2, FALSE) @@ "else" :> PlanAt(2, FALSE)

First == 1 .. 3

\* Requests are named in the order of their arrival.  Only the names differ in
\* the behaviours that this leaves out, and no fairness is about arrivals.
NamedInOrder ==
  \A r, s \in Requests :
    r < s /\ pc[s] = "idle" /\ pc'[s] # "idle" => pc[r] # "idle"

\* A bound: saves rename the plan new tenants get or the one they go up to.  A
\* request waits for a rename of the plan it goes down to as it does for "pro",
\* and nobody refers to "else".
RenamedFew == saving' \subseteq {"free", "pro"}
===========================================================================
