------------------------ MODULE SubscriptionLedger ------------------------
(***************************************************************************)
(* What the subscription service promises, without requests, locks or      *)
(* stale reads: tenants hold subscriptions, and each committed step        *)
(* changes one subscription and appends the one event that says so.        *)
(***************************************************************************)
EXTENDS SubscriptionData

VARIABLES
  tenants,   \* tenants[t]: the product the tenant was created for, or None
  subs,      \* subs[t]: its subscription row, or None
  events,    \* events[t]: its audit log, in the order of the commits
  clock      \* the time

lvars == <<tenants, subs, events, clock>>

LInit ==
  /\ tenants = [t \in Tenants |-> None]
  /\ subs = [t \in Tenants |-> None]
  /\ events = [t \in Tenants |-> <<>>]
  /\ clock = 0

\* A moment between the start of a step and its commit.
Moment == 0 .. clock

\* A tenant and its subscription to a plan of its product appear together.
Create(t) ==
  /\ subs[t] = None
  /\ \E p \in Plans, now \in Moment, at \in Moment :
       /\ tenants' = [tenants EXCEPT ![t] = ProductOf[p]]
       /\ subs' = [subs EXCEPT ![t] = NewRow(p, now)]
       /\ events' = [events EXCEPT ![t] = Append(@, CreatedEvent(p, at))]
  /\ UNCHANGED clock

\* An upgrade moves at once to another plan of the product, keeps the period
\* and drops any scheduled downgrade.
Upgrade(t) ==
  /\ subs[t] # None
  /\ \E q \in Plans \ {subs[t].plan}, at \in Moment :
       /\ ProductOf[q] = tenants[t]
       /\ subs' = [subs EXCEPT ![t] = [@ EXCEPT !.plan = q, !.pending = None]]
       /\ events' = [events EXCEPT ![t] =
            Append(@, ChangeEvent("upgraded", subs[t].plan, q, None, at))]
  /\ UNCHANGED <<tenants, clock>>

\* A downgrade is only noted, for the end of the current period.
Schedule(t) ==
  /\ subs[t] # None
  /\ \E q \in Plans \ {subs[t].plan}, at \in Moment :
       /\ ProductOf[q] = tenants[t]
       /\ subs' = [subs EXCEPT ![t] = [@ EXCEPT !.pending = q]]
       /\ events' = [events EXCEPT ![t] =
            Append(@, ChangeEvent("downgrade_scheduled", subs[t].plan, q, subs[t].end, at))]
  /\ UNCHANGED <<tenants, clock>>

\* A scheduled downgrade takes effect, never before its time.
Apply(t) ==
  /\ subs[t] # None
  /\ \E now \in Moment, at \in Moment :
       /\ Due(subs[t], now)
       /\ subs' = [subs EXCEPT ![t] = Downgraded(@, now)]
       /\ events' = [events EXCEPT ![t] = Append(@, DowngradedEvent(at))]
  /\ UNCHANGED <<tenants, clock>>

Pass ==
  /\ clock' = clock + 1
  /\ UNCHANGED <<tenants, subs, events>>

LNext ==
  \/ \E t \in Tenants : Create(t) \/ Upgrade(t) \/ Schedule(t) \/ Apply(t)
  \/ Pass

LSpec == LInit /\ [][LNext]_lvars
===========================================================================
