--------------------------- MODULE Subscriptions ---------------------------
(***************************************************************************)
(* The subscription service as it runs: every HTTP request is one database *)
(* transaction (app/database.py) that reads, takes the row lock of the     *)
(* subscription (SELECT ... FOR UPDATE), reads plan rows nobody locks,     *)
(* decides, flushes and commits, with every other request and the admin    *)
(* console running between any two of its statements.                      *)
(*                                                                         *)
(* A member of Requests is one such transaction and is used once; a client *)
(* that retries uses another.  Requests refused before they read anything  *)
(* but the tokens (401, 403, unknown tenant) leave no trace and are not    *)
(* steps.  Whole-process crashes are Abort steps of all running requests.  *)
(***************************************************************************)
EXTENDS SubscriptionData

CONSTANTS
  Requests,          \* the transactions of the run
  InitialCatalogue,  \* the plan rows at the start, None where there is no row
  MaxTime,           \* bound: the clock stops here
  MaxEdits,          \* bound: number of saves in the admin console
  MaxPosition        \* bound: positions an administrator types in

ASSUME SubscriptionsAssumption ==
  /\ InitialCatalogue \in [Plans -> PlanRow \cup {None}]
  /\ \A p, q \in Plans :
       /\ p # q /\ ProductOf[p] = ProductOf[q]
       /\ InitialCatalogue[p] # None /\ InitialCatalogue[q] # None
       => ~(InitialCatalogue[p].free /\ InitialCatalogue[q].free)
  /\ MaxTime \in Nat /\ MaxEdits \in Nat /\ MaxPosition \in Nat

VARIABLES
  plans,     \* table plans: a row or None for each id
  tenants,   \* table tenants: product_id, or None when there is no row
  subs,      \* table subscriptions: a row or None for each tenant
  events,    \* table subscription_events: committed events in commit order
  lock,      \* lock[t]: the request that holds the lock of t's row, or None
  pc,        \* where each request is
  req,       \* what each running request asks
  tx,        \* the rows its session has loaded
  out,       \* the row and the event it is about to write, or None
  clock,     \* the time
  edits,     \* number of saves so far (see MaxEdits)
  saving     \* the plans whose slug a save has rewritten and not committed

tables == <<plans, tenants, subs, events>>
vars == <<plans, tenants, subs, events, lock, pc, req, tx, out, clock, edits, saving>>

---------------------------------------------------------------------------
(* Types *)

Kinds == {"create", "get", "upgrade", "downgrade"}

\* The states in which a request holds the lock of its subscription.
Holding == {"planning", "pending", "targeting", "deciding"}
Writing == {"flushing", "committing"}
Over    == {"done", "aborted"}
Running == {"inserting", "locking"} \cup Holding \cup Writing
Control == {"idle"} \cup Running \cup Over

\* target is the plan asked for, or the free plan found for a new tenant.
Request == [kind: Kinds, tenant: Tenants, target: Plans \cup {None}]

\* The identity map of the session: the subscription and three plans.
Session == [row: SubRow \cup {None}, plan: PlanRow \cup {None},
            pending: PlanRow \cup {None}, target: PlanRow \cup {None}]
EmptySession == [row |-> None, plan |-> None, pending |-> None, target |-> None]

Output == [row: SubRow, event: EventRow]

\* NULL is not a value of any type.
ASSUME NoneAssumption ==
  None \notin Requests \cup PlanRow \cup SubRow \cup Request \cup Output

TypeOK ==
  /\ plans \in [Plans -> PlanRow \cup {None}]
  /\ tenants \in [Tenants -> Products \cup {None}]
  /\ subs \in [Tenants -> SubRow \cup {None}]
  /\ events \in [Tenants -> Seq(EventRow)]
  /\ lock \in [Tenants -> Requests \cup {None}]
  /\ pc \in [Requests -> Control]
  /\ req \in [Requests -> Request \cup {None}]
  /\ tx \in [Requests -> Session]
  /\ out \in [Requests -> Output \cup {None}]
  /\ clock \in Nat
  /\ edits \in Nat
  /\ saving \subseteq Plans

---------------------------------------------------------------------------
Init ==
  /\ plans = InitialCatalogue
  /\ tenants = [t \in Tenants |-> None]
  /\ subs = [t \in Tenants |-> None]
  /\ events = [t \in Tenants |-> <<>>]
  /\ lock = [t \in Tenants |-> None]
  /\ pc = [r \in Requests |-> "idle"]
  /\ req = [r \in Requests |-> None]
  /\ tx = [r \in Requests |-> EmptySession]
  /\ out = [r \in Requests |-> None]
  /\ clock = 0
  /\ edits = 0
  /\ saving = {}

Goto(r, to) == pc' = [pc EXCEPT ![r] = to]

\* The locks left when the transaction of r ends.
Released(r) == [t \in Tenants |-> IF lock[t] = r THEN None ELSE lock[t]]

\* The session of r is closed: its locks go, its objects are forgotten.
Close(r, how) ==
  /\ Goto(r, how)
  /\ lock' = Released(r)
  /\ req' = [req EXCEPT ![r] = None]
  /\ tx' = [tx EXCEPT ![r] = EmptySession]
  /\ out' = [out EXCEPT ![r] = None]

\* The objects of r are dirty: commit() will flush this row and this event.
\* The event is stamped when it is flushed.
Prepare(r, row, event) ==
  /\ Goto(r, "flushing")
  /\ out' = [out EXCEPT ![r] = [row |-> row, event |-> event]]
  /\ tx' = [tx EXCEPT ![r] = [EmptySession EXCEPT !.row = tx[r].row]]

\* The value of created in an event not flushed yet.
Unstamped == 0

---------------------------------------------------------------------------
(* POST /tenants *)

FreePlans(product) ==
  {p \in Plans : /\ ProductOf[p] = product
                 /\ plans[p] # None /\ plans[p].free /\ plans[p].active}

\* No other request is creating t: its id is a fresh UUID.
Fresh(t) ==
  /\ tenants[t] = None
  /\ \A s \in Requests : req[s] # None /\ req[s].kind = "create" => req[s].tenant # t

\* get_free_plan: a plain SELECT, which keeps the plan row from nobody.
BeginCreate(r, t, product) ==
  /\ pc[r] = "idle"
  /\ Fresh(t)
  /\ \/ \E p \in FreePlans(product) :
          /\ Goto(r, "inserting")
          /\ req' = [req EXCEPT ![r] = [kind |-> "create", tenant |-> t, target |-> p]]
     \/ /\ FreePlans(product) = {}
        /\ Goto(r, "done")
        /\ UNCHANGED req
  /\ UNCHANGED <<tables, lock, tx, out, clock, edits, saving>>

\* create_free_subscription, after the tenant has been flushed: the INSERT of
\* the subscription refers to the plan, and waits while its slug is rewritten.
Insert(r) ==
  /\ pc[r] = "inserting"
  /\ req[r].target \notin saving
  /\ Prepare(r, NewRow(req[r].target, clock), CreatedEvent(req[r].target, Unstamped))
  /\ UNCHANGED <<tables, lock, req, clock, edits, saving>>

---------------------------------------------------------------------------
(* GET /tenants/{id}/plan, POST /tenants/{id}/upgrade and /downgrade *)

\* The tenant is read first; a read of the plan goes on without one.
BeginGet(r, t) ==
  /\ pc[r] = "idle"
  /\ Goto(r, "locking")
  /\ req' = [req EXCEPT ![r] = [kind |-> "get", tenant |-> t, target |-> None]]
  /\ UNCHANGED <<tables, lock, tx, out, clock, edits, saving>>

BeginChange(r, t, kind, target) ==
  /\ pc[r] = "idle"
  /\ tenants[t] # None
  /\ Goto(r, "locking")
  /\ req' = [req EXCEPT ![r] = [kind |-> kind, tenant |-> t, target |-> target]]
  /\ UNCHANGED <<tables, lock, tx, out, clock, edits, saving>>

\* A slip in Lock: the row is read without FOR UPDATE.
LockWithoutWaiting(r) ==
  LET t == req[r].tenant IN
  /\ pc[r] = "locking"
  /\ subs[t] # None
  /\ lock' = [lock EXCEPT ![t] = r]
  /\ tx' = [tx EXCEPT ![r].row = subs[t]]
  /\ Goto(r, "planning")
  /\ UNCHANGED <<tables, req, out, clock, edits, saving>>

\* SELECT ... FOR UPDATE returns the latest committed row once it is unlocked.
Lock(r) ==
  LET t == req[r].tenant IN
  /\ pc[r] = "locking"
  /\ subs[t] # None
  /\ lock[t] = None
  /\ lock' = [lock EXCEPT ![t] = r]
  /\ tx' = [tx EXCEPT ![r].row = subs[t]]
  /\ Goto(r, "planning")
  /\ UNCHANGED <<tables, req, out, clock, edits, saving>>

NoSubscription(r) ==
  /\ pc[r] = "locking"
  /\ subs[req[r].tenant] = None
  /\ Close(r, "done")
  /\ UNCHANGED <<tables, clock, edits, saving>>

\* Where a request goes once selectinload has loaded the plans of its row.
AfterPlans(r) == IF req[r].kind = "get" THEN "deciding" ELSE "targeting"

\* selectinload: one SELECT for the plan ...
LoadPlan(r) ==
  /\ pc[r] = "planning"
  /\ tx' = [tx EXCEPT ![r].plan = plans[tx[r].row.plan]]
  /\ Goto(r, IF tx[r].row.pending # None THEN "pending" ELSE AfterPlans(r))
  /\ UNCHANGED <<tables, lock, req, out, clock, edits, saving>>

\* ... and one for the pending plan, if there is one.
LoadPending(r) ==
  /\ pc[r] = "pending"
  /\ tx' = [tx EXCEPT ![r].pending = plans[tx[r].row.pending]]
  /\ Goto(r, AfterPlans(r))
  /\ UNCHANGED <<tables, lock, req, out, clock, edits, saving>>

\* session.get: a plan the session holds already is not read again.
PlanSeen(r) ==
  IF req[r].target = tx[r].row.plan THEN tx[r].plan
  ELSE IF req[r].target = tx[r].row.pending THEN tx[r].pending
  ELSE plans[req[r].target]

LoadTarget(r) ==
  /\ pc[r] = "targeting"
  /\ tx' = [tx EXCEPT ![r].target = PlanSeen(r)]
  /\ Goto(r, "deciding")
  /\ UNCHANGED <<tables, lock, req, out, clock, edits, saving>>

Deciding(r, kind) == pc[r] = "deciding" /\ req[r].kind = kind

\* A read that finds a downgrade due applies it.
ApplyDue(r) ==
  /\ Deciding(r, "get")
  /\ Due(tx[r].row, clock)
  /\ Prepare(r, Downgraded(tx[r].row, clock), DowngradedEvent(Unstamped))
  /\ UNCHANGED <<tables, lock, req, clock, edits, saving>>

\* Any other read ends without a commit.
ReadOnly(r) ==
  /\ Deciding(r, "get")
  /\ ~Due(tx[r].row, clock)
  /\ Close(r, "done")
  /\ UNCHANGED <<tables, clock, edits, saving>>

\* A slip in OnSale: the product of the target is not compared.
OnSaleAnywhere(r) == tx[r].target # None /\ tx[r].target.active

\* The target exists, is on sale and belongs to the product of the plan.
OnSale(r) ==
  /\ tx[r].target # None
  /\ tx[r].target.active
  /\ ProductOf[req[r].target] = ProductOf[tx[r].row.plan]

UpgradeAllowed(r) == OnSale(r) /\ tx[r].target.position > tx[r].plan.position

\* A slip in DowngradeAllowed: the plan in force counts as lower than itself.
DowngradeAllowedToSame(r) == OnSale(r) /\ tx[r].target.position <= tx[r].plan.position

DowngradeAllowed(r) == OnSale(r) /\ tx[r].target.position < tx[r].plan.position

\* Slips in Upgrade: the scheduled downgrade survives, or the period restarts.
UpgradeKeepingPending(r) ==
  /\ Deciding(r, "upgrade")
  /\ UpgradeAllowed(r)
  /\ LET row == tx[r].row IN
     Prepare(r, [row EXCEPT !.plan = req[r].target],
             ChangeEvent("upgraded", row.plan, req[r].target, None, Unstamped))
  /\ UNCHANGED <<tables, lock, req, clock, edits, saving>>

UpgradeRestartingPeriod(r) ==
  /\ Deciding(r, "upgrade")
  /\ UpgradeAllowed(r)
  /\ Prepare(r, NewRow(req[r].target, clock),
             ChangeEvent("upgraded", tx[r].row.plan, req[r].target, None, Unstamped))
  /\ UNCHANGED <<tables, lock, req, clock, edits, saving>>

\* change_plan upward: at once, and the scheduled downgrade is dropped.
Upgrade(r) ==
  /\ Deciding(r, "upgrade")
  /\ UpgradeAllowed(r)
  /\ LET row == tx[r].row IN
     Prepare(r, [row EXCEPT !.plan = req[r].target, !.pending = None],
             ChangeEvent("upgraded", row.plan, req[r].target, None, Unstamped))
  /\ UNCHANGED <<tables, lock, req, clock, edits, saving>>

\* change_plan downward: noted for the end of the period in the row.  That
\* end is never NULL, so the default the code has for NULL is not modelled.
ScheduleDowngrade(r) ==
  /\ Deciding(r, "downgrade")
  /\ DowngradeAllowed(r)
  /\ LET row == tx[r].row IN
     Prepare(r, [row EXCEPT !.pending = req[r].target],
             ChangeEvent("downgrade_scheduled", row.plan, req[r].target, row.end, Unstamped))
  /\ UNCHANGED <<tables, lock, req, clock, edits, saving>>

\* A slip in Refuse: the session of a refused request is left open.
RefuseHoldingLock(r) ==
  /\ \/ Deciding(r, "upgrade") /\ ~UpgradeAllowed(r)
     \/ Deciding(r, "downgrade") /\ ~DowngradeAllowed(r)
  /\ Goto(r, "done")
  /\ UNCHANGED <<tables, lock, req, tx, out, clock, edits, saving>>

\* NotFound or InvalidPlanChange: the session is closed without a commit.
Refuse(r) ==
  /\ \/ Deciding(r, "upgrade") /\ ~UpgradeAllowed(r)
     \/ Deciding(r, "downgrade") /\ ~DowngradeAllowed(r)
  /\ Close(r, "done")
  /\ UNCHANGED <<tables, clock, edits, saving>>

---------------------------------------------------------------------------
(* commit() *)

\* The plans that r makes its row refer to by a foreign key it did not have.
Referred(r) ==
  LET old == tx[r].row
      new == out[r].row
  IN {p \in Plans : \/ new.plan = p /\ (old = None \/ old.plan # p)
                    \/ new.pending = p /\ (old = None \/ old.pending # p)}

\* The statements of the flush; created_at is computed here.  A foreign key is
\* checked with FOR KEY SHARE on the plan, which waits while a save that has
\* rewritten its slug, a part of a unique key, is not committed.
Flush(r) ==
  /\ pc[r] = "flushing"
  /\ Referred(r) \cap saving = {}
  /\ out' = [out EXCEPT ![r].event.created = clock]
  /\ Goto(r, "committing")
  /\ UNCHANGED <<tables, lock, req, tx, clock, edits, saving>>

\* A slip in Commit: the event of the change is not part of the transaction.
CommitWithoutEvent(r) ==
  LET t == req[r].tenant IN
  /\ pc[r] = "committing"
  /\ subs' = [subs EXCEPT ![t] = out[r].row]
  /\ tenants' = IF req[r].kind = "create"
                  THEN [tenants EXCEPT ![t] = ProductOf[out[r].row.plan]]
                  ELSE tenants
  /\ Close(r, "done")
  /\ UNCHANGED <<plans, events, clock, edits, saving>>

\* COMMIT: the rows appear together and the lock is free.  "done" says that the
\* transaction is over, not what the client hears: create_tenant reads the
\* tenant again, and if that fails the tenant is there and nobody is told.
Commit(r) ==
  LET t == req[r].tenant IN
  /\ pc[r] = "committing"
  /\ subs' = [subs EXCEPT ![t] = out[r].row]
  /\ events' = [events EXCEPT ![t] = Append(@, out[r].event)]
  /\ tenants' = IF req[r].kind = "create"
                  THEN [tenants EXCEPT ![t] = ProductOf[out[r].row.plan]]
                  ELSE tenants
  /\ Close(r, "done")
  /\ UNCHANGED <<plans, clock, edits, saving>>

\* A lost connection, an exception, a cancelled request or a crash of the
\* process: the database rolls the transaction back.
Abort(r) ==
  /\ pc[r] \in Running
  /\ Close(r, "aborted")
  /\ UNCHANGED <<tables, clock, edits, saving>>

---------------------------------------------------------------------------
(* The rest of the world *)

\* What PlanTable looks at in a row of plan p.
Seen(p, row) == [product |-> ProductOf[p], free |-> row.free]

PlanView == [p \in Plans |-> IF plans[p] = None THEN None ELSE Seen(p, plans[p])]

Table == INSTANCE PlanTable WITH table <- PlanView

\* The rows an administrator may enter.
SaveRows == [position: 0 .. MaxPosition, active: BOOLEAN, free: BOOLEAN]

\* What save_plan may store; its steps and checks are in Catalogue, and what
\* they amount to is PlanTable.
Store(p, row) ==
  /\ Table!Allowed(p, Seen(p, row))
  /\ plans' = [plans EXCEPT ![p] = row]

\* A save that adds a plan, or edits one and keeps its slug, makes nobody wait.
SavePlan(p, row) ==
  /\ edits < MaxEdits
  /\ p \notin saving
  /\ plans[p] # None => row.free = plans[p].free
  /\ Store(p, row)
  /\ edits' = edits + 1
  /\ UNCHANGED <<tenants, subs, events, lock, pc, req, tx, out, clock, saving>>

\* r has checked its foreign keys, and keeps the plans' keys until it ends.
KeepsKeys(r) ==
  \/ pc[r] = "committing"
  \/ /\ pc[r] = "flushing"
     /\ req[r].kind = "create"

\* The UPDATE of a slug waits for the requests that keep the key of the plan.
Rename(p) ==
  /\ edits < MaxEdits
  /\ p \notin saving
  /\ plans[p] # None
  /\ \A r \in Requests : KeepsKeys(r) => p \notin Referred(r)
  /\ saving' = saving \cup {p}
  /\ edits' = edits + 1
  /\ UNCHANGED <<tables, lock, pc, req, tx, out, clock>>

\* That save is committed, with whatever else it changes, or rolled back.
EndRename(p) ==
  /\ p \in saving
  /\ saving' = saving \ {p}
  /\ \/ UNCHANGED plans
     \/ \E row \in SaveRows : Store(p, row)
  /\ UNCHANGED <<tenants, subs, events, lock, pc, req, tx, out, clock, edits>>

Administer(p) ==
  \/ \E row \in SaveRows : SavePlan(p, row)
  \/ Rename(p)
  \/ EndRename(p)

Tick ==
  /\ clock < MaxTime
  /\ clock' = clock + 1
  /\ UNCHANGED <<tables, lock, pc, req, tx, out, edits, saving>>

\* Nothing is left to do: no transaction will run again.
Finished ==
  /\ \A r \in Requests : pc[r] \in Over
  /\ UNCHANGED vars

Arrive(r) ==
  \E t \in Tenants :
    \/ \E product \in Products : BeginCreate(r, t, product)
    \/ BeginGet(r, t)
    \/ \E kind \in {"upgrade", "downgrade"}, p \in Plans : BeginChange(r, t, kind, p)

\* The steps the server takes by itself once a request has arrived.
Serve(r) ==
  \/ Insert(r) \/ Lock(r) \/ NoSubscription(r)
  \/ LoadPlan(r) \/ LoadPending(r) \/ LoadTarget(r)
  \/ ApplyDue(r) \/ ReadOnly(r)
  \/ Upgrade(r) \/ ScheduleDowngrade(r) \/ Refuse(r)
  \/ Flush(r) \/ Commit(r)

Next ==
  \/ \E r \in Requests : Arrive(r) \/ Serve(r) \/ Abort(r)
  \/ \E p \in Plans : Administer(p)
  \/ Tick
  \/ Finished

Spec == Init /\ [][Next]_vars

\* The event loop and the database go on with every request they have, and
\* with the saves that have reached their UPDATE.  Clients, administrators,
\* failures and the clock owe nothing.
FairSpec ==
  /\ Spec
  /\ \A r \in Requests : WF_vars(Serve(r))
  /\ WF_vars(\E p \in Plans : EndRename(p))

---------------------------------------------------------------------------
(* Properties *)

\* A request that has loaded a subscription decides and writes on the row as
\* it is: the lock it took in _get_subscription is still its own and nobody
\* has changed the row since, so no change of another request is overwritten.
NoLostUpdate ==
  \A r \in Requests : pc[r] \in Holding \cup Writing /\ req[r].kind # "create" =>
    /\ lock[req[r].tenant] = r
    /\ tx[r].row = subs[req[r].tenant]

\* A request takes one row lock, and no path out of the service forgets it:
\* whoever holds a row is at work on that row.  All it can wait for from then on
\* is, at its flush, a save that renames a plan, and such a save waits for no
\* request that waits: the waits for rows end and never form a circle.
HolderIsAtWork ==
  \A t \in Tenants, r \in Requests : lock[t] = r =>
    pc[r] \in Holding \cup Writing /\ req[r].kind # "create" /\ req[r].tenant = t

\* The audit log of a tenant ends in the state of its subscription row: what
\* add_event records is what the same transaction wrote.
AuditExplainsRow == \A t \in Tenants : subs[t] # None => Explains(events[t], subs[t])

\* The audit log can be replayed: each event starts from the plan the one
\* before it left, and "downgraded" follows the scheduling it carries out,
\* although its payload holds no plan id.
AuditReplayable == \A t \in Tenants : Replayable(events[t])

\* list_events orders by created_at; that is the order of the commits.
AuditInOrder ==
  \A t \in Tenants : \A i, j \in 1 .. Len(events[t]) :
    i < j => events[t][i].created <= events[t][j].created

\* A tenant and its subscription come together, and the plans of the row,
\* in force and scheduled, are plans of the tenant's product.
OwnProduct ==
  \A t \in Tenants :
    /\ (subs[t] = None) <=> (tenants[t] = None)
    /\ subs[t] # None =>
         /\ ProductOf[subs[t].plan] = tenants[t]
         /\ subs[t].pending # None => ProductOf[subs[t].pending] = tenants[t]

\* Unless an administrator has reordered the plans, the scheduled plan is
\* below the one in force: a due downgrade never raises a tenant.
PendingIsBelow ==
  \A t \in Tenants : edits = 0 /\ subs[t] # None /\ subs[t].pending # None =>
    plans[subs[t].pending].position < plans[subs[t].plan].position

\* A scheduled downgrade never takes effect before the moment that was
\* announced when it was scheduled, and it takes effect as announced.
NeverEarly ==
  [][\A t \in Tenants :
       Len(events'[t]) > Len(events[t]) /\ events'[t][Len(events'[t])].type = "downgraded" =>
         LET scheduled == events[t][Len(events[t])] IN
         /\ scheduled.effective <= clock
         /\ subs'[t].plan = scheduled.to]_vars

\* The service implements the ledger: whatever the requests interleave to,
\* each commit is one promised change of one subscription.
Ledger == INSTANCE SubscriptionLedger
ImplementsLedger == Ledger!LSpec

\* Every request that arrives is answered or rolled back: none waits for a
\* row lock for ever, and no path leaves a lock behind.
RequestsEnd == \A r \in Requests : (pc[r] \in Running) ~> (pc[r] \in Over)

IsDue(t) == subs[t] # None /\ subs[t].pending # None /\ subs[t].end <= clock

\* A read that arrives when a downgrade is due does not end before the
\* downgrade has been applied (or dropped by an upgrade), unless it fails.
DueIsSettled ==
  \A r \in Requests, t \in Tenants :
    (pc[r] = "locking" /\ req[r].kind = "get" /\ req[r].tenant = t /\ IsDue(t))
      ~> (pc[r] = "aborted" \/ ~IsDue(t))

\* README: a downgrade is scheduled for the end of the period.  When it is
\* scheduled that moment lies ahead, or at worst less than a period back
\* (which forgives a request that was overtaken by the end of the period).
ScheduledAhead ==
  [][\A r \in Requests :
       out[r] = None /\ out'[r] # None /\ out'[r].event.type = "downgrade_scheduled"
         => out'[r].event.effective + Period > clock]_vars
===========================================================================
