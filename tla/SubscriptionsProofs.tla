------------------------ MODULE SubscriptionsProofs ------------------------
(***************************************************************************)
(* Proofs about Subscriptions, for any tenants, plans, requests, catalogue *)
(* and bounds.                                                             *)
(***************************************************************************)
EXTENDS Subscriptions, TLAPS

---------------------------------------------------------------------------
(* The inductive invariant *)

\* What a request asks fits where it is.
AskOK(r) ==
  /\ pc[r] \in Running <=> req[r] # None
  /\ pc[r] = "inserting" => req[r].kind = "create"
  /\ pc[r] \in {"locking"} \cup Holding => req[r].kind # "create"
  /\ pc[r] = "targeting" => req[r].kind # "get"
  /\ pc[r] = "pending" => tx[r].row.pending # None
  /\ pc[r] \in Running /\ req[r].kind # "get" => req[r].target \in Plans

\* A tenant being created does not exist yet, and only one request creates it.
Creating(r) == pc[r] \in Running /\ req[r].kind = "create"

CreateOK(r) ==
  Creating(r) =>
    /\ tenants[req[r].tenant] = None
    /\ \A s \in Requests : Creating(s) /\ s # r => req[s].tenant # req[r].tenant

CreateInv == \A r \in Requests : CreateOK(r)

\* NoLostUpdate, on a row that exists.
HoldOK(r) ==
  pc[r] \in Holding \cup Writing /\ req[r].kind # "create" =>
    /\ lock[req[r].tenant] = r
    /\ tx[r].row = subs[req[r].tenant]
    /\ subs[req[r].tenant] # None

\* The identity map: when the plan asked for is the plan in force, a request
\* compares that plan with itself.
SeenOK(r) ==
  pc[r] = "deciding" /\ req[r].kind # "get" /\ req[r].target = tx[r].row.plan
    => tx[r].target = tx[r].plan

\* What a request is about to commit, against the row it holds: one operator
\* per kind of request.
WritesCreated(target, row, event) ==
  \E now \in 0 .. clock, at \in 0 .. clock :
    row = NewRow(target, now) /\ event = CreatedEvent(target, at)

WritesDowngraded(old, row, event) ==
  \E now \in 0 .. clock, at \in 0 .. clock :
    Due(old, now) /\ row = Downgraded(old, now) /\ event = DowngradedEvent(at)

WritesUpgraded(old, target, row, event) ==
  \E at \in 0 .. clock :
    /\ target # old.plan /\ ProductOf[target] = ProductOf[old.plan]
    /\ row = [old EXCEPT !.plan = target, !.pending = None]
    /\ event = ChangeEvent("upgraded", old.plan, target, None, at)

WritesScheduled(old, target, row, event) ==
  \E at \in 0 .. clock :
    /\ target # old.plan /\ ProductOf[target] = ProductOf[old.plan]
    /\ row = [old EXCEPT !.pending = target]
    /\ event = ChangeEvent("downgrade_scheduled", old.plan, target, old.end, at)

Writes(r, row, event) ==
  LET old == subs[req[r].tenant] IN
  /\ req[r].kind = "create" => WritesCreated(req[r].target, row, event)
  /\ req[r].kind = "get" => WritesDowngraded(old, row, event)
  /\ req[r].kind = "upgrade" => WritesUpgraded(old, req[r].target, row, event)
  /\ req[r].kind = "downgrade" => WritesScheduled(old, req[r].target, row, event)

WriteOK(r) ==
  /\ pc[r] \in Writing => out[r] # None /\ Writes(r, out[r].row, out[r].event)
  /\ pc[r] \notin Writing => out[r] = None

RequestOK(r) == AskOK(r) /\ HoldOK(r) /\ SeenOK(r) /\ WriteOK(r)

RequestInv == \A r \in Requests : RequestOK(r)

\* The types, what each request is about to do, and whom the plans belong to.
IInv ==
  /\ TypeOK
  /\ RequestInv
  /\ CreateInv
  /\ OwnProduct

---------------------------------------------------------------------------
(* Lemmas about records *)

\* The rows that NewRow, Downgraded and change_plan build are rows.
LEMMA RowTypes ==
  /\ \A p \in Plans, now \in Nat : NewRow(p, now) \in SubRow
  /\ \A old \in SubRow, now \in Nat : Due(old, now) => Downgraded(old, now) \in SubRow
  /\ \A old \in SubRow, p \in Plans :
       /\ [old EXCEPT !.plan = p, !.pending = None] \in SubRow
       /\ [old EXCEPT !.pending = p] \in SubRow
<1>1. \A p \in Plans, now \in Nat : NewRow(p, now) \in SubRow
  BY DataAssumption DEF NewRow, SubRow
<1>2. \A old \in SubRow, now \in Nat : Due(old, now) => Downgraded(old, now) \in SubRow
  BY DataAssumption DEF Due, Downgraded, SubRow
<1>3. ASSUME NEW old \in SubRow, NEW p \in Plans
      PROVE  /\ [old EXCEPT !.plan = p, !.pending = None] \in SubRow
             /\ [old EXCEPT !.pending = p] \in SubRow
  BY DEF SubRow
<1> QED
  BY <1>1, <1>2, <1>3

\* The events they append are events.
LEMMA EventTypesOK ==
  /\ \A p \in Plans, at \in Nat : CreatedEvent(p, at) \in EventRow
  /\ \A at \in Nat : DowngradedEvent(at) \in EventRow
  /\ \A p, q \in Plans, at \in Nat, e \in Nat \cup {None} :
       /\ ChangeEvent("upgraded", p, q, e, at) \in EventRow
       /\ ChangeEvent("downgrade_scheduled", p, q, e, at) \in EventRow
BY DEF CreatedEvent, DowngradedEvent, ChangeEvent, EventRow, EventTypes

\* A session that keeps only its row is a session.
LEMMA SessionTypes ==
  /\ EmptySession \in Session
  /\ \A row \in SubRow \cup {None} : [EmptySession EXCEPT !.row = row] \in Session
BY DEF EmptySession, Session

---------------------------------------------------------------------------
(* Type correctness *)

\* Closing a session keeps the types of the variables it touches.
LEMMA CloseType ==
  ASSUME TypeOK, NEW r \in Requests, NEW how \in Over, Close(r, how)
  PROVE  /\ pc' \in [Requests -> Control]
         /\ lock' \in [Tenants -> Requests \cup {None}]
         /\ req' \in [Requests -> Request \cup {None}]
         /\ tx' \in [Requests -> Session]
         /\ out' \in [Requests -> Output \cup {None}]
BY SessionTypes DEF TypeOK, Close, Goto, Released, Control

\* So does preparing a row and an event of the right type.
LEMMA PrepareType ==
  ASSUME TypeOK, NEW r \in Requests, NEW row \in SubRow, NEW event \in EventRow,
         Prepare(r, row, event)
  PROVE  /\ pc' \in [Requests -> Control]
         /\ tx' \in [Requests -> Session]
         /\ out' \in [Requests -> Output \cup {None}]
<1>1. tx[r].row \in SubRow \cup {None}
  BY DEF TypeOK, Session
<1>2. [EmptySession EXCEPT !.row = tx[r].row] \in Session
  BY <1>1, SessionTypes
<1>3. [row |-> row, event |-> event] \in Output
  BY DEF Output
<1> QED
  BY <1>2, <1>3 DEF TypeOK, Prepare, Goto, Control, Running, Writing

\* The row and the catalogue entries a request works on, where it works on them.
LEMMA Loaded ==
  ASSUME IInv, NEW r \in Requests, pc[r] \in Running
  PROVE  /\ req[r] \in Request
         /\ req[r].kind # "get" => req[r].target \in Plans
         /\ pc[r] \in Holding => tx[r].row \in SubRow /\ tx[r].row.plan \in Plans
         /\ pc[r] = "pending" => tx[r].row.pending \in Plans
         /\ tx[r] \in Session
         /\ pc[r] \in Writing => out[r] \in Output
<1>1. req[r] \in Request
  BY DEF IInv, TypeOK, RequestInv, RequestOK, AskOK
<1>2. req[r].kind # "get" => req[r].target \in Plans
  BY DEF IInv, RequestInv, RequestOK, AskOK
<1>3. ASSUME pc[r] \in Holding
      PROVE  tx[r].row \in SubRow /\ tx[r].row.plan \in Plans
  <2>1. req[r].kind # "create"
    BY <1>3 DEF IInv, RequestInv, RequestOK, AskOK
  <2>2. tx[r].row = subs[req[r].tenant] /\ subs[req[r].tenant] # None
    BY <1>3, <2>1 DEF IInv, RequestInv, RequestOK, HoldOK
  <2>3. req[r].tenant \in Tenants
    BY <1>1 DEF Request
  <2>4. tx[r].row \in SubRow
    BY <2>2, <2>3 DEF IInv, TypeOK
  <2> QED
    BY <2>4 DEF SubRow
<1>4. ASSUME pc[r] = "pending" PROVE tx[r].row.pending \in Plans
  <2>1. tx[r].row.pending # None /\ tx[r].row \in SubRow
    BY <1>3, <1>4 DEF IInv, RequestInv, RequestOK, AskOK, Holding
  <2> QED
    BY <2>1 DEF SubRow
<1>5. tx[r] \in Session
  BY DEF IInv, TypeOK
<1>6. pc[r] \in Writing => out[r] \in Output
  BY DEF IInv, TypeOK, RequestInv, RequestOK, WriteOK
<1> QED
  BY <1>1, <1>2, <1>3, <1>4, <1>5, <1>6

\* A field of a session set to a value of its type.
LEMMA SessionUpdate ==
  ASSUME NEW f \in [Requests -> Session], NEW r \in Requests
  PROVE  /\ \A row \in SubRow \cup {None} : [f EXCEPT ![r].row = row] \in [Requests -> Session]
         /\ \A p \in PlanRow \cup {None} :
              /\ [f EXCEPT ![r].plan = p] \in [Requests -> Session]
              /\ [f EXCEPT ![r].pending = p] \in [Requests -> Session]
              /\ [f EXCEPT ![r].target = p] \in [Requests -> Session]
BY DEF Session

\* The first step of a request keeps the types.
LEMMA ArriveType ==
  ASSUME IInv, NEW r \in Requests, Arrive(r)
  PROVE  TypeOK'
<1> USE DEF IInv
<1>1. ASSUME NEW t \in Tenants, NEW product \in Products, BeginCreate(r, t, product)
      PROVE  TypeOK'
  <2>1. \A p \in FreePlans(product) :
          [kind |-> "create", tenant |-> t, target |-> p] \in Request
    BY DEF FreePlans, Request, Kinds
  <2> QED
    BY <1>1, <2>1 DEF TypeOK, BeginCreate, Goto, Control, Running, Over, tables
<1>2. ASSUME NEW t \in Tenants, BeginGet(r, t)
      PROVE  TypeOK'
  <2>1. [kind |-> "get", tenant |-> t, target |-> None] \in Request
    BY DEF Request, Kinds
  <2> QED
    BY <1>2, <2>1 DEF TypeOK, BeginGet, Goto, Control, Running, tables
<1>3. ASSUME NEW t \in Tenants, NEW kind \in {"upgrade", "downgrade"}, NEW p \in Plans,
             BeginChange(r, t, kind, p)
      PROVE  TypeOK'
  <2>1. [kind |-> kind, tenant |-> t, target |-> p] \in Request
    BY DEF Request, Kinds
  <2> QED
    BY <1>3, <2>1 DEF TypeOK, BeginChange, Goto, Control, Running, tables
<1> QED
  BY <1>1, <1>2, <1>3 DEF Arrive

\* So does every later step of the server.
LEMMA ServeType ==
  ASSUME IInv, NEW r \in Requests, Serve(r)
  PROVE  TypeOK'
<1> USE DEF IInv
<1>1. CASE Insert(r)
  <2>1. req[r].target \in Plans
    BY <1>1, Loaded DEF Insert, Running, RequestInv, RequestOK, AskOK
  <2>2. NewRow(req[r].target, clock) \in SubRow
    BY <2>1, RowTypes DEF TypeOK
  <2>3. CreatedEvent(req[r].target, Unstamped) \in EventRow
    BY <2>1, EventTypesOK DEF Unstamped
  <2> QED
    BY <1>1, <2>2, <2>3, PrepareType DEF Insert, TypeOK, tables
<1>2. CASE Lock(r)
  <2>1. req[r] \in Request
    BY <1>2, Loaded DEF Lock, Running
  <2>2. subs[req[r].tenant] \in SubRow \cup {None}
    BY <2>1 DEF Request, TypeOK
  <2>3. tx' \in [Requests -> Session]
    BY <1>2, <2>2, SessionUpdate DEF Lock, TypeOK
  <2> QED
    BY <1>2, <2>1, <2>3 DEF Lock, TypeOK, Request, Goto, Control, Running, Holding, tables
<1>3. CASE NoSubscription(r)
  BY <1>3, CloseType DEF NoSubscription, TypeOK, Over, tables
<1>4. CASE LoadPlan(r)
  <2>1. tx[r].row.plan \in Plans
    BY <1>4, Loaded DEF LoadPlan, Running, Holding
  <2>2. tx' \in [Requests -> Session]
    BY <1>4, <2>1, SessionUpdate DEF LoadPlan, TypeOK
  <2> QED
    BY <1>4, <2>2 DEF LoadPlan, AfterPlans, TypeOK, Goto, Control, Running, Holding, tables
<1>5. CASE LoadPending(r)
  <2>1. tx[r].row.pending \in Plans
    BY <1>5, Loaded DEF LoadPending, Running, Holding
  <2>2. tx' \in [Requests -> Session]
    BY <1>5, <2>1, SessionUpdate DEF LoadPending, TypeOK
  <2> QED
    BY <1>5, <2>2 DEF LoadPending, AfterPlans, TypeOK, Goto, Control, Running, Holding, tables
<1>6. CASE LoadTarget(r)
  <2>1. req[r].target \in Plans
    BY <1>6, Loaded DEF LoadTarget, Running, Holding, RequestInv, RequestOK, AskOK
  <2>2. PlanSeen(r) \in PlanRow \cup {None}
    BY <2>1 DEF PlanSeen, TypeOK, Session
  <2>3. tx' \in [Requests -> Session]
    BY <1>6, <2>2, SessionUpdate DEF LoadTarget, TypeOK
  <2> QED
    BY <1>6, <2>3 DEF LoadTarget, TypeOK, Goto, Control, Running, Holding, tables
<1>7. CASE ApplyDue(r)
  <2>1. tx[r].row \in SubRow
    BY <1>7, Loaded DEF ApplyDue, Deciding, Running, Holding
  <2>2. Downgraded(tx[r].row, clock) \in SubRow
    BY <1>7, <2>1, RowTypes DEF ApplyDue, TypeOK
  <2>3. DowngradedEvent(Unstamped) \in EventRow
    BY EventTypesOK DEF Unstamped
  <2> QED
    BY <1>7, <2>2, <2>3, PrepareType DEF ApplyDue, TypeOK, tables
<1>8. CASE ReadOnly(r)
  BY <1>8, CloseType DEF ReadOnly, TypeOK, Over, tables
<1>9. CASE Upgrade(r)
  <2>1. tx[r].row \in SubRow /\ tx[r].row.plan \in Plans /\ req[r].target \in Plans
    BY <1>9, Loaded DEF Upgrade, Deciding, Running, Holding
  <2>2. [tx[r].row EXCEPT !.plan = req[r].target, !.pending = None] \in SubRow
    BY <2>1, RowTypes
  <2>3. ChangeEvent("upgraded", tx[r].row.plan, req[r].target, None, Unstamped) \in EventRow
    BY <2>1, EventTypesOK DEF Unstamped
  <2> QED
    BY <1>9, <2>2, <2>3, PrepareType DEF Upgrade, TypeOK, tables
<1>10. CASE ScheduleDowngrade(r)
  <2>1. tx[r].row \in SubRow /\ tx[r].row.plan \in Plans /\ req[r].target \in Plans
    BY <1>10, Loaded DEF ScheduleDowngrade, Deciding, Running, Holding
  <2>2. [tx[r].row EXCEPT !.pending = req[r].target] \in SubRow
    BY <2>1, RowTypes
  <2>3. tx[r].row.end \in Nat
    BY <2>1 DEF SubRow
  <2>4. ChangeEvent("downgrade_scheduled", tx[r].row.plan, req[r].target, tx[r].row.end,
                    Unstamped) \in EventRow
    BY <2>1, <2>3, EventTypesOK DEF Unstamped
  <2> QED
    BY <1>10, <2>2, <2>4, PrepareType DEF ScheduleDowngrade, TypeOK, tables
<1>11. CASE Refuse(r)
  BY <1>11, CloseType DEF Refuse, TypeOK, Over, tables
<1>12. CASE Flush(r)
  <2>1. out[r] \in Output
    BY <1>12, Loaded DEF Flush, Running, Writing
  <2>2. out' \in [Requests -> Output \cup {None}]
    BY <1>12, <2>1 DEF Flush, TypeOK, Output, EventRow
  <2> QED
    BY <1>12, <2>2 DEF Flush, TypeOK, Goto, Control, Running, Writing, tables
<1>13. CASE Commit(r)
  <2>1. req[r] \in Request /\ out[r] \in Output
    BY <1>13, Loaded DEF Commit, Running, Writing
  <2>2. /\ req[r].tenant \in Tenants
        /\ out[r].row \in SubRow /\ out[r].event \in EventRow
        /\ ProductOf[out[r].row.plan] \in Products
    BY <2>1, DataAssumption DEF Request, Output, SubRow
  <2>3. Append(events[req[r].tenant], out[r].event) \in Seq(EventRow)
    BY <2>2 DEF TypeOK
  <2>4. /\ subs' \in [Tenants -> SubRow \cup {None}]
        /\ events' \in [Tenants -> Seq(EventRow)]
        /\ tenants' \in [Tenants -> Products \cup {None}]
    BY <1>13, <2>2, <2>3 DEF Commit, TypeOK
  <2> QED
    BY <1>13, <2>4, CloseType DEF Commit, TypeOK, Over
<1> QED
  BY <1>1, <1>2, <1>3, <1>4, <1>5, <1>6, <1>7, <1>8, <1>9, <1>10, <1>11, <1>12, <1>13
  DEF Serve

\* And so does every step of the system.
LEMMA NextType ==
  ASSUME IInv, [Next]_vars
  PROVE  TypeOK'
<1> USE DEF IInv
<1>1. ASSUME NEW r \in Requests, Arrive(r) PROVE TypeOK'
  BY <1>1, ArriveType
<1>2. ASSUME NEW r \in Requests, Serve(r) PROVE TypeOK'
  BY <1>2, ServeType
<1>3. ASSUME NEW r \in Requests, Abort(r) PROVE TypeOK'
  BY <1>3, CloseType DEF Abort, TypeOK, Over, tables
<1>4. ASSUME NEW p \in Plans, Administer(p) PROVE TypeOK'
  <2>1. SaveRows \subseteq PlanRow
    BY SubscriptionsAssumption DEF SaveRows, PlanRow
  <2>2. ASSUME NEW row \in SaveRows, SavePlan(p, row) PROVE TypeOK'
    BY <2>1, <2>2 DEF SavePlan, Store, TypeOK
  <2>3. CASE Rename(p)
    BY <2>3 DEF Rename, TypeOK, tables
  <2>4. CASE EndRename(p)
    BY <2>1, <2>4 DEF EndRename, Store, TypeOK
  <2> QED
    BY <1>4, <2>2, <2>3, <2>4 DEF Administer
<1>5. CASE Tick
  BY <1>5 DEF Tick, TypeOK, tables
<1>6. CASE UNCHANGED vars
  BY <1>6 DEF vars, TypeOK
<1> QED
  BY <1>1, <1>2, <1>3, <1>4, <1>5, <1>6 DEF Next, Finished

---------------------------------------------------------------------------
(* The other conjuncts *)

\* A step of r that leaves the tenants, the subscriptions and the clock alone,
\* takes no lock from another request, and changes only what belongs to r.
LocalStep(r) ==
  /\ UNCHANGED <<tenants, subs, clock>>
  /\ \A t \in Tenants, s \in Requests \ {r} : lock[t] = s => lock'[t] = s
  /\ \A s \in Requests \ {r} :
       pc'[s] = pc[s] /\ req'[s] = req[s] /\ tx'[s] = tx[s] /\ out'[s] = out[s]

\* What a request writes depends on the row of its tenant and on the clock.
LEMMA WriteFrame ==
  ASSUME NEW s \in Requests, WriteOK(s), UNCHANGED clock,
         pc'[s] = pc[s], req'[s] = req[s], out'[s] = out[s],
         pc[s] \in Writing => subs'[req[s].tenant] = subs[req[s].tenant]
  PROVE  WriteOK(s)'
<1>1. CASE pc[s] \in Writing
  <2>1. subs'[req'[s].tenant] = subs[req[s].tenant]
    BY <1>1
  <2>2. ASSUME NEW row, NEW event, Writes(s, row, event) PROVE Writes(s, row, event)'
    BY <2>1, <2>2 DEF Writes, WritesCreated, WritesDowngraded, WritesUpgraded, WritesScheduled
  <2> QED
    BY <1>1, <2>2 DEF WriteOK
<1>2. CASE pc[s] \notin Writing
  BY <1>2 DEF WriteOK
<1> QED
  BY <1>1, <1>2

\* After such a step it is enough to look at r.
LEMMA LocalStepKeeps ==
  ASSUME IInv, TypeOK', NEW r \in Requests, LocalStep(r), RequestOK(r)', CreateOK(r)'
  PROVE  IInv'
<1> USE DEF IInv
<1>1. ASSUME NEW s \in Requests \ {r} PROVE RequestOK(s)'
  <2>1. /\ pc'[s] = pc[s] /\ req'[s] = req[s] /\ tx'[s] = tx[s] /\ out'[s] = out[s]
        /\ UNCHANGED <<tenants, subs, clock>>
        /\ \A t \in Tenants : lock[t] = s => lock'[t] = s
        /\ RequestOK(s)
    BY DEF LocalStep, RequestInv
  <2>2. AskOK(s)' /\ SeenOK(s)'
    BY <2>1 DEF RequestOK, AskOK, SeenOK
  <2>3. HoldOK(s)'
    <3>1. pc[s] \in Running => req[s].tenant \in Tenants
      BY Loaded DEF Request
    <3> QED
      BY <2>1, <3>1 DEF RequestOK, HoldOK, Running
  <2>4. WriteOK(s)'
    BY <2>1, WriteFrame DEF RequestOK
  <2> QED
    BY <2>2, <2>3, <2>4 DEF RequestOK
<1>2. ASSUME NEW s \in Requests \ {r} PROVE CreateOK(s)'
  BY DEF LocalStep, CreateInv, CreateOK, Creating
<1>3. OwnProduct'
  BY DEF LocalStep, OwnProduct
<1> QED
  BY <1>1, <1>2, <1>3 DEF RequestInv, CreateInv

\* The end of a transaction that wrote nothing.
LEMMA CloseKeeps ==
  ASSUME IInv, TypeOK', NEW r \in Requests, NEW how \in Over,
         Close(r, how), UNCHANGED <<tables, clock>>
  PROVE  IInv'
<1>1. LocalStep(r)
  BY DEF LocalStep, Close, Goto, Released, IInv, TypeOK, tables
<1>2. pc'[r] = how /\ req'[r] = None /\ out'[r] = None
  BY DEF Close, Goto, IInv, TypeOK
<1>3. RequestOK(r)' /\ CreateOK(r)'
  BY <1>2 DEF RequestOK, AskOK, HoldOK, SeenOK, WriteOK, CreateOK, Creating,
              Over, Running, Holding, Writing
<1> QED
  BY <1>1, <1>3, LocalStepKeeps

\* A request that arrives finds the other requests as they were.
LEMMA ArriveKeeps ==
  ASSUME IInv, TypeOK', NEW r \in Requests, Arrive(r)
  PROVE  IInv'
<1> USE DEF IInv
<1>1. ASSUME NEW t \in Tenants, NEW product \in Products, BeginCreate(r, t, product)
      PROVE  IInv'
  <2>1. LocalStep(r)
    BY <1>1 DEF LocalStep, BeginCreate, Goto, TypeOK, tables
  <2>2. CASE pc'[r] = "done"
    <3>1. req'[r] = None /\ out'[r] = None
      BY <1>1, <2>2 DEF BeginCreate, Goto, TypeOK, RequestInv, RequestOK, AskOK, WriteOK,
                        Running, Holding, Writing
    <3>2. RequestOK(r)' /\ CreateOK(r)'
      BY <2>2, <3>1 DEF RequestOK, AskOK, HoldOK, SeenOK, WriteOK, CreateOK, Creating,
                        Running, Holding, Writing
    <3> QED
      BY <2>1, <3>2, LocalStepKeeps
  <2>3. CASE pc'[r] # "done"
    <3>1. PICK p \in FreePlans(product) :
            /\ pc' = [pc EXCEPT ![r] = "inserting"]
            /\ req' = [req EXCEPT ![r] = [kind |-> "create", tenant |-> t, target |-> p]]
      BY <1>1, <2>3 DEF BeginCreate, Goto, TypeOK
    <3>2. pc'[r] = "inserting" /\ req'[r] = [kind |-> "create", tenant |-> t, target |-> p]
      BY <3>1 DEF TypeOK
    <3>3. p \in Plans /\ req'[r] # None
      BY <3>1, <3>2, NoneAssumption DEF FreePlans, Request, Kinds
    <3>4. out'[r] = None
      BY <1>1 DEF BeginCreate, RequestInv, RequestOK, WriteOK, Writing
    <3>5. RequestOK(r)'
      BY <3>2, <3>3, <3>4 DEF RequestOK, AskOK, HoldOK, SeenOK, WriteOK,
                              Running, Holding, Writing
    <3>6. ASSUME NEW s \in Requests \ {r}, Creating(s)' PROVE req'[s].tenant # t
      <4>1. Creating(s) /\ req'[s] = req[s]
        BY <2>1, <3>6 DEF LocalStep, Creating
      <4>2. req[s] # None
        BY <4>1 DEF Creating, RequestInv, RequestOK, AskOK
      <4> QED
        BY <1>1, <4>1, <4>2 DEF BeginCreate, Fresh, Creating
    <3>7. CreateOK(r)'
      BY <1>1, <3>2, <3>6 DEF BeginCreate, Fresh, CreateOK, tables
    <3> QED
      BY <2>1, <3>5, <3>7, LocalStepKeeps
  <2> QED
    BY <2>2, <2>3
<1>2. ASSUME NEW t \in Tenants, NEW kind \in {"get", "upgrade", "downgrade"},
             NEW target \in Plans \cup {None},
             kind # "get" => target \in Plans,
             pc[r] = "idle", Goto(r, "locking"),
             req' = [req EXCEPT ![r] = [kind |-> kind, tenant |-> t, target |-> target]],
             UNCHANGED <<tables, lock, tx, out, clock, edits, saving>>
      PROVE  IInv'
  <2>1. LocalStep(r)
    BY <1>2 DEF LocalStep, Goto, TypeOK, tables
  <2>2. pc'[r] = "locking" /\ req'[r] = [kind |-> kind, tenant |-> t, target |-> target]
    BY <1>2 DEF Goto, TypeOK
  <2>3. req'[r] # None /\ out'[r] = None
    BY <1>2, <2>2, NoneAssumption DEF Request, Kinds, RequestInv, RequestOK, WriteOK, Writing
  <2>4. RequestOK(r)' /\ CreateOK(r)'
    BY <1>2, <2>2, <2>3 DEF RequestOK, AskOK, HoldOK, SeenOK, WriteOK, CreateOK, Creating,
                            Running, Holding, Writing
  <2> QED
    BY <2>1, <2>4, LocalStepKeeps
<1>3. ASSUME NEW t \in Tenants, BeginGet(r, t) PROVE IInv'
  BY <1>2, <1>3 DEF BeginGet
<1>4. ASSUME NEW t \in Tenants, NEW kind \in {"upgrade", "downgrade"}, NEW p \in Plans,
             BeginChange(r, t, kind, p)
      PROVE  IInv'
  BY <1>2, <1>4 DEF BeginChange
<1> QED
  BY <1>1, <1>3, <1>4 DEF Arrive

\* A step of a running request that keeps what it asks.
LEMMA WorkKeeps ==
  ASSUME IInv, TypeOK', NEW r \in Requests, pc[r] \in Running, req' = req,
         LocalStep(r), RequestOK(r)'
  PROVE  IInv'
<1>1. CreateOK(r)'
  BY DEF IInv, CreateInv, CreateOK, Creating, LocalStep
<1> QED
  BY <1>1, LocalStepKeeps

\* Loading objects: the request holds its lock before and after.
LEMMA LoadKeeps ==
  ASSUME IInv, TypeOK', NEW r \in Requests, NEW to \in Holding,
         pc[r] \in Holding, Goto(r, to),
         tx'[r].row = tx[r].row,
         \A s \in Requests \ {r} : tx'[s] = tx[s],
         to = "targeting" => req[r].kind # "get",
         to = "pending" => tx[r].row.pending # None,
         to = "deciding" /\ req[r].kind # "get" /\ req[r].target = tx[r].row.plan
           => tx'[r].target = tx'[r].plan,
         UNCHANGED <<tables, lock, req, out, clock>>
  PROVE  IInv'
<1> USE DEF IInv
<1>1. LocalStep(r) /\ pc'[r] = to
  BY DEF LocalStep, Goto, TypeOK, tables
<1>2. RequestOK(r)
  BY DEF RequestInv
<1>3. AskOK(r)'
  BY <1>1, <1>2 DEF RequestOK, AskOK, Running, Holding
<1>4. HoldOK(r)'
  BY <1>1, <1>2 DEF RequestOK, HoldOK, AskOK, tables
<1>5. SeenOK(r)' /\ WriteOK(r)'
  BY <1>1, <1>2 DEF RequestOK, SeenOK, WriteOK, Holding, Writing
<1> QED
  BY <1>1, <1>3, <1>4, <1>5, WorkKeeps DEF RequestOK, Running

\* Preparing the write that Writes describes.
LEMMA PrepareKeeps ==
  ASSUME IInv, TypeOK', NEW r \in Requests, NEW row \in SubRow, NEW event \in EventRow,
         pc[r] \in {"inserting", "deciding"}, Prepare(r, row, event),
         Writes(r, row, event),
         UNCHANGED <<tables, lock, req, clock>>
  PROVE  IInv'
<1> USE DEF IInv
<1>1. LocalStep(r) /\ pc'[r] = "flushing"
  BY DEF LocalStep, Prepare, Goto, TypeOK, tables
<1>2. RequestOK(r) /\ pc[r] \in Running
  BY DEF RequestInv, Running, Holding
<1>3. AskOK(r)' /\ SeenOK(r)'
  BY <1>1, <1>2 DEF RequestOK, AskOK, SeenOK, Running, Holding, Writing
<1>4. tx'[r].row = tx[r].row
  BY DEF Prepare, EmptySession, TypeOK
<1>5. HoldOK(r)'
  BY <1>1, <1>2, <1>4 DEF RequestOK, HoldOK, AskOK, Holding, Writing, tables
<1>6. WriteOK(r)'
  <2>1. [row |-> row, event |-> event] \in Output
    BY DEF Output
  <2>2. out'[r] = [row |-> row, event |-> event] /\ out'[r] # None
    BY <2>1, NoneAssumption DEF Prepare, TypeOK
  <2>3. Writes(r, row, event)'
    BY DEF Writes, WritesCreated, WritesDowngraded, WritesUpgraded, WritesScheduled, tables
  <2> QED
    BY <1>1, <2>2, <2>3 DEF WriteOK, Writing
<1> QED
  BY <1>1, <1>2, <1>3, <1>5, <1>6, WorkKeeps DEF RequestOK

\* The start of the clock and its present are moments.
LEMMA Moments == ASSUME TypeOK PROVE 0 \in 0 .. clock /\ clock \in 0 .. clock
BY DEF TypeOK

\* An event stamped later still describes the same write.
LEMMA Restamp ==
  ASSUME NEW r \in Requests, NEW row, NEW event, NEW at \in 0 .. clock,
         Writes(r, row, event)
  PROVE  Writes(r, row, [event EXCEPT !.created = at])
<1> DEFINE old == subs[req[r].tenant]
           stamped == [event EXCEPT !.created = at]
<1>1. ASSUME NEW target, WritesCreated(target, row, event)
      PROVE  WritesCreated(target, row, stamped)
  <2>1. \A b : [CreatedEvent(target, b) EXCEPT !.created = at] = CreatedEvent(target, at)
    BY DEF CreatedEvent
  <2> QED
    BY <1>1, <2>1 DEF WritesCreated
<1>2. ASSUME WritesDowngraded(old, row, event) PROVE WritesDowngraded(old, row, stamped)
  <2>1. \A b : [DowngradedEvent(b) EXCEPT !.created = at] = DowngradedEvent(at)
    BY DEF DowngradedEvent
  <2> QED
    BY <1>2, <2>1 DEF WritesDowngraded
<1>3. \A type, p, q, e, b :
        [ChangeEvent(type, p, q, e, b) EXCEPT !.created = at] = ChangeEvent(type, p, q, e, at)
  BY DEF ChangeEvent
<1>4. ASSUME NEW target, WritesUpgraded(old, target, row, event)
      PROVE  WritesUpgraded(old, target, row, stamped)
  BY <1>3, <1>4 DEF WritesUpgraded
<1>5. ASSUME NEW target, WritesScheduled(old, target, row, event)
      PROVE  WritesScheduled(old, target, row, stamped)
  BY <1>3, <1>5 DEF WritesScheduled
<1> QED
  BY <1>1, <1>2, <1>4, <1>5 DEF Writes

\* Every step of the server but the commit keeps the invariant.
LEMMA ServeKeeps ==
  ASSUME IInv, TypeOK', NEW r \in Requests, Serve(r), ~Commit(r)
  PROVE  IInv'
<1> USE DEF IInv
<1>0. RequestOK(r)
  BY DEF RequestInv
<1>1. CASE Insert(r)
  <2>1. req[r].target \in Plans /\ req[r].kind = "create"
    BY <1>0, <1>1, Loaded DEF Insert, RequestOK, AskOK, Running
  <2>2. /\ NewRow(req[r].target, clock) \in SubRow
        /\ CreatedEvent(req[r].target, Unstamped) \in EventRow
    BY <2>1, RowTypes, EventTypesOK DEF Unstamped, TypeOK
  <2>3. Writes(r, NewRow(req[r].target, clock), CreatedEvent(req[r].target, Unstamped))
    BY <2>1, Moments DEF Writes, WritesCreated, Unstamped
  <2> QED
    BY <1>1, <2>2, <2>3, PrepareKeeps DEF Insert
<1>2. CASE Lock(r)
  <2>1. pc[r] = "locking" /\ pc'[r] = "planning" /\ req[r].tenant \in Tenants
    BY <1>2, Loaded DEF Lock, Goto, TypeOK, Running, Request
  <2>2. LocalStep(r)
    BY <1>2, <2>1, NoneAssumption DEF Lock, LocalStep, Goto, TypeOK, tables
  <2>3. AskOK(r)' /\ SeenOK(r)' /\ WriteOK(r)'
    BY <1>0, <1>2, <2>1 DEF Lock, RequestOK, AskOK, SeenOK, WriteOK, Running, Holding, Writing
  <2>4. HoldOK(r)'
    <3>1. tx'[r].row = subs[req[r].tenant] /\ lock'[req[r].tenant] = r
      BY <1>2, <2>1 DEF Lock, TypeOK, Session
    <3> QED
      BY <1>2, <3>1 DEF Lock, HoldOK, tables
  <2> QED
    BY <1>2, <2>1, <2>2, <2>3, <2>4, WorkKeeps DEF Lock, RequestOK, Running
<1>3. CASE NoSubscription(r) \/ ReadOnly(r) \/ Refuse(r)
  BY <1>3, CloseKeeps DEF NoSubscription, ReadOnly, Refuse, Over
<1>4. CASE LoadPlan(r)
  <2>1. pc[r] = "planning" /\ req[r].kind # "create"
    BY <1>0, <1>4 DEF LoadPlan, RequestOK, AskOK, Holding
  <2>2. /\ tx'[r].row = tx[r].row /\ tx'[r].plan = plans[tx[r].row.plan]
        /\ \A s \in Requests \ {r} : tx'[s] = tx[s]
    BY <1>4 DEF LoadPlan, TypeOK, Session
  <2>3. CASE tx[r].row.pending # None
    BY <1>4, <2>1, <2>2, <2>3, LoadKeeps DEF LoadPlan, Holding
  <2>4. CASE tx[r].row.pending = None /\ req[r].kind = "get"
    BY <1>4, <2>1, <2>2, <2>4, LoadKeeps DEF LoadPlan, AfterPlans, Holding
  <2>5. CASE tx[r].row.pending = None /\ req[r].kind # "get"
    BY <1>4, <2>1, <2>2, <2>5, LoadKeeps DEF LoadPlan, AfterPlans, Holding
  <2> QED
    BY <2>3, <2>4, <2>5
<1>5. CASE LoadPending(r)
  <2>1. /\ tx'[r].row = tx[r].row
        /\ \A s \in Requests \ {r} : tx'[s] = tx[s]
    BY <1>5 DEF LoadPending, TypeOK, Session
  <2>2. CASE req[r].kind = "get"
    BY <1>5, <2>1, <2>2, LoadKeeps DEF LoadPending, AfterPlans, Holding
  <2>3. CASE req[r].kind # "get"
    BY <1>5, <2>1, <2>3, LoadKeeps DEF LoadPending, AfterPlans, Holding
  <2> QED
    BY <2>2, <2>3
<1>6. CASE LoadTarget(r)
  <2>1. /\ tx'[r].row = tx[r].row
        /\ tx'[r].plan = tx[r].plan /\ tx'[r].target = PlanSeen(r)
        /\ \A s \in Requests \ {r} : tx'[s] = tx[s]
    BY <1>6 DEF LoadTarget, TypeOK, Session
  <2>2. req[r].target = tx[r].row.plan => PlanSeen(r) = tx[r].plan
    BY DEF PlanSeen
  <2> QED
    BY <1>6, <2>1, <2>2, LoadKeeps DEF LoadTarget, Holding
<1>7. CASE ApplyDue(r)
  <2>1. /\ tx[r].row \in SubRow /\ req[r].kind = "get"
        /\ tx[r].row = subs[req[r].tenant] /\ clock \in Nat
    BY <1>0, <1>7, Loaded DEF ApplyDue, Deciding, Running, Holding, RequestOK, HoldOK, TypeOK
  <2>2. /\ Downgraded(tx[r].row, clock) \in SubRow
        /\ DowngradedEvent(Unstamped) \in EventRow
    BY <1>7, <2>1, RowTypes, EventTypesOK DEF ApplyDue, Unstamped
  <2>3. Writes(r, Downgraded(tx[r].row, clock), DowngradedEvent(Unstamped))
    BY <1>7, <2>1, Moments DEF ApplyDue, Writes, WritesDowngraded, Unstamped
  <2> QED
    BY <1>7, <2>2, <2>3, PrepareKeeps DEF ApplyDue, Deciding
<1>8. ASSUME Upgrade(r) \/ ScheduleDowngrade(r)
      PROVE  /\ tx[r].row = subs[req[r].tenant] /\ tx[r].row \in SubRow
             /\ tx[r].row.plan \in Plans /\ req[r].target \in Plans
             /\ req[r].target # tx[r].row.plan
             /\ ProductOf[req[r].target] = ProductOf[tx[r].row.plan]
  <2>1. pc[r] = "deciding" /\ req[r].kind \in {"upgrade", "downgrade"} /\ OnSale(r)
    BY <1>8 DEF Upgrade, UpgradeAllowed, ScheduleDowngrade, DowngradeAllowed, Deciding
  <2>2. /\ tx[r].row = subs[req[r].tenant] /\ tx[r].row \in SubRow
        /\ tx[r].row.plan \in Plans /\ req[r].target \in Plans
    BY <1>0, <2>1, Loaded DEF RequestOK, HoldOK, Running, Holding
  <2>3. tx[r].target.position \in Nat
    BY <2>1 DEF OnSale, TypeOK, Session, PlanRow
  <2>4. tx[r].target # tx[r].plan
    BY <1>8, <2>3 DEF Upgrade, UpgradeAllowed, ScheduleDowngrade, DowngradeAllowed
  <2>5. req[r].target # tx[r].row.plan
    BY <1>0, <2>1, <2>4 DEF RequestOK, SeenOK
  <2> QED
    BY <2>1, <2>2, <2>5 DEF OnSale
<1>9. CASE Upgrade(r)
  <2> DEFINE row == tx[r].row
             new == [row EXCEPT !.plan = req[r].target, !.pending = None]
             event == ChangeEvent("upgraded", row.plan, req[r].target, None, Unstamped)
  <2>1. new \in SubRow /\ event \in EventRow
    BY <1>8, <1>9, RowTypes, EventTypesOK DEF Unstamped
  <2>2. WritesUpgraded(row, req[r].target, new, event)
    BY <1>8, <1>9, Moments DEF WritesUpgraded, Unstamped
  <2>3. Writes(r, new, event)
    BY <1>8, <1>9, <2>2 DEF Upgrade, Deciding, Writes
  <2>4. Prepare(r, new, event)
    BY <1>9 DEF Upgrade
  <2> QED
    BY <1>9, <2>1, <2>3, <2>4, PrepareKeeps DEF Upgrade, Deciding
<1>10. CASE ScheduleDowngrade(r)
  <2> DEFINE row == tx[r].row
             new == [row EXCEPT !.pending = req[r].target]
             event == ChangeEvent("downgrade_scheduled", row.plan, req[r].target, row.end,
                                  Unstamped)
  <2>1. new \in SubRow /\ event \in EventRow
    BY <1>8, <1>10, RowTypes, EventTypesOK DEF Unstamped, SubRow
  <2>2. WritesScheduled(row, req[r].target, new, event)
    BY <1>8, <1>10, Moments DEF WritesScheduled, Unstamped
  <2>3. Writes(r, new, event)
    BY <1>8, <1>10, <2>2 DEF ScheduleDowngrade, Deciding, Writes
  <2>4. Prepare(r, new, event)
    BY <1>10 DEF ScheduleDowngrade
  <2> QED
    BY <1>10, <2>1, <2>3, <2>4, PrepareKeeps DEF ScheduleDowngrade, Deciding
<1>11. CASE Flush(r)
  <2>1. /\ pc[r] = "flushing" /\ pc'[r] = "committing" /\ LocalStep(r)
        /\ out[r] \in Output /\ Writes(r, out[r].row, out[r].event)
    BY <1>0, <1>11, Loaded DEF Flush, Goto, LocalStep, TypeOK, Running, Writing, RequestOK,
                               WriteOK, tables
  <2>2. AskOK(r)' /\ SeenOK(r)' /\ HoldOK(r)'
    BY <1>0, <1>11, <2>1 DEF Flush, RequestOK, AskOK, SeenOK, HoldOK, Running, Holding, Writing,
                             tables
  <2>3. /\ out'[r].row = out[r].row
        /\ out'[r].event = [out[r].event EXCEPT !.created = clock]
        /\ out'[r] \in Output
    BY <1>11, <2>1 DEF Flush, TypeOK, Output, EventRow
  <2>4. Writes(r, out[r].row, [out[r].event EXCEPT !.created = clock])
    BY <2>1, Moments, Restamp
  <2>5. Writes(r, out[r].row, [out[r].event EXCEPT !.created = clock])'
    BY <1>11, <2>4 DEF Flush, Writes, WritesCreated, WritesDowngraded, WritesUpgraded,
                       WritesScheduled, tables
  <2>6. WriteOK(r)'
    BY <1>11, <2>1, <2>3, <2>5, NoneAssumption DEF Flush, WriteOK, Writing
  <2> QED
    BY <1>11, <2>1, <2>2, <2>6, WorkKeeps DEF Flush, RequestOK, Running, Writing
<1> QED
  BY <1>1, <1>2, <1>3, <1>4, <1>5, <1>6, <1>7, <1>9, <1>10, <1>11 DEF Serve

\* Nobody else has loaded, or is about to write, the row a commit replaces.
LEMMA CommitAlone ==
  ASSUME IInv, NEW r \in Requests, pc[r] = "committing",
         NEW s \in Requests \ {r}, pc[s] \in {"inserting"} \cup Holding \cup Writing
  PROVE  req[s].tenant # req[r].tenant
<1> USE DEF IInv
<1>1. /\ RequestOK(r) /\ RequestOK(s) /\ CreateOK(r) /\ CreateOK(s)
      /\ pc[r] \in Running /\ pc[s] \in Running
      /\ req[r].tenant \in Tenants /\ req[s].tenant \in Tenants
  BY Loaded DEF RequestInv, CreateInv, Running, Writing, Request
<1>2. CASE req[r].kind = "create" /\ req[s].kind = "create"
  BY <1>1, <1>2 DEF CreateOK, Creating
<1>3. CASE req[r].kind = "create" /\ req[s].kind # "create"
  BY <1>1, <1>3 DEF CreateOK, Creating, RequestOK, HoldOK, AskOK, OwnProduct
<1>4. CASE req[r].kind # "create" /\ req[s].kind = "create"
  BY <1>1, <1>4 DEF CreateOK, Creating, RequestOK, HoldOK, Writing, OwnProduct
<1>5. CASE req[r].kind # "create" /\ req[s].kind # "create"
  BY <1>1, <1>5 DEF RequestOK, HoldOK, AskOK, Writing
<1> QED
  BY <1>2, <1>3, <1>4, <1>5

\* The plans of the row written belong to the product of the tenant.
LEMMA CommitProduct ==
  ASSUME IInv, TypeOK', NEW r \in Requests, Commit(r)
  PROVE  OwnProduct'
<1> USE DEF IInv
<1> DEFINE t == req[r].tenant
           row == out[r].row
<1>1. /\ pc[r] = "committing" /\ RequestOK(r) /\ CreateOK(r)
      /\ pc[r] \in Running /\ t \in Tenants /\ req[r] \in Request /\ out[r] \in Output
      /\ row \in SubRow /\ row # None
      /\ Writes(r, row, out[r].event)
  BY Loaded, NoneAssumption
  DEF Commit, RequestInv, CreateInv, RequestOK, WriteOK, Running, Writing, Request, Output
<1>2. /\ subs'[t] = row
      /\ \A u \in Tenants \ {t} : subs'[u] = subs[u] /\ tenants'[u] = tenants[u]
      /\ tenants'[t] = IF req[r].kind = "create" THEN ProductOf[row.plan] ELSE tenants[t]
  BY <1>1 DEF Commit, TypeOK
<1>3. ProductOf[row.plan] \in Products /\ None \notin Products
  BY <1>1, DataAssumption DEF SubRow
<1>4. /\ tenants'[t] # None
      /\ ProductOf[row.plan] = tenants'[t]
      /\ row.pending # None => ProductOf[row.pending] = tenants'[t]
  <2>1. CASE req[r].kind = "create"
    <3>1. WritesCreated(req[r].target, row, out[r].event)
      BY <1>1, <2>1 DEF Writes
    <3>2. row.pending = None
      BY <3>1 DEF WritesCreated, NewRow
    <3> QED
      BY <1>2, <1>3, <2>1, <3>2
  <2>2. ASSUME req[r].kind # "create"
        PROVE  /\ tenants'[t] = tenants[t] /\ tenants[t] # None
               /\ subs[t] \in SubRow
               /\ ProductOf[subs[t].plan] = tenants[t]
               /\ subs[t].pending # None => ProductOf[subs[t].pending] = tenants[t]
    BY <1>1, <1>2, <2>2 DEF RequestOK, HoldOK, Writing, OwnProduct, TypeOK
  <2>3. CASE req[r].kind = "get"
    <3>1. WritesDowngraded(subs[t], row, out[r].event)
      BY <1>1, <2>3 DEF Writes
    <3>2. row.plan = subs[t].pending /\ row.pending = None /\ subs[t].pending # None
      BY <3>1 DEF WritesDowngraded, Due, Downgraded
    <3> QED
      BY <2>2, <2>3, <3>2
  <2>4. CASE req[r].kind = "upgrade"
    <3>1. row.plan = req[r].target /\ row.pending = None
      BY <1>1, <2>2, <2>4 DEF Writes, WritesUpgraded, SubRow
    <3> QED
      BY <1>1, <2>2, <2>4, <3>1 DEF Writes, WritesUpgraded
  <2>5. CASE req[r].kind = "downgrade"
    <3>1. row.plan = subs[t].plan /\ row.pending = req[r].target
      BY <1>1, <2>2, <2>5 DEF Writes, WritesScheduled, SubRow
    <3> QED
      BY <1>1, <2>2, <2>5, <3>1 DEF Writes, WritesScheduled
  <2> QED
    BY <1>1, <2>1, <2>3, <2>4, <2>5 DEF Request, Kinds
<1> QED
  BY <1>1, <1>2, <1>4 DEF OwnProduct

\* A commit replaces a row that no other request works on.
LEMMA CommitKeeps ==
  ASSUME IInv, TypeOK', NEW r \in Requests, Commit(r)
  PROVE  IInv'
<1> USE DEF IInv
<1> DEFINE t == req[r].tenant
<1>1. pc[r] = "committing" /\ pc'[r] = "done" /\ req'[r] = None /\ out'[r] = None
  BY DEF Commit, Close, Goto, TypeOK
<1>2. \A s \in Requests \ {r} :
        /\ pc'[s] = pc[s] /\ req'[s] = req[s] /\ tx'[s] = tx[s] /\ out'[s] = out[s]
        /\ \A u \in Tenants : lock[u] = s => lock'[u] = s
  BY DEF Commit, Close, Goto, Released, TypeOK
<1>3. /\ \A u \in Tenants \ {t} : subs'[u] = subs[u] /\ tenants'[u] = tenants[u]
      /\ UNCHANGED clock
  BY DEF Commit, TypeOK
<1>4. RequestOK(r)' /\ CreateOK(r)'
  BY <1>1 DEF RequestOK, AskOK, HoldOK, SeenOK, WriteOK, CreateOK, Creating,
              Running, Holding, Writing
<1>5. ASSUME NEW s \in Requests \ {r} PROVE RequestOK(s)' /\ CreateOK(s)'
  <2>1. /\ RequestOK(s) /\ CreateOK(s)
        /\ pc[s] \in Running => req[s].tenant \in Tenants
    BY Loaded DEF RequestInv, CreateInv, Request
  <2>2. pc[s] \in {"inserting"} \cup Holding \cup Writing => req[s].tenant # t
    BY <1>1, CommitAlone
  <2>3. AskOK(s)' /\ SeenOK(s)'
    BY <1>2, <2>1 DEF RequestOK, AskOK, SeenOK
  <2>4. HoldOK(s)'
    BY <1>2, <1>3, <2>1, <2>2 DEF RequestOK, HoldOK, Running
  <2>5. WriteOK(s)'
    <3>1. pc[s] \in Writing => subs'[req[s].tenant] = subs[req[s].tenant]
      BY <1>3, <2>1, <2>2 DEF Running
    <3> QED
      BY <1>2, <1>3, <2>1, <3>1, WriteFrame DEF RequestOK
  <2>6. CreateOK(s)'
    <3>1. \A q \in Requests : Creating(q)' => q # r /\ Creating(q) /\ req'[q] = req[q]
      BY <1>1, <1>2 DEF Creating, Running, Holding, Writing
    <3>2. Creating(s) => tenants'[req[s].tenant] = None
      <4>1. Creating(s) => pc[s] \in {"inserting"} \cup Writing
        BY <2>1 DEF Creating, RequestOK, AskOK, Running
      <4> QED
        BY <1>3, <2>1, <2>2, <4>1 DEF CreateOK, Creating
    <3> QED
      BY <2>1, <3>1, <3>2 DEF CreateOK
  <2> QED
    BY <2>1, <2>3, <2>4, <2>5, <2>6 DEF RequestOK
<1>6. OwnProduct'
  BY CommitProduct
<1> QED
  BY <1>4, <1>5, <1>6 DEF RequestInv, CreateInv

\* Time passes, or the catalogue changes.
LEMMA QuietKeeps ==
  ASSUME IInv, TypeOK', UNCHANGED <<tenants, subs, lock, pc, req, tx, out>>,
         \A now \in 0 .. clock : now \in 0 .. clock'
  PROVE  IInv'
<1> USE DEF IInv
<1>1. ASSUME NEW s \in Requests PROVE RequestOK(s)' /\ CreateOK(s)'
  <2>1. RequestOK(s) /\ CreateOK(s)
    BY DEF RequestInv, CreateInv
  <2>2. AskOK(s)' /\ SeenOK(s)' /\ HoldOK(s)' /\ CreateOK(s)'
    BY <2>1 DEF RequestOK, AskOK, SeenOK, HoldOK, CreateOK, Creating
  <2>3. ASSUME NEW row, NEW event, Writes(s, row, event) PROVE Writes(s, row, event)'
    <3> DEFINE old == subs[req[s].tenant]
               target == req[s].target
    <3>1. WritesCreated(target, row, event) => WritesCreated(target, row, event)'
      BY DEF WritesCreated
    <3>2. WritesDowngraded(old, row, event) => WritesDowngraded(old, row, event)'
      BY DEF WritesDowngraded
    <3>3. WritesUpgraded(old, target, row, event) => WritesUpgraded(old, target, row, event)'
      BY DEF WritesUpgraded
    <3>4. WritesScheduled(old, target, row, event) => WritesScheduled(old, target, row, event)'
      BY DEF WritesScheduled
    <3> QED
      BY <2>3, <3>1, <3>2, <3>3, <3>4 DEF Writes
  <2>4. WriteOK(s)'
    BY <2>1, <2>3 DEF RequestOK, WriteOK
  <2> QED
    BY <2>2, <2>4 DEF RequestOK
<1>2. OwnProduct'
  BY DEF OwnProduct
<1> QED
  BY <1>1, <1>2 DEF RequestInv, CreateInv

---------------------------------------------------------------------------
(* The invariant holds *)

\* The invariant holds before the first request.
LEMMA InitIInv == Init => IInv
<1> SUFFICES ASSUME Init PROVE IInv
  OBVIOUS
<1>1. TypeOK
  <2>1. events \in [Tenants -> Seq(EventRow)]
    BY DEF Init
  <2> QED
    BY <2>1, SubscriptionsAssumption, SessionTypes DEF Init, TypeOK, Control
<1>2. RequestInv
  BY DEF Init, RequestInv, RequestOK, AskOK, HoldOK, SeenOK, WriteOK, Running, Holding, Writing
<1>3. CreateInv
  BY DEF Init, CreateInv, CreateOK, Creating, Running, Holding, Writing
<1>4. OwnProduct
  BY DEF Init, OwnProduct
<1> QED
  BY <1>1, <1>2, <1>3, <1>4 DEF IInv

\* Every step of the system keeps it.
LEMMA NextIInv == IInv /\ [Next]_vars => IInv'
<1> SUFFICES ASSUME IInv, [Next]_vars PROVE IInv'
  OBVIOUS
<1>0. TypeOK'
  BY NextType
<1>1. ASSUME NEW r \in Requests, Arrive(r) PROVE IInv'
  BY <1>0, <1>1, ArriveKeeps
<1>2. ASSUME NEW r \in Requests, Serve(r) PROVE IInv'
  BY <1>0, <1>2, ServeKeeps, CommitKeeps
<1>3. ASSUME NEW r \in Requests, Abort(r) PROVE IInv'
  BY <1>0, <1>3, CloseKeeps DEF Abort, Over
<1>4. ASSUME NEW p \in Plans, Administer(p) PROVE IInv'
  BY <1>0, <1>4, QuietKeeps DEF Administer, SavePlan, Rename, EndRename, tables
<1>5. CASE Tick
  <2>1. \A now \in 0 .. clock : now \in 0 .. clock'
    BY <1>5 DEF Tick, IInv, TypeOK
  <2> QED
    BY <1>0, <1>5, <2>1, QuietKeeps DEF Tick, tables
<1>6. CASE UNCHANGED vars
  BY <1>0, <1>6, QuietKeeps DEF vars
<1> QED
  BY <1>1, <1>2, <1>3, <1>4, <1>5, <1>6 DEF Next, Finished

\* The inductive invariant holds in every reachable state: a running request
\* writes exactly what Writes says, on a row that is still the one it locked.
THEOREM Inductive == Spec => []IInv
BY InitIInv, NextIInv, PTL DEF Spec

\* Every variable keeps its type; in particular current_period_end is never
\* NULL, so the default change_plan has for it is never used.
THEOREM TypeCorrect == Spec => []TypeOK
<1>1. IInv => TypeOK
  BY DEF IInv
<1> QED
  BY <1>1, Inductive, PTL

\* No change of a subscription is lost: the row a request decides on is the
\* committed one until it ends (SELECT ... FOR UPDATE in _get_subscription).
THEOREM LocksProtectRows == Spec => []NoLostUpdate
<1>1. IInv => NoLostUpdate
  BY DEF IInv, RequestInv, RequestOK, HoldOK, NoLostUpdate
<1> QED
  BY <1>1, Inductive, PTL

\* A tenant never holds, in force or scheduled, a plan of another product, for
\* any catalogue and any edits of it.
THEOREM PlansOfOwnProduct == Spec => []OwnProduct
<1>1. IInv => OwnProduct
  BY DEF IInv
<1> QED
  BY <1>1, Inductive, PTL

---------------------------------------------------------------------------
(* The row locks *)

\* A step that gives r no lock, moves r no further than its commit and changes
\* nobody else keeps every holder at work.
LEMMA WorkKeepsHolders ==
  ASSUME TypeOK, HolderIsAtWork, NEW r \in Requests, NEW to \in Holding \cup Writing,
         Goto(r, to), lock' = lock, req' = req
  PROVE  HolderIsAtWork'
BY DEF TypeOK, HolderIsAtWork, Goto

\* So does the end of a transaction, which leaves none of its locks behind.
LEMMA CloseKeepsHolders ==
  ASSUME TypeOK, HolderIsAtWork, NEW r \in Requests, NEW how, Close(r, how)
  PROVE  HolderIsAtWork'
<1> SUFFICES ASSUME NEW t \in Tenants, NEW s \in Requests, lock'[t] = s
             PROVE  pc'[s] \in Holding \cup Writing /\ req'[s].kind # "create"
                    /\ req'[s].tenant = t
  BY DEF HolderIsAtWork
<1>1. lock[t] = s /\ s # r
  BY NoneAssumption DEF Close, Released
<1>2. pc'[s] = pc[s] /\ req'[s] = req[s]
  BY <1>1 DEF Close, Goto, TypeOK
<1> QED
  BY <1>1, <1>2 DEF HolderIsAtWork

\* Every step of the server keeps every holder at work.
LEMMA ServeKeepsHolders ==
  ASSUME IInv, HolderIsAtWork, NEW r \in Requests, Serve(r)
  PROVE  HolderIsAtWork'
<1>0. TypeOK /\ RequestOK(r)
  BY DEF IInv, RequestInv
<1>1. CASE Lock(r)
  <2> DEFINE t == req[r].tenant
  <2>1. /\ pc'[r] = "planning" /\ req' = req /\ req[r].kind # "create"
        /\ lock' = [lock EXCEPT ![t] = r]
        /\ \A s \in Requests \ {r} : pc'[s] = pc[s]
    BY <1>0, <1>1 DEF Lock, Goto, TypeOK, RequestOK, AskOK
  <2>2. \A u \in Tenants : lock[u] # r
    BY <1>1 DEF Lock, HolderIsAtWork, Holding, Writing
  <2>3. ASSUME NEW u \in Tenants, NEW s \in Requests, lock'[u] = s
        PROVE  pc'[s] \in Holding \cup Writing /\ req'[s].kind # "create"
               /\ req'[s].tenant = u
    <3>1. CASE s = r
      <4>1. u = t
        BY <1>0, <2>1, <2>2, <2>3, <3>1 DEF TypeOK
      <4> QED
        BY <2>1, <3>1, <4>1 DEF Holding
    <3>2. CASE s # r
      BY <1>0, <2>1, <2>3, <3>2 DEF TypeOK, HolderIsAtWork
    <3> QED
      BY <3>1, <3>2
  <2> QED
    BY <2>3 DEF HolderIsAtWork
<1>2. CASE NoSubscription(r) \/ ReadOnly(r) \/ Refuse(r) \/ Commit(r)
  BY <1>0, <1>2, CloseKeepsHolders DEF NoSubscription, ReadOnly, Refuse, Commit
<1>3. CASE LoadPlan(r)
  BY <1>0, <1>3, WorkKeepsHolders DEF LoadPlan, AfterPlans, Holding
<1>4. CASE LoadPending(r)
  BY <1>0, <1>4, WorkKeepsHolders DEF LoadPending, AfterPlans, Holding
<1>5. CASE LoadTarget(r)
  BY <1>0, <1>5, WorkKeepsHolders DEF LoadTarget, Holding
<1>6. CASE Insert(r) \/ ApplyDue(r) \/ Upgrade(r) \/ ScheduleDowngrade(r)
  BY <1>0, <1>6, WorkKeepsHolders
  DEF Insert, ApplyDue, Upgrade, ScheduleDowngrade, Prepare, Writing
<1>7. CASE Flush(r)
  BY <1>0, <1>7, WorkKeepsHolders DEF Flush, Writing
<1> QED
  BY <1>1, <1>2, <1>3, <1>4, <1>5, <1>6, <1>7 DEF Serve

\* And so does every other step of the system.
LEMMA NextKeepsHolders ==
  ASSUME IInv, HolderIsAtWork, [Next]_vars
  PROVE  HolderIsAtWork'
<1>0. TypeOK
  BY DEF IInv
<1>1. ASSUME NEW r \in Requests, Arrive(r)
      PROVE  HolderIsAtWork'
  <2>1. /\ pc[r] = "idle" /\ lock' = lock
        /\ \A s \in Requests \ {r} : pc'[s] = pc[s] /\ req'[s] = req[s]
    BY <1>0, <1>1 DEF Arrive, BeginCreate, BeginGet, BeginChange, Goto, TypeOK
  <2>2. \A t \in Tenants : lock[t] # r
    BY <2>1 DEF HolderIsAtWork, Holding, Writing
  <2> QED
    BY <2>1, <2>2 DEF HolderIsAtWork
<1>2. ASSUME NEW r \in Requests, Serve(r)
      PROVE  HolderIsAtWork'
  BY <1>2, ServeKeepsHolders
<1>3. ASSUME NEW r \in Requests, Abort(r)
      PROVE  HolderIsAtWork'
  BY <1>0, <1>3, CloseKeepsHolders DEF Abort
<1>4. CASE UNCHANGED <<lock, pc, req>>
  BY <1>4 DEF HolderIsAtWork
<1> QED
  BY <1>1, <1>2, <1>3, <1>4 DEF Next, Administer, SavePlan, Rename, EndRename, Tick, Finished, vars, tables

\* Whoever holds the lock of a subscription is at work on that subscription,
\* for any number of requests and tenants: no request waits for the row of one
\* that is over, or of one that waits for a row.
THEOREM HoldersWork == Spec => []HolderIsAtWork
<1>1. Init => HolderIsAtWork
  BY NoneAssumption DEF Init, HolderIsAtWork
<1>2. IInv /\ HolderIsAtWork /\ [Next]_vars => HolderIsAtWork'
  BY NextKeepsHolders
<1> QED
  BY <1>1, <1>2, Inductive, PTL DEF Spec
===========================================================================
