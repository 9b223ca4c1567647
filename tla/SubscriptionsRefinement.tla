---------------------- MODULE SubscriptionsRefinement ----------------------
(***************************************************************************)
(* Subscriptions implements SubscriptionLedger, and what follows from that *)
(* about the audit log.                                                    *)
(***************************************************************************)
EXTENDS SubscriptionsProofs

---------------------------------------------------------------------------
(* Every step is a step of the ledger or leaves it alone *)

\* A commit is one step of the ledger, on the subscription of its request.
LEMMA CommitRefines ==
  ASSUME IInv, NEW r \in Requests, Commit(r)
  PROVE  LET t == req[r].tenant IN
           /\ t \in Tenants
           /\ Ledger!Create(t) \/ Ledger!Upgrade(t) \/ Ledger!Schedule(t) \/ Ledger!Apply(t)
<1> USE DEF IInv
<1> DEFINE t == req[r].tenant
           old == subs[t]
           target == req[r].target
           row == out[r].row
           event == out[r].event
<1>1. /\ pc[r] = "committing" /\ pc[r] \in Running /\ pc[r] \in Writing
      /\ RequestOK(r) /\ CreateOK(r)
      /\ t \in Tenants /\ req[r] \in Request
      /\ req[r].kind # "get" => target \in Plans
      /\ Writes(r, row, event)
  BY Loaded DEF Commit, RequestInv, CreateInv, RequestOK, WriteOK, Running, Writing, Request
<1>2. /\ subs' = [subs EXCEPT ![t] = row]
      /\ events' = [events EXCEPT ![t] = Append(events[t], event)]
      /\ UNCHANGED clock
  BY DEF Commit
<1>3. CASE req[r].kind = "create"
  <2>1. subs[t] = None
    BY <1>1, <1>3 DEF CreateOK, Creating, OwnProduct
  <2>2. PICK now \in 0 .. clock, at \in 0 .. clock :
          row = NewRow(target, now) /\ event = CreatedEvent(target, at)
    BY <1>1, <1>3 DEF Writes, WritesCreated
  <2>3. row.plan = target
    BY <2>2 DEF NewRow
  <2>4. tenants' = [tenants EXCEPT ![t] = ProductOf[target]]
    BY <1>3, <2>3 DEF Commit
  <2>5. Ledger!Create(t)
    BY <1>1, <1>2, <1>3, <2>1, <2>2, <2>4
    DEF Ledger!Create, Ledger!Moment, NewRow, CreatedEvent, Ledger!NewRow, Ledger!CreatedEvent
  <2> QED
    BY <1>1, <2>5
<1>4. ASSUME req[r].kind # "create"
      PROVE  tenants' = tenants /\ old # None /\ ProductOf[old.plan] = tenants[t]
  BY <1>1, <1>4 DEF Commit, RequestOK, HoldOK, OwnProduct
<1>5. CASE req[r].kind = "get"
  <2>1. PICK now \in 0 .. clock, at \in 0 .. clock :
          Due(old, now) /\ row = Downgraded(old, now) /\ event = DowngradedEvent(at)
    BY <1>1, <1>5 DEF Writes, WritesDowngraded
  <2>2. Ledger!Apply(t)
    BY <1>2, <1>4, <1>5, <2>1
    DEF Ledger!Apply, Ledger!Moment, Due, Downgraded, DowngradedEvent,
        Ledger!Due, Ledger!Downgraded, Ledger!DowngradedEvent
  <2> QED
    BY <1>1, <2>2
<1>6. CASE req[r].kind = "upgrade"
  <2>1. PICK at \in 0 .. clock :
          /\ target # old.plan /\ ProductOf[target] = ProductOf[old.plan]
          /\ row = [old EXCEPT !.plan = target, !.pending = None]
          /\ event = ChangeEvent("upgraded", old.plan, target, None, at)
    BY <1>1, <1>6 DEF Writes, WritesUpgraded
  <2>2. target \in Plans \ {subs[t].plan} /\ at \in Ledger!Moment /\ ProductOf[target] = tenants[t]
    BY <1>1, <1>4, <1>6, <2>1 DEF Ledger!Moment
  <2>3. subs' = [subs EXCEPT ![t] = [subs[t] EXCEPT !.plan = target, !.pending = None]]
    BY <1>2, <2>1
  <2>4. events' = [events EXCEPT ![t] =
          Append(events[t], Ledger!ChangeEvent("upgraded", subs[t].plan, target, None, at))]
    BY <1>2, <2>1 DEF ChangeEvent, Ledger!ChangeEvent
  <2>5. Ledger!Upgrade(t)
    BY <1>2, <1>4, <1>6, <2>2, <2>3, <2>4, Zenon DEF Ledger!Upgrade
  <2> QED
    BY <1>1, <2>5
<1>7. CASE req[r].kind = "downgrade"
  <2>1. PICK at \in 0 .. clock :
          /\ target # old.plan /\ ProductOf[target] = ProductOf[old.plan]
          /\ row = [old EXCEPT !.pending = target]
          /\ event = ChangeEvent("downgrade_scheduled", old.plan, target, old.end, at)
    BY <1>1, <1>7 DEF Writes, WritesScheduled
  <2>2. target \in Plans \ {subs[t].plan} /\ at \in Ledger!Moment /\ ProductOf[target] = tenants[t]
    BY <1>1, <1>4, <1>7, <2>1 DEF Ledger!Moment
  <2>3. subs' = [subs EXCEPT ![t] = [subs[t] EXCEPT !.pending = target]]
    BY <1>2, <2>1
  <2>4. events' = [events EXCEPT ![t] = Append(events[t],
          Ledger!ChangeEvent("downgrade_scheduled", subs[t].plan, target, subs[t].end, at))]
    BY <1>2, <2>1 DEF ChangeEvent, Ledger!ChangeEvent
  <2>5. Ledger!Schedule(t)
    BY <1>2, <1>4, <1>7, <2>2, <2>3, <2>4, Zenon DEF Ledger!Schedule
  <2> QED
    BY <1>1, <2>5
<1> QED
  BY <1>1, <1>3, <1>5, <1>6, <1>7 DEF Request, Kinds

\* Every step is a step of the ledger, or leaves its variables alone.
LEMMA StepRefines ==
  ASSUME IInv, [Next]_vars
  PROVE  \/ \E t \in Tenants :
              Ledger!Create(t) \/ Ledger!Upgrade(t) \/ Ledger!Schedule(t) \/ Ledger!Apply(t)
         \/ Ledger!Pass
         \/ UNCHANGED Ledger!lvars
<1> USE DEF Ledger!lvars
<1>1. ASSUME NEW r \in Requests, Arrive(r) PROVE UNCHANGED Ledger!lvars
  BY <1>1 DEF Arrive, BeginCreate, BeginGet, BeginChange, tables
<1>2. ASSUME NEW r \in Requests, Serve(r), ~Commit(r) PROVE UNCHANGED Ledger!lvars
  BY <1>2 DEF Serve, Insert, Lock, NoSubscription, LoadPlan, LoadPending, LoadTarget, ApplyDue,
              ReadOnly, Upgrade, ScheduleDowngrade, Refuse, Flush, tables
<1>3. ASSUME NEW r \in Requests, Commit(r)
      PROVE  \E t \in Tenants :
               Ledger!Create(t) \/ Ledger!Upgrade(t) \/ Ledger!Schedule(t) \/ Ledger!Apply(t)
  BY <1>3, CommitRefines
<1>4. ASSUME NEW r \in Requests, Abort(r) PROVE UNCHANGED Ledger!lvars
  BY <1>4 DEF Abort, tables
<1>5. ASSUME NEW p \in Plans, Administer(p) PROVE UNCHANGED Ledger!lvars
  BY <1>5 DEF Administer, SavePlan, Rename, EndRename, tables
<1>6. CASE Tick
  BY <1>6 DEF Tick, Ledger!Pass, tables
<1>7. CASE UNCHANGED vars
  BY <1>7 DEF vars
<1> QED
  BY <1>1, <1>2, <1>3, <1>4, <1>5, <1>6, <1>7 DEF Next, Finished

\* The service implements the ledger: its interleaved, abortable transactions
\* amount to atomic changes, each of one subscription with its one event.
THEOREM RefinesLedger == Spec => ImplementsLedger
<1>1. Init => Ledger!LInit
  BY DEF Init, Ledger!LInit
<1>2. IInv /\ [Next]_vars => [Ledger!LNext]_(Ledger!lvars)
  BY StepRefines DEF Ledger!LNext
<1> QED
  BY <1>1, <1>2, Inductive, PTL DEF Spec, ImplementsLedger, Ledger!LSpec

---------------------------------------------------------------------------
(* The audit log *)

\* A tenant without a subscription has no events; the log of one with a
\* subscription can be replayed and ends in the row.
AuditOK(log, row) ==
  IF row = None THEN log = <<>> ELSE Explains(log, row) /\ Replayable(log)

AuditInv == \A t \in Tenants : AuditOK(events[t], subs[t])

\* One more event does not change what the log said before.
LEMMA AppendEvent ==
  ASSUME NEW log \in Seq(EventRow), NEW e \in EventRow, Replayable(log)
  PROVE  LET new == Append(log, e)
             n == Len(log)
         IN /\ Len(new) = n + 1
            /\ new[n + 1] = e
            /\ n > 0 => new[n] = log[n] /\ PlanAfter(new, n) = PlanAfter(log, n)
            /\ Follows(new, n + 1) => Replayable(new)
<1> DEFINE new == Append(log, e)
           n == Len(log)
<1>1. /\ n \in Nat /\ Len(new) = n + 1 /\ new[n + 1] = e
      /\ \A i \in 1 .. n : new[i] = log[i]
  OBVIOUS
<1>2. \A i \in 1 .. n : i = 1 \/ i - 1 \in 1 .. n
  BY <1>1
<1>3. ASSUME NEW i \in 1 .. n PROVE PlanAfter(new, i) = PlanAfter(log, i)
  <2>1. CASE i = 1
    <3>1. log[1].type = "created" /\ new[1] = log[1]
      BY <1>1, <2>1 DEF Replayable, Follows
    <3> QED
      BY <2>1, <3>1 DEF PlanAfter
  <2>2. CASE i # 1
    <3>1. new[i] = log[i] /\ new[i - 1] = log[i - 1]
      BY <1>1, <1>2, <2>2
    <3> QED
      BY <3>1 DEF PlanAfter
  <2> QED
    BY <2>1, <2>2
<1>4. ASSUME NEW i \in 1 .. n PROVE Follows(new, i)
  <2>1. Follows(log, i)
    BY DEF Replayable
  <2>2. CASE i = 1
    BY <1>1, <2>1, <2>2 DEF Follows
  <2>3. CASE i # 1
    <3>1. /\ new[i] = log[i] /\ new[i - 1] = log[i - 1]
          /\ PlanAfter(new, i - 1) = PlanAfter(log, i - 1)
      BY <1>1, <1>2, <1>3, <2>3
    <3> QED
      BY <2>1, <2>3, <3>1 DEF Follows
  <2> QED
    BY <2>2, <2>3
<1>5. Follows(new, n + 1) => Replayable(new)
  BY <1>1, <1>4 DEF Replayable
<1>6. n > 0 => new[n] = log[n] /\ PlanAfter(new, n) = PlanAfter(log, n)
  BY <1>1, <1>3
<1> QED
  BY <1>1, <1>5, <1>6

\* The first event of a log.
LEMMA AuditFirst ==
  ASSUME NEW p \in Plans, NEW now \in Nat, NEW at \in Nat
  PROVE  AuditOK(Append(<<>>, CreatedEvent(p, at)), NewRow(p, now))
<1> DEFINE e == CreatedEvent(p, at)
           new == Append(<<>>, e)
           row == NewRow(p, now)
<1>1. e \in EventRow /\ row \in SubRow
  BY EventTypesOK, RowTypes
<1>2. Len(new) = 1 /\ new[1] = e
  BY <1>1
<1>3. e.type = "created" /\ e.to = p /\ row.plan = p /\ row.pending = None /\ row # None
  BY <1>1, NoneAssumption DEF CreatedEvent, NewRow
<1>4. Explains(new, row)
  BY <1>2, <1>3 DEF Explains, PlanAfter, PendingAfter
<1>5. Replayable(new)
  BY <1>2, <1>3 DEF Replayable, Follows
<1> QED
  BY <1>3, <1>4, <1>5 DEF AuditOK

\* The other events: what they must say of the row before and after.
LEMMA AuditNext ==
  ASSUME NEW log \in Seq(EventRow), NEW old \in SubRow, AuditOK(log, old),
         NEW e \in EventRow, NEW row \in SubRow,
         \/ /\ e.type = "upgraded" /\ e.from = old.plan
            /\ row.plan = e.to /\ row.pending = None
         \/ /\ e.type = "downgrade_scheduled" /\ e.from = old.plan
            /\ row.plan = old.plan /\ row.pending = e.to /\ row.end = e.effective
         \/ /\ e.type = "downgraded" /\ old.pending # None
            /\ row.plan = old.pending /\ row.pending = None
  PROVE  AuditOK(Append(log, e), row)
<1> DEFINE new == Append(log, e)
           n == Len(log)
<1>1. Explains(log, old) /\ Replayable(log) /\ old # None /\ row # None
  BY NoneAssumption DEF AuditOK
<1>2. /\ n \in Nat /\ n > 0
      /\ old.plan = PlanAfter(log, n) /\ old.pending = PendingAfter(log, n)
  BY <1>1 DEF Explains
<1>3. /\ Len(new) = n + 1 /\ new[n + 1] = e /\ new[n] = log[n]
      /\ PlanAfter(new, n) = PlanAfter(log, n)
      /\ Follows(new, n + 1) => Replayable(new)
  BY <1>1, <1>2, AppendEvent
<1>4. (n + 1) - 1 = n /\ n + 1 # 1
  BY <1>2
<1>5. CASE e.type = "upgraded" /\ e.from = old.plan /\ row.plan = e.to /\ row.pending = None
  <2>1. Follows(new, n + 1)
    BY <1>2, <1>3, <1>4, <1>5 DEF Follows
  <2>2. Explains(new, row)
    BY <1>2, <1>3, <1>5 DEF Explains, PlanAfter, PendingAfter
  <2> QED
    BY <1>1, <1>3, <2>1, <2>2 DEF AuditOK
<1>6. CASE /\ e.type = "downgrade_scheduled" /\ e.from = old.plan
           /\ row.plan = old.plan /\ row.pending = e.to /\ row.end = e.effective
  <2>1. Follows(new, n + 1)
    BY <1>2, <1>3, <1>4, <1>6 DEF Follows
  <2>2. Explains(new, row)
    BY <1>2, <1>3, <1>6 DEF Explains, PlanAfter, PendingAfter
  <2> QED
    BY <1>1, <1>3, <2>1, <2>2 DEF AuditOK
<1>7. CASE /\ e.type = "downgraded" /\ old.pending # None
           /\ row.plan = old.pending /\ row.pending = None
  <2>1. log[n].type = "downgrade_scheduled" /\ log[n].to = old.pending
    BY <1>2, <1>7 DEF PendingAfter
  <2>2. Follows(new, n + 1)
    BY <1>3, <1>4, <1>7, <2>1 DEF Follows
  <2>3. Explains(new, row)
    <3>1. PlanAfter(new, n + 1) = new[n].to
      BY <1>3, <1>4, <1>7 DEF PlanAfter
    <3>2. PendingAfter(new, n + 1) = None
      BY <1>3, <1>7 DEF PendingAfter
    <3> QED
      BY <1>2, <1>3, <1>7, <2>1, <3>1, <3>2 DEF Explains
  <2> QED
    BY <1>1, <1>3, <2>2, <2>3 DEF AuditOK
<1> QED
  BY <1>5, <1>6, <1>7

\* There is no row to explain before the first request.
LEMMA InitAudit == Init => AuditInv
BY DEF Init, AuditInv, AuditOK

\* A step of the ledger extends the log by an event that can follow it.
LEMMA NextAudit == IInv /\ AuditInv /\ [Next]_vars => AuditInv'
<1> SUFFICES ASSUME IInv, AuditInv, [Next]_vars PROVE AuditInv'
  OBVIOUS
<1>0. TypeOK /\ clock \in Nat
  BY DEF IInv, TypeOK
<1>1. ASSUME NEW t \in Tenants,
             \A u \in Tenants \ {t} : subs'[u] = subs[u] /\ events'[u] = events[u],
             AuditOK(events'[t], subs'[t])
      PROVE  AuditInv'
  BY <1>1 DEF AuditInv, AuditOK
<1>2. ASSUME NEW t \in Tenants, Ledger!Create(t) PROVE AuditInv'
  <2>0. PICK p \in Plans, now \in Ledger!Moment, at \in Ledger!Moment :
          /\ subs' = [subs EXCEPT ![t] = Ledger!NewRow(p, now)]
          /\ events' = [events EXCEPT ![t] = Append(events[t], Ledger!CreatedEvent(p, at))]
    BY <1>2 DEF Ledger!Create
  <2>1. /\ subs' = [subs EXCEPT ![t] = NewRow(p, now)]
        /\ events' = [events EXCEPT ![t] = Append(events[t], CreatedEvent(p, at))]
    BY <2>0 DEF NewRow, CreatedEvent, Ledger!NewRow, Ledger!CreatedEvent
  <2>2. subs[t] = None /\ events[t] = <<>> /\ now \in Nat /\ at \in Nat
    BY <1>0, <1>2, <2>1 DEF Ledger!Create, Ledger!Moment, AuditInv, AuditOK
  <2>3. subs'[t] = NewRow(p, now) /\ events'[t] = Append(<<>>, CreatedEvent(p, at))
    BY <1>0, <2>1, <2>2 DEF TypeOK
  <2>4. AuditOK(events'[t], subs'[t])
    BY <2>2, <2>3, AuditFirst
  <2> QED
    BY <1>0, <1>1, <2>1, <2>4 DEF TypeOK
<1>3. ASSUME NEW t \in Tenants, subs[t] # None, NEW e \in EventRow, NEW row \in SubRow,
             subs' = [subs EXCEPT ![t] = row],
             events' = [events EXCEPT ![t] = Append(events[t], e)],
             \/ /\ e.type = "upgraded" /\ e.from = subs[t].plan
                /\ row.plan = e.to /\ row.pending = None
             \/ /\ e.type = "downgrade_scheduled" /\ e.from = subs[t].plan
                /\ row.plan = subs[t].plan /\ row.pending = e.to /\ row.end = e.effective
             \/ /\ e.type = "downgraded" /\ subs[t].pending # None
                /\ row.plan = subs[t].pending /\ row.pending = None
      PROVE  AuditInv'
  <2>1. /\ subs[t] \in SubRow /\ events[t] \in Seq(EventRow)
        /\ AuditOK(events[t], subs[t])
    BY <1>0, <1>3 DEF TypeOK, AuditInv
  <2>2. AuditOK(Append(events[t], e), row)
    BY <1>3, <2>1, AuditNext
  <2> QED
    BY <1>0, <1>1, <1>3, <2>2 DEF TypeOK
<1>4. ASSUME NEW t \in Tenants, Ledger!Upgrade(t) PROVE AuditInv'
  <2>1. PICK q \in Plans, at \in Ledger!Moment :
          /\ subs' = [subs EXCEPT ![t] = [subs[t] EXCEPT !.plan = q, !.pending = None]]
          /\ events' = [events EXCEPT ![t] =
               Append(events[t], ChangeEvent("upgraded", subs[t].plan, q, None, at))]
    BY <1>4, Zenon DEF Ledger!Upgrade, ChangeEvent, Ledger!ChangeEvent
  <2> DEFINE row == [subs[t] EXCEPT !.plan = q, !.pending = None]
             e == ChangeEvent("upgraded", subs[t].plan, q, None, at)
  <2>2. subs[t] # None /\ subs[t] \in SubRow /\ subs[t].plan \in Plans /\ at \in Nat
    BY <1>0, <1>4 DEF Ledger!Upgrade, Ledger!Moment, TypeOK, SubRow
  <2>3. row \in SubRow /\ e \in EventRow
    BY <2>2, RowTypes, EventTypesOK
  <2>4. row.plan = q /\ row.pending = None
    BY <2>2 DEF SubRow
  <2>5. e.type = "upgraded" /\ e.from = subs[t].plan /\ e.to = q
    BY DEF ChangeEvent
  <2> QED
    BY <1>3, <2>1, <2>2, <2>3, <2>4, <2>5
<1>5. ASSUME NEW t \in Tenants, Ledger!Schedule(t) PROVE AuditInv'
  <2>1. PICK q \in Plans, at \in Ledger!Moment :
          /\ subs' = [subs EXCEPT ![t] = [subs[t] EXCEPT !.pending = q]]
          /\ events' = [events EXCEPT ![t] = Append(events[t],
               ChangeEvent("downgrade_scheduled", subs[t].plan, q, subs[t].end, at))]
    BY <1>5, Zenon DEF Ledger!Schedule, ChangeEvent, Ledger!ChangeEvent
  <2> DEFINE row == [subs[t] EXCEPT !.pending = q]
             e == ChangeEvent("downgrade_scheduled", subs[t].plan, q, subs[t].end, at)
  <2>2. /\ subs[t] # None /\ subs[t] \in SubRow /\ subs[t].plan \in Plans
        /\ subs[t].end \in Nat /\ at \in Nat
    BY <1>0, <1>5 DEF Ledger!Schedule, Ledger!Moment, TypeOK, SubRow
  <2>3. row \in SubRow /\ e \in EventRow
    BY <2>2, RowTypes, EventTypesOK
  <2>4. row.plan = subs[t].plan /\ row.pending = q /\ row.end = subs[t].end
    BY <2>2 DEF SubRow
  <2>5. /\ e.type = "downgrade_scheduled" /\ e.from = subs[t].plan /\ e.to = q
        /\ e.effective = subs[t].end
    BY DEF ChangeEvent
  <2> QED
    BY <1>3, <2>1, <2>2, <2>3, <2>4, <2>5
<1>6. ASSUME NEW t \in Tenants, Ledger!Apply(t) PROVE AuditInv'
  <2>1. PICK now \in Ledger!Moment, at \in Ledger!Moment :
          /\ Due(subs[t], now)
          /\ subs' = [subs EXCEPT ![t] = Downgraded(subs[t], now)]
          /\ events' = [events EXCEPT ![t] = Append(events[t], DowngradedEvent(at))]
    BY <1>6 DEF Ledger!Apply, Due, Downgraded, DowngradedEvent,
                Ledger!Due, Ledger!Downgraded, Ledger!DowngradedEvent
  <2>2. subs[t] # None /\ subs[t] \in SubRow /\ now \in Nat /\ at \in Nat
    BY <1>0, <1>6 DEF Ledger!Apply, Ledger!Moment, TypeOK
  <2>3. Downgraded(subs[t], now) \in SubRow /\ DowngradedEvent(at) \in EventRow
    BY <2>1, <2>2, RowTypes, EventTypesOK
  <2>4. /\ Downgraded(subs[t], now).plan = subs[t].pending
        /\ Downgraded(subs[t], now).pending = None
        /\ DowngradedEvent(at).type = "downgraded"
        /\ subs[t].pending # None
    BY <2>1 DEF Downgraded, DowngradedEvent, Due
  <2> QED
    BY <1>3, <2>1, <2>2, <2>3, <2>4
<1>7. CASE Ledger!Pass \/ UNCHANGED Ledger!lvars
  BY <1>7 DEF Ledger!Pass, Ledger!lvars, AuditInv, AuditOK
<1> QED
  BY <1>2, <1>4, <1>5, <1>6, <1>7, StepRefines

\* The audit log can be replayed and ends in the row, always.
THEOREM AuditInductive == Spec => []AuditInv
BY InitAudit, NextAudit, Inductive, PTL DEF Spec

\* add_event records what its transaction writes: the log ends in the row.
THEOREM AuditIsExact == Spec => []AuditExplainsRow
<1>1. AuditInv => AuditExplainsRow
  BY DEF AuditInv, AuditOK, AuditExplainsRow
<1> QED
  BY <1>1, AuditInductive, PTL

\* The log is a history from creation on, although "downgraded" has no plan id.
THEOREM AuditIsHistory == Spec => []AuditReplayable
<1>1. AuditInv => AuditReplayable
  BY DEF AuditInv, AuditOK, AuditReplayable, Replayable
<1> QED
  BY <1>1, AuditInductive, PTL

\* A downgrade takes effect neither before the announced moment nor otherwise
\* than announced, whichever requests race to apply it.
THEOREM DowngradesAreNeverEarly == Spec => NeverEarly
<1> DEFINE A == \A t \in Tenants :
       Len(events'[t]) > Len(events[t]) /\ events'[t][Len(events'[t])].type = "downgraded" =>
         LET scheduled == events[t][Len(events[t])] IN
         /\ scheduled.effective <= clock
         /\ subs'[t].plan = scheduled.to
<1>1. IInv /\ AuditInv /\ [Next]_vars => [A]_vars
  <2> SUFFICES ASSUME IInv, AuditInv, [Next]_vars,
                      NEW t \in Tenants, Len(events'[t]) > Len(events[t]),
                      events'[t][Len(events'[t])].type = "downgraded"
               PROVE  LET scheduled == events[t][Len(events[t])] IN
                      /\ scheduled.effective <= clock
                      /\ subs'[t].plan = scheduled.to
    OBVIOUS
  <2>0. TypeOK /\ clock \in Nat /\ events[t] \in Seq(EventRow)
    BY DEF IInv, TypeOK
  <2>1. ASSUME NEW u \in Tenants, NEW e \in EventRow, e.type # "downgraded",
               events' = [events EXCEPT ![u] = Append(events[u], e)]
        PROVE  FALSE
    <3>1. u = t
      BY <2>0, <2>1 DEF TypeOK
    <3>2. events'[t] = Append(events[t], e)
      BY <2>0, <2>1, <3>1 DEF TypeOK
    <3>3. events'[t][Len(events'[t])] = e
      BY <2>0, <3>2
    <3> QED
      BY <2>1, <3>3
  <2>2. ASSUME NEW u \in Tenants, Ledger!Create(u) PROVE FALSE
    <3>1. PICK p \in Plans, at \in Ledger!Moment :
            events' = [events EXCEPT ![u] = Append(events[u], Ledger!CreatedEvent(p, at))]
      BY <2>2 DEF Ledger!Create
    <3>2. /\ Ledger!CreatedEvent(p, at) = CreatedEvent(p, at)
          /\ CreatedEvent(p, at).type = "created" /\ at \in Nat
      BY <2>0 DEF Ledger!CreatedEvent, CreatedEvent, Ledger!Moment
    <3> QED
      BY <2>1, <3>1, <3>2, EventTypesOK
  <2>3. ASSUME NEW u \in Tenants, Ledger!Upgrade(u) PROVE FALSE
    <3>1. PICK q \in Plans, at \in Ledger!Moment :
            events' = [events EXCEPT ![u] =
              Append(events[u], ChangeEvent("upgraded", subs[u].plan, q, None, at))]
      BY <2>3, Zenon DEF Ledger!Upgrade, ChangeEvent, Ledger!ChangeEvent
    <3>2. at \in Nat /\ subs[u].plan \in Plans
      BY <2>0, <2>3 DEF Ledger!Upgrade, Ledger!Moment, TypeOK, SubRow
    <3>3. ChangeEvent("upgraded", subs[u].plan, q, None, at).type # "downgraded"
      BY DEF ChangeEvent
    <3> QED
      BY <2>1, <3>1, <3>2, <3>3, EventTypesOK
  <2>4. ASSUME NEW u \in Tenants, Ledger!Schedule(u) PROVE FALSE
    <3>1. PICK q \in Plans, at \in Ledger!Moment :
            events' = [events EXCEPT ![u] = Append(events[u],
              ChangeEvent("downgrade_scheduled", subs[u].plan, q, subs[u].end, at))]
      BY <2>4, Zenon DEF Ledger!Schedule, ChangeEvent, Ledger!ChangeEvent
    <3>2. at \in Nat /\ subs[u].plan \in Plans /\ subs[u].end \in Nat
      BY <2>0, <2>4 DEF Ledger!Schedule, Ledger!Moment, TypeOK, SubRow
    <3>3. ChangeEvent("downgrade_scheduled", subs[u].plan, q, subs[u].end, at).type
            # "downgraded"
      BY DEF ChangeEvent
    <3> QED
      BY <2>1, <3>1, <3>2, <3>3, EventTypesOK
  <2>5. ASSUME NEW u \in Tenants, Ledger!Apply(u)
        PROVE  /\ events[t][Len(events[t])].effective <= clock
               /\ subs'[t].plan = events[t][Len(events[t])].to
    <3>1. PICK now \in Ledger!Moment, at \in Ledger!Moment :
            /\ Due(subs[u], now)
            /\ subs' = [subs EXCEPT ![u] = Downgraded(subs[u], now)]
            /\ events' = [events EXCEPT ![u] = Append(events[u], DowngradedEvent(at))]
      BY <2>5 DEF Ledger!Apply, Due, Downgraded, DowngradedEvent,
                  Ledger!Due, Ledger!Downgraded, Ledger!DowngradedEvent
    <3>2. u = t
      BY <2>0, <3>1 DEF TypeOK
    <3>3. /\ subs[t] # None /\ subs[t] \in SubRow /\ now <= clock
          /\ subs[t].pending # None /\ subs[t].end <= now /\ now \in Nat
      BY <2>0, <2>5, <3>1, <3>2 DEF Ledger!Apply, Ledger!Moment, TypeOK, Due
    <3>4. Explains(events[t], subs[t])
      BY <3>3 DEF AuditInv, AuditOK
    <3>5. /\ events[t][Len(events[t])].type = "downgrade_scheduled"
          /\ events[t][Len(events[t])].to = subs[t].pending
          /\ events[t][Len(events[t])].effective = subs[t].end
      BY <3>3, <3>4 DEF Explains, PendingAfter
    <3>6. subs'[t].plan = subs[t].pending
      BY <2>0, <3>1, <3>2 DEF TypeOK, Downgraded
    <3>7. subs[t].end <= clock
      BY <2>0, <3>3 DEF SubRow
    <3> QED
      BY <3>5, <3>6, <3>7
  <2>6. ASSUME UNCHANGED events PROVE FALSE
    BY <2>0, <2>6
  <2> QED
    BY <2>2, <2>3, <2>4, <2>5, <2>6, StepRefines DEF Ledger!Pass, Ledger!lvars
<1> QED
  BY <1>1, Inductive, AuditInductive, PTL DEF Spec, NeverEarly

---------------------------------------------------------------------------
(* The order of the log *)

\* An event about to be committed is stamped after those of its tenant, and
\* none is stamped in the future.
StampOK(r) ==
  pc[r] = "committing" =>
    /\ out[r].event.created <= clock
    /\ \A i \in 1 .. Len(events[req[r].tenant]) :
         events[req[r].tenant][i].created <= out[r].event.created

StampInv ==
  /\ AuditInOrder
  /\ \A t \in Tenants : \A i \in 1 .. Len(events[t]) : events[t][i].created <= clock
  /\ \A r \in Requests : StampOK(r)

\* There is no event yet whose order could be wrong.
LEMMA InitStamp == Init => StampInv
BY DEF Init, StampInv, StampOK, AuditInOrder

\* A step that commits nothing and moves nobody but r, who is stamped now if
\* at all.
LEMMA StampKeeps ==
  ASSUME IInv, StampInv, UNCHANGED <<events, clock>>, NEW r \in Requests, StampOK(r)',
         \A s \in Requests \ {r} : pc'[s] = pc[s] /\ req'[s] = req[s] /\ out'[s] = out[s]
  PROVE  StampInv'
<1>1. \A s \in Requests \ {r} : StampOK(s)'
  BY DEF StampInv, StampOK
<1> QED
  BY <1>1 DEF StampInv, AuditInOrder

\* The lock of the row orders the stamps: an event is stamped while its
\* request holds the row, after the last commit on it.
LEMMA NextStamp == IInv /\ StampInv /\ [Next]_vars => StampInv'
<1> SUFFICES ASSUME IInv, StampInv, [Next]_vars PROVE StampInv'
  OBVIOUS
<1>0. TypeOK /\ clock \in Nat
  BY DEF IInv, TypeOK
<1>1. ASSUME NEW r \in Requests, Arrive(r) \/ Abort(r) \/ (Serve(r) /\ ~Flush(r) /\ ~Commit(r))
      PROVE  StampInv'
  <2>1. UNCHANGED <<events, clock>> /\ pc'[r] # "committing"
    BY <1>0, <1>1 DEF Arrive, BeginCreate, BeginGet, BeginChange, Abort, Serve, Insert, Lock,
       NoSubscription, LoadPlan, LoadPending, LoadTarget, AfterPlans, ApplyDue, ReadOnly, Upgrade,
       ScheduleDowngrade, Refuse, Prepare, Close, Goto, TypeOK, Running, tables
  <2>2. \A s \in Requests \ {r} : pc'[s] = pc[s] /\ req'[s] = req[s] /\ out'[s] = out[s]
    BY <1>0, <1>1 DEF Arrive, BeginCreate, BeginGet, BeginChange, Abort, Serve, Insert, Lock,
       NoSubscription, LoadPlan, LoadPending, LoadTarget, ApplyDue, ReadOnly, Upgrade,
       ScheduleDowngrade, Refuse, Prepare, Close, Goto, TypeOK, tables
  <2> QED
    BY <2>1, <2>2, StampKeeps DEF StampOK
<1>2. ASSUME NEW r \in Requests, Flush(r) PROVE StampInv'
  <2>1. /\ out[r] \in Output /\ pc[r] \in Running /\ req[r].tenant \in Tenants
        /\ UNCHANGED <<events, clock, req>>
    BY <1>2, Loaded DEF Flush, Running, Writing, Request, tables
  <2>2. out'[r].event.created = clock
    BY <1>0, <1>2, <2>1 DEF Flush, TypeOK, Output, EventRow
  <2>3. StampOK(r)'
    BY <1>0, <2>1, <2>2 DEF StampOK, StampInv
  <2>4. \A s \in Requests \ {r} : pc'[s] = pc[s] /\ req'[s] = req[s] /\ out'[s] = out[s]
    BY <1>0, <1>2 DEF Flush, Goto, TypeOK
  <2> QED
    BY <2>1, <2>3, <2>4, StampKeeps
<1>3. ASSUME NEW r \in Requests, Commit(r) PROVE StampInv'
  <2> DEFINE t == req[r].tenant
             e == out[r].event
             n == Len(events[t])
  <2>1. /\ pc[r] = "committing" /\ t \in Tenants /\ e \in EventRow /\ e.created \in Nat
        /\ pc'[r] # "committing" /\ UNCHANGED clock
    BY <1>0, <1>3, Loaded
    DEF Commit, Close, Goto, TypeOK, Running, Writing, Request, Output, EventRow
  <2>2. /\ n \in Nat /\ events'[t] = Append(events[t], e)
        /\ \A u \in Tenants \ {t} : events'[u] = events[u]
    BY <1>0, <1>3, <2>1 DEF Commit, TypeOK
  <2>3. /\ Len(events'[t]) = n + 1 /\ events'[t][n + 1] = e
        /\ \A i \in 1 .. n : events'[t][i] = events[t][i]
    BY <1>0, <2>1, <2>2 DEF TypeOK
  <2>4. e.created <= clock /\ \A i \in 1 .. n : events[t][i].created <= e.created
    BY <2>1 DEF StampInv, StampOK
  <2>5. \A i \in 1 .. n + 1 : i \in 1 .. n \/ i = n + 1
    BY <2>2
  <2>6. \A i, j \in 1 .. n + 1 : i < j => events'[t][i].created <= events'[t][j].created
    <3> SUFFICES ASSUME NEW i \in 1 .. n + 1, NEW j \in 1 .. n + 1, i < j
                 PROVE  events'[t][i].created <= events'[t][j].created
      OBVIOUS
    <3>1. i \in 1 .. n
      BY <2>2
    <3>2. CASE j = n + 1
      BY <2>3, <2>4, <3>1, <3>2
    <3>3. CASE j \in 1 .. n
      BY <2>1, <2>3, <3>1, <3>3 DEF StampInv, AuditInOrder
    <3> QED
      BY <2>5, <3>2, <3>3
  <2>7. AuditInOrder'
    <3>1. \A u \in Tenants \ {t} : \A i, j \in 1 .. Len(events'[u]) :
            i < j => events'[u][i].created <= events'[u][j].created
      BY <2>2 DEF StampInv, AuditInOrder
    <3> QED
      BY <2>3, <2>6, <3>1 DEF AuditInOrder
  <2>8. \A u \in Tenants : \A i \in 1 .. Len(events'[u]) : events'[u][i].created <= clock'
    <3>1. \A u \in Tenants \ {t} : \A i \in 1 .. Len(events'[u]) : events'[u][i].created <= clock'
      BY <2>1, <2>2 DEF StampInv
    <3>2. \A i \in 1 .. n + 1 : events'[t][i].created <= clock'
      BY <2>1, <2>3, <2>4, <2>5 DEF StampInv
    <3> QED
      BY <2>3, <3>1, <3>2
  <2>9. ASSUME NEW s \in Requests PROVE StampOK(s)'
    <3>1. CASE s = r
      BY <2>1, <3>1 DEF StampOK
    <3>2. ASSUME s # r, pc'[s] = "committing" PROVE StampOK(s)'
      <4>1. pc[s] = "committing" /\ req'[s] = req[s] /\ out'[s] = out[s]
        BY <1>0, <1>3, <3>2 DEF Commit, Close, Goto, TypeOK
      <4>2. req[s].tenant \in Tenants /\ req[s].tenant # t
        BY <2>1, <3>2, <4>1, CommitAlone, Loaded DEF Writing, Running, Request
      <4> QED
        BY <2>1, <2>2, <4>1, <4>2 DEF StampInv, StampOK
    <3> QED
      BY <3>1, <3>2 DEF StampOK
  <2> QED
    BY <2>7, <2>8, <2>9 DEF StampInv
<1>4. ASSUME UNCHANGED <<events, pc, req, out>>, clock' \in Nat, clock <= clock' PROVE StampInv'
  <2>1. AuditInOrder'
    BY <1>4 DEF StampInv, AuditInOrder
  <2>2. ASSUME NEW t \in Tenants, NEW i \in 1 .. Len(events[t])
        PROVE  events[t][i].created <= clock'
    <3>1. events[t] \in Seq(EventRow) /\ events[t][i].created <= clock
      BY <1>0 DEF StampInv, TypeOK
    <3>2. events[t][i] \in EventRow
      BY <3>1
    <3>3. events[t][i].created \in Nat
      BY <3>2 DEF EventRow
    <3> QED
      BY <1>0, <1>4, <3>1, <3>3
  <2>3. ASSUME NEW r \in Requests PROVE StampOK(r)'
    <3>1. pc[r] = "committing" => out[r].event.created \in Nat
      BY Loaded DEF Running, Writing, Output, EventRow
    <3> QED
      BY <1>0, <1>4, <3>1 DEF StampInv, StampOK
  <2> QED
    BY <1>4, <2>1, <2>2, <2>3 DEF StampInv
<1>5. CASE Tick \/ UNCHANGED vars \/ \E p \in Plans : Administer(p)
  BY <1>0, <1>4, <1>5
  DEF Tick, Administer, SavePlan, Rename, EndRename, vars, tables, TypeOK
<1> QED
  BY <1>1, <1>2, <1>3, <1>5 DEF Next, Finished

\* list_events sorts by created_at, which the application stamps before the
\* commit: the row lock makes that the order of the commits.
THEOREM AuditIsInOrder == Spec => []AuditInOrder
<1>1. StampInv => AuditInOrder
  BY DEF StampInv
<1> QED
  BY <1>1, InitStamp, NextStamp, Inductive, PTL DEF Spec

---------------------------------------------------------------------------
(* What is scheduled lies below *)

\* As long as nobody has edited the catalogue, the plans a session has loaded
\* are those of the table, and what it writes schedules a lower plan.
SeenNow(r) ==
  /\ pc[r] \in {"pending", "targeting", "deciding"} => tx[r].plan = plans[tx[r].row.plan]
  /\ pc[r] \in {"targeting", "deciding"} /\ tx[r].row.pending # None =>
       tx[r].pending = plans[tx[r].row.pending]
  /\ pc[r] = "deciding" /\ req[r].kind # "get" => tx[r].target = plans[req[r].target]
  /\ pc[r] \in Writing /\ out[r].row.pending # None =>
       plans[out[r].row.pending].position < plans[out[r].row.plan].position

BelowInv ==
  edits = 0 => /\ saving = {}
               /\ PendingIsBelow
               /\ \A r \in Requests : SeenNow(r)

\* There is no pending plan yet.
LEMMA InitBelow == Init => BelowInv
BY DEF Init, BelowInv, PendingIsBelow, SeenNow, Writing

\* A step of r that commits nothing.
LEMMA BelowKeeps ==
  ASSUME BelowInv, UNCHANGED <<plans, subs, edits, saving>>, NEW r \in Requests,
         edits = 0 => SeenNow(r)',
         \A s \in Requests \ {r} :
           pc'[s] = pc[s] /\ req'[s] = req[s] /\ tx'[s] = tx[s] /\ out'[s] = out[s]
  PROVE  BelowInv'
<1>1. edits = 0 => \A s \in Requests \ {r} : SeenNow(s)'
  BY DEF BelowInv, SeenNow
<1> QED
  BY <1>1 DEF BelowInv, PendingIsBelow

\* What Prepare leaves to be committed.
LEMMA PrepareBelow ==
  ASSUME TypeOK, BelowInv, NEW r \in Requests, NEW row, NEW event, Prepare(r, row, event),
         UNCHANGED <<plans, subs, edits, saving, req>>,
         edits = 0 /\ row.pending # None => plans[row.pending].position < plans[row.plan].position
  PROVE  BelowInv'
<1>1. pc'[r] = "flushing" /\ out'[r].row = row
  BY DEF Prepare, Goto, TypeOK
<1>2. edits = 0 => SeenNow(r)'
  BY <1>1 DEF SeenNow
<1>3. \A s \in Requests \ {r} :
        pc'[s] = pc[s] /\ req'[s] = req[s] /\ tx'[s] = tx[s] /\ out'[s] = out[s]
  BY DEF Prepare, Goto, TypeOK
<1> QED
  BY <1>2, <1>3, BelowKeeps

\* Loading the plans of a row and the plan asked for.
LEMMA LoadBelow ==
  ASSUME IInv, BelowInv, NEW r \in Requests, LoadPlan(r) \/ LoadPending(r) \/ LoadTarget(r)
  PROVE  BelowInv'
<1>0. TypeOK /\ BelowInv /\ AskOK(r)
  BY DEF IInv, RequestInv, RequestOK
<1>1. \A s \in Requests \ {r} :
        pc'[s] = pc[s] /\ req'[s] = req[s] /\ tx'[s] = tx[s] /\ out'[s] = out[s]
  BY <1>0 DEF LoadPlan, LoadPending, LoadTarget, Goto, TypeOK
<1>2. /\ UNCHANGED <<plans, subs, edits, saving, req>> /\ pc'[r] \notin Writing
      /\ tx'[r].row = tx[r].row
  BY <1>0 DEF LoadPlan, LoadPending, LoadTarget, AfterPlans, Goto, TypeOK, Session, Writing, tables
<1>3. CASE LoadPlan(r)
  <2>1. tx'[r].plan = plans[tx[r].row.plan]
    BY <1>0, <1>3 DEF LoadPlan, TypeOK, Session
  <2>2. pc'[r] = IF tx[r].row.pending # None THEN "pending" ELSE AfterPlans(r)
    BY <1>0, <1>3 DEF LoadPlan, Goto, TypeOK
  <2>3. SeenNow(r)'
    BY <1>2, <2>1, <2>2 DEF SeenNow, AfterPlans
  <2> QED
    BY <1>1, <1>2, <2>3, BelowKeeps
<1>4. CASE LoadPending(r)
  <2>1. tx'[r].pending = plans[tx[r].row.pending] /\ tx'[r].plan = tx[r].plan
    BY <1>0, <1>4 DEF LoadPending, TypeOK, Session
  <2>2. pc[r] = "pending" /\ pc'[r] = AfterPlans(r)
    BY <1>0, <1>4 DEF LoadPending, Goto, TypeOK
  <2>3. edits = 0 => SeenNow(r)'
    BY <1>0, <1>2, <2>1, <2>2 DEF SeenNow, AfterPlans, BelowInv
  <2> QED
    BY <1>1, <1>2, <2>3, BelowKeeps
<1>5. CASE LoadTarget(r)
  <2>1. /\ tx'[r].target = PlanSeen(r)
        /\ tx'[r].plan = tx[r].plan /\ tx'[r].pending = tx[r].pending
    BY <1>0, <1>5 DEF LoadTarget, TypeOK, Session
  <2>2. pc[r] = "targeting" /\ pc'[r] = "deciding" /\ req[r].kind # "get"
    BY <1>0, <1>5 DEF LoadTarget, Goto, TypeOK, AskOK
  <2>3. req[r].target # None
    BY <1>0, <2>2, DataAssumption DEF AskOK, Running, Holding
  <2>4. edits = 0 => PlanSeen(r) = plans[req[r].target]
    BY <1>0, <2>2, <2>3 DEF PlanSeen, BelowInv, SeenNow
  <2>5. edits = 0 => SeenNow(r)'
    BY <1>0, <1>2, <2>1, <2>2, <2>4 DEF SeenNow, BelowInv
  <2> QED
    BY <1>1, <1>2, <2>5, BelowKeeps
<1> QED
  BY <1>3, <1>4, <1>5

\* Only a downgrade schedules a plan, and it has compared the positions.
LEMMA NextBelow == IInv /\ BelowInv /\ [Next]_vars => BelowInv'
<1> SUFFICES ASSUME IInv, BelowInv, [Next]_vars PROVE BelowInv'
  OBVIOUS
<1>0. TypeOK
  BY DEF IInv
<1>1. ASSUME NEW r \in Requests,
             Arrive(r) \/ Abort(r) \/ Lock(r) \/ NoSubscription(r) \/ ReadOnly(r) \/ Refuse(r)
      PROVE  BelowInv'
  <2>1. /\ UNCHANGED <<plans, subs, edits, saving>>
        /\ pc'[r] \notin {"pending", "targeting", "deciding"} \cup Writing
    BY <1>0, <1>1 DEF Arrive, BeginCreate, BeginGet, BeginChange, Abort, Lock, NoSubscription,
       ReadOnly, Refuse, Close, Goto, TypeOK, Running, Writing, tables
  <2>2. \A s \in Requests \ {r} :
          pc'[s] = pc[s] /\ req'[s] = req[s] /\ tx'[s] = tx[s] /\ out'[s] = out[s]
    BY <1>0, <1>1 DEF Arrive, BeginCreate, BeginGet, BeginChange, Abort, Lock, NoSubscription,
       ReadOnly, Refuse, Close, Goto, TypeOK, tables
  <2>3. SeenNow(r)'
    BY <2>1 DEF SeenNow
  <2> QED
    BY <2>1, <2>2, <2>3, BelowKeeps
<1>2. ASSUME NEW r \in Requests, LoadPlan(r) \/ LoadPending(r) \/ LoadTarget(r) PROVE BelowInv'
  BY <1>2, LoadBelow
<1>3. ASSUME NEW r \in Requests, Insert(r) PROVE BelowInv'
  <2>1. NewRow(req[r].target, clock).pending = None
    BY DEF NewRow
  <2> QED
    BY <1>0, <1>3, <2>1, PrepareBelow DEF Insert, tables
<1>4. ASSUME NEW r \in Requests, ApplyDue(r) PROVE BelowInv'
  <2>1. Downgraded(tx[r].row, clock).pending = None
    BY DEF Downgraded
  <2> QED
    BY <1>0, <1>4, <2>1, PrepareBelow DEF ApplyDue, tables
<1>5. ASSUME NEW r \in Requests, Upgrade(r) PROVE BelowInv'
  <2> DEFINE row == [tx[r].row EXCEPT !.plan = req[r].target, !.pending = None]
             event == ChangeEvent("upgraded", tx[r].row.plan, req[r].target, None, Unstamped)
  <2>1. tx[r].row \in SubRow
    BY <1>5, Loaded DEF Upgrade, Deciding, Running, Holding
  <2>2. row.pending = None
    BY <2>1 DEF SubRow
  <2>3. Prepare(r, row, event) /\ UNCHANGED <<plans, subs, edits, saving, req>>
    BY <1>5 DEF Upgrade, tables
  <2> QED
    BY <1>0, <2>2, <2>3, PrepareBelow
<1>6. ASSUME NEW r \in Requests, ScheduleDowngrade(r) PROVE BelowInv'
  <2> DEFINE row == [tx[r].row EXCEPT !.pending = req[r].target]
             event == ChangeEvent("downgrade_scheduled", tx[r].row.plan, req[r].target,
                                  tx[r].row.end, Unstamped)
  <2>1. /\ tx[r].row \in SubRow /\ pc[r] = "deciding" /\ req[r].kind = "downgrade"
        /\ DowngradeAllowed(r)
    BY <1>6, Loaded DEF ScheduleDowngrade, Deciding, Running, Holding
  <2>2. row.pending = req[r].target /\ row.plan = tx[r].row.plan
    BY <2>1 DEF SubRow
  <2>3. edits = 0 => /\ tx[r].plan = plans[tx[r].row.plan]
                     /\ tx[r].target = plans[req[r].target]
    BY <2>1 DEF BelowInv, SeenNow
  <2>4. edits = 0 => plans[row.pending].position < plans[row.plan].position
    BY <2>1, <2>2, <2>3 DEF DowngradeAllowed
  <2>5. Prepare(r, row, event) /\ UNCHANGED <<plans, subs, edits, saving, req>>
    BY <1>6 DEF ScheduleDowngrade, tables
  <2> QED
    BY <1>0, <2>4, <2>5, PrepareBelow
<1>7. ASSUME NEW r \in Requests, Flush(r) PROVE BelowInv'
  <2>1. /\ pc[r] = "flushing" /\ pc'[r] = "committing" /\ out'[r].row = out[r].row
        /\ UNCHANGED <<plans, subs, edits, saving, req, tx>>
    <3>1. out[r] \in Output
      BY <1>7, Loaded DEF Flush, Running, Writing
    <3> QED
      BY <1>0, <1>7, <3>1 DEF Flush, Goto, TypeOK, Output, tables
  <2>2. \A s \in Requests \ {r} : pc'[s] = pc[s] /\ out'[s] = out[s]
    BY <1>0, <1>7 DEF Flush, Goto, TypeOK
  <2>3. edits = 0 => SeenNow(r)'
    BY <2>1 DEF SeenNow, BelowInv, Writing
  <2> QED
    BY <2>1, <2>2, <2>3, BelowKeeps
<1>8. ASSUME NEW r \in Requests, Commit(r), edits = 0 PROVE PendingIsBelow' /\ \A s \in Requests : SeenNow(s)'
  <2>1. /\ pc[r] = "committing" /\ pc'[r] = "done" /\ UNCHANGED <<plans, edits, saving>>
        /\ subs' = [subs EXCEPT ![req[r].tenant] = out[r].row]
    BY <1>0, <1>8 DEF Commit, Close, Goto, TypeOK
  <2>2. \A s \in Requests \ {r} :
          pc'[s] = pc[s] /\ req'[s] = req[s] /\ tx'[s] = tx[s] /\ out'[s] = out[s]
    BY <1>0, <1>8 DEF Commit, Close, Goto, TypeOK
  <2>3. SeenNow(r)' /\ \A s \in Requests \ {r} : SeenNow(s)'
    BY <1>8, <2>1, <2>2 DEF SeenNow, BelowInv, Writing
  <2>4. out[r].row.pending # None =>
          plans[out[r].row.pending].position < plans[out[r].row.plan].position
    BY <1>8, <2>1 DEF SeenNow, BelowInv, Writing
  <2>5. \A t \in Tenants : subs'[t] = subs[t] \/ subs'[t] = out[r].row
    BY <1>0, <2>1 DEF TypeOK
  <2>6. PendingIsBelow'
    BY <1>8, <2>1, <2>4, <2>5 DEF PendingIsBelow, BelowInv
  <2> QED
    BY <2>3, <2>6
<1>9. ASSUME NEW r \in Requests, Commit(r) PROVE BelowInv'
  BY <1>8, <1>9 DEF BelowInv, Commit
<1>10. ASSUME NEW p \in Plans, Administer(p) PROVE BelowInv'
  <2>1. edits' # 0
    BY <1>0, <1>10 DEF Administer, SavePlan, Rename, EndRename, TypeOK, BelowInv
  <2> QED
    BY <2>1 DEF BelowInv
<1>11. CASE Tick \/ UNCHANGED vars
  BY <1>11 DEF Tick, vars, tables, BelowInv, PendingIsBelow, SeenNow
<1> QED
  BY <1>1, <1>2, <1>3, <1>4, <1>5, <1>6, <1>7, <1>9, <1>10, <1>11 DEF Next, Finished, Serve

\* A due downgrade never raises a tenant, unless an administrator has reordered
\* the plans: change_plan compares rows that nobody locks.
THEOREM ScheduledIsBelow == Spec => []PendingIsBelow
<1>1. BelowInv => PendingIsBelow
  BY DEF BelowInv, PendingIsBelow
<1> QED
  BY <1>1, InitBelow, NextBelow, Inductive, PTL DEF Spec
===========================================================================
