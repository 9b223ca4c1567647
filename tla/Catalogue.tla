----------------------------- MODULE Catalogue -----------------------------
(***************************************************************************)
(* The catalogue that administrators edit (app/services/plan_service.py    *)
(* and product_service.py behind app/routers/admin.py).  A save reads the  *)
(* plan without a lock, checks what it has read, and lets the session      *)
(* write the columns that differ from it; the creation of a product        *)
(* inserts the product, then its token and its free plan, in one           *)
(* transaction.  Slugs are kept unique by the database, which makes        *)
(* transactions wait for one another.                                      *)
(*                                                                         *)
(* A member of Requests is one form sent by an administrator: one          *)
(* transaction, used once.  A form that _validate refuses, or that names   *)
(* no product or plan there is, leaves no trace and is not a step.  All    *)
(* the columns of a plan that nothing here decides on (name, position,     *)
(* price, currency, features) are one column, terms.                       *)
(***************************************************************************)

CONSTANTS
  Requests,
  Products, Plans,    \* ids: fresh UUIDs
  Slugs,              \* of products and of plans
  Free,               \* the slug "free"
  Terms,
  FreeTerms,          \* of the free plan a product is created with
  InitialProducts,    \* the rows at the start, None where there is no row
  InitialPlans,
  None

VARIABLES
  products,  \* table products
  plans,     \* table plans
  pc,        \* where each request is
  req,       \* what each running request asks
  seen,      \* the plan row that an edit has read
  draft,     \* the plan row as it is once the request has written it
  renamed    \* history: some save has changed the slug of a plan

tx == <<req, seen, draft>>
vars == <<products, plans, pc, tx, renamed>>

---------------------------------------------------------------------------
(* Rows and types *)

\* token: whether there is a service_token_hash.
ProductRow == [slug: Slugs, token: BOOLEAN]
PlanRow == [product: Products, slug: Slugs, active: BOOLEAN, terms: Terms]

Form == [slug: Slugs, active: BOOLEAN, terms: Terms]

\* plan is the plan to edit or the id of the new one.  The form of "create"
\* has the slug of the product.
Request == [kind: {"edit", "add", "create"}, product: Products, plan: Plans, form: Form]

Over    == {"done", "refused", "aborted"}
Running == {"reading", "writing", "indexing", "entering", "filling", "committing"}

TypeOK ==
  /\ products \in [Products -> ProductRow \cup {None}]
  /\ plans \in [Plans -> PlanRow \cup {None}]
  /\ pc \in [Requests -> {"idle"} \cup Running \cup Over]
  /\ req \in [Requests -> Request \cup {None}]
  /\ seen \in [Requests -> PlanRow \cup {None}]
  /\ draft \in [Requests -> PlanRow \cup {None}]
  /\ renamed \in BOOLEAN

\* What the catalogue looks like when it has been filled by the console only.
IsFreePlan(p, x) == plans[p] # None /\ plans[p].product = x /\ plans[p].slug = Free

ASSUME CatalogueAssumption ==
  /\ Free \in Slugs /\ FreeTerms \in Terms
  /\ None \notin ProductRow \cup PlanRow \cup Request
  /\ InitialProducts \in [Products -> ProductRow \cup {None}]
  /\ InitialPlans \in [Plans -> PlanRow \cup {None}]
  /\ \A p \in Plans : InitialPlans[p] # None => InitialProducts[InitialPlans[p].product] # None
  /\ \A p, q \in Plans :
       /\ p # q /\ InitialPlans[p] # None /\ InitialPlans[q] # None
       /\ InitialPlans[p].product = InitialPlans[q].product
       => InitialPlans[p].slug # InitialPlans[q].slug
  /\ \A x, y \in Products :
       /\ x # y /\ InitialProducts[x] # None /\ InitialProducts[y] # None
       => InitialProducts[x].slug # InitialProducts[y].slug
  /\ \A x \in Products : InitialProducts[x] # None =>
       /\ InitialProducts[x].token
       /\ \E p \in Plans : /\ InitialPlans[p] # None /\ InitialPlans[p].product = x
                           /\ InitialPlans[p].slug = Free /\ InitialPlans[p].active

Init ==
  /\ products = InitialProducts
  /\ plans = InitialPlans
  /\ pc = [r \in Requests |-> "idle"]
  /\ req = [r \in Requests |-> None]
  /\ seen = [r \in Requests |-> None]
  /\ draft = [r \in Requests |-> None]
  /\ renamed = FALSE

Goto(r, to) == pc' = [pc EXCEPT ![r] = to]

\* The session of r is closed; its locks and what it wrote last until then.
Close(r, how) ==
  /\ Goto(r, how)
  /\ req' = [req EXCEPT ![r] = None]
  /\ seen' = [seen EXCEPT ![r] = None]
  /\ draft' = [draft EXCEPT ![r] = None]

Ask(r, kind, x, p, form) ==
  /\ pc[r] = "idle"
  /\ req' = [req EXCEPT ![r] = [kind |-> kind, product |-> x, plan |-> p, form |-> form]]

Kind(r) == IF req[r] = None THEN "none" ELSE req[r].kind

\* An id that is in no table and that no other request has drawn.
UnusedPlan(p) ==
  plans[p] = None /\ \A s \in Requests : req[s] # None => req[s].plan # p

UnusedProduct(x) ==
  products[x] = None /\ \A s \in Requests : req[s] # None => req[s].product # x

---------------------------------------------------------------------------
(* Locks and unique keys, as PostgreSQL keeps them *)

\* s has written a new version of p, the latest committed one still standing.
\* The row is written before the key is entered in the index.
Holds(s, p) ==
  pc[s] \in {"indexing", "committing"} /\ Kind(s) \in {"edit", "add"} /\ req[s].plan = p

SameKey(a, b) == a.product = b.product /\ a.slug = b.slug

\* Another row has the product and the slug that r wants.
InTheWay(r, q) ==
  q # req[r].plan /\ plans[q] # None /\ SameKey(plans[q], draft[r])

\* Such a row that no running transaction is rewriting: uq_plans_product_slug.
Duplicate(r) ==
  \E q \in Plans : InTheWay(r, q) /\ \A s \in Requests : ~Holds(s, q)

\* The answer depends on how s ends: it rewrites a row in the way, or it has
\* entered the same key.
WaitsForKey(r, s) ==
  /\ r # s
  /\ \/ \E q \in Plans : InTheWay(r, q) /\ Holds(s, q)
     \/ pc[s] = "committing" /\ SameKey(draft[s], draft[r])

\* The same for products.slug, which is written once.
SlugTaken(r) ==
  \E x \in Products : products[x] # None /\ products[x].slug = req[r].form.slug

WaitsForSlug(r, s) ==
  /\ r # s
  /\ pc[s] \in {"filling", "committing"} /\ Kind(s) = "create"
  /\ req[s].form.slug = req[r].form.slug

\* r cannot go on before s has ended.
Waits(r, s) ==
  \/ pc[r] = "writing" /\ Kind(r) = "edit" /\ Holds(s, req[r].plan)
  \/ pc[r] = "indexing" /\ WaitsForKey(r, s)
  \/ pc[r] = "entering" /\ WaitsForSlug(r, s)

CanGo(r) == \A s \in Requests : ~Waits(r, s)

Deadlocked(circle) ==
  \A r \in circle : /\ \E s \in circle : Waits(r, s)
                    /\ \E s \in circle : Waits(s, r)

---------------------------------------------------------------------------
(* POST /admin/plans *)

BeginEdit(r, x, p, form) ==
  /\ products[x] # None /\ plans[p] # None
  /\ Ask(r, "edit", x, p, form)
  /\ Goto(r, "reading")
  /\ UNCHANGED <<products, plans, seen, draft, renamed>>

BeginAdd(r, x, p, form) ==
  /\ products[x] # None /\ UnusedPlan(p)
  /\ Ask(r, "add", x, p, form)
  /\ Goto(r, "writing")
  /\ UNCHANGED <<products, plans, seen, draft, renamed>>

\* A slip in Editable: the free plan is not protected.
EditableFree(r, row) == row.product = req[r].product

\* The plan is of this product, and the free plan is not to be deactivated.
Editable(r, row) ==
  row.product = req[r].product /\ ~(row.slug = Free /\ ~req[r].form.active)

\* session.get, a plain SELECT, and the checks on what it returns.
ReadPlan(r) ==
  LET row == plans[req[r].plan] IN
  /\ pc[r] = "reading"
  /\ Editable(r, row)
  /\ seen' = [seen EXCEPT ![r] = row]
  /\ Goto(r, "writing")
  /\ UNCHANGED <<products, plans, req, draft, renamed>>

RefusePlan(r) ==
  /\ pc[r] = "reading"
  /\ ~Editable(r, plans[req[r].plan])
  /\ Close(r, "refused")
  /\ UNCHANGED <<products, plans, renamed>>

\* _apply sets every attribute; commit() writes those that have changed.
Changed(r) ==
  \/ req[r].form.slug # seen[r].slug
  \/ req[r].form.active # seen[r].active
  \/ req[r].form.terms # seen[r].terms

Column(new, old, latest) == IF new # old THEN new ELSE latest

\* A slip in Merged: every column is written.
MergedWhole(r, latest) ==
  [product |-> latest.product, slug |-> req[r].form.slug,
   active |-> req[r].form.active, terms |-> req[r].form.terms]

\* What UPDATE makes of the latest version of the row.
Merged(r, latest) ==
  [product |-> latest.product,
   slug    |-> Column(req[r].form.slug, seen[r].slug, latest.slug),
   active  |-> Column(req[r].form.active, seen[r].active, latest.active),
   terms   |-> Column(req[r].form.terms, seen[r].terms, latest.terms)]

Entered(r) ==
  [product |-> req[r].product, slug |-> req[r].form.slug,
   active |-> req[r].form.active, terms |-> req[r].form.terms]

\* A form sent back as it came: there is nothing to write.
SaveUnchanged(r) ==
  /\ pc[r] = "writing" /\ Kind(r) = "edit"
  /\ ~Changed(r)
  /\ Close(r, "done")
  /\ UNCHANGED <<products, plans, renamed>>

\* A slip in Update: it does not wait for the row.
UpdateAtOnce(r) ==
  /\ pc[r] = "writing" /\ Kind(r) = "edit"
  /\ Changed(r)
  /\ draft' = [draft EXCEPT ![r] = Merged(r, plans[req[r].plan])]
  /\ Goto(r, "indexing")
  /\ UNCHANGED <<products, plans, req, seen, renamed>>

\* The flush of an edit, once no other transaction holds the row ...
Update(r) ==
  /\ pc[r] = "writing" /\ Kind(r) = "edit"
  /\ Changed(r) /\ CanGo(r)
  /\ draft' = [draft EXCEPT ![r] = Merged(r, plans[req[r].plan])]
  /\ Goto(r, "indexing")
  /\ UNCHANGED <<products, plans, req, seen, renamed>>

\* ... and of a new plan.
Insert(r) ==
  /\ pc[r] = "writing" /\ Kind(r) = "add"
  /\ draft' = [draft EXCEPT ![r] = Entered(r)]
  /\ Goto(r, "indexing")
  /\ UNCHANGED <<products, plans, req, seen, renamed>>

\* A slip in EnterKey: it does not wait for transactions still running.
EnterKeyAtOnce(r) ==
  /\ pc[r] = "indexing"
  /\ ~Duplicate(r)
  /\ Goto(r, "committing")
  /\ UNCHANGED <<products, plans, tx, renamed>>

EnterKey(r) ==
  /\ pc[r] = "indexing"
  /\ ~Duplicate(r) /\ CanGo(r)
  /\ Goto(r, "committing")
  /\ UNCHANGED <<products, plans, tx, renamed>>

\* A slip in RefuseDuplicate: the save is tried again.
RetryDuplicate(r) ==
  /\ pc[r] = "indexing"
  /\ Duplicate(r)
  /\ draft' = [draft EXCEPT ![r] = None]
  /\ Goto(r, "writing")
  /\ UNCHANGED <<products, plans, req, seen, renamed>>

\* IntegrityError: PlanAlreadyExists.
RefuseDuplicate(r) ==
  /\ pc[r] = "indexing"
  /\ Duplicate(r)
  /\ Close(r, "refused")
  /\ UNCHANGED <<products, plans, renamed>>

CommitSave(r) ==
  LET p == req[r].plan IN
  /\ pc[r] = "committing" /\ Kind(r) \in {"edit", "add"}
  /\ plans' = [plans EXCEPT ![p] = draft[r]]
  /\ renamed' = (renamed \/ (Kind(r) = "edit" /\ draft[r].slug # plans[p].slug))
  /\ Close(r, "done")
  /\ UNCHANGED products

---------------------------------------------------------------------------
(* POST /admin/products *)

BeginCreate(r, x, p, slug) ==
  /\ UnusedProduct(x) /\ UnusedPlan(p)
  /\ Ask(r, "create", x, p, [slug |-> slug, active |-> TRUE, terms |-> FreeTerms])
  /\ Goto(r, "entering")
  /\ UNCHANGED <<products, plans, seen, draft, renamed>>

\* A slip in EnterProduct: the product is committed before it is complete.
EnterProductAndCommit(r) ==
  /\ pc[r] = "entering"
  /\ ~SlugTaken(r) /\ CanGo(r)
  /\ products' = [products EXCEPT ![req[r].product] =
                    [slug |-> req[r].form.slug, token |-> FALSE]]
  /\ Goto(r, "filling")
  /\ UNCHANGED <<plans, tx, renamed>>

\* session.flush() inserts the product.
EnterProduct(r) ==
  /\ pc[r] = "entering"
  /\ ~SlugTaken(r) /\ CanGo(r)
  /\ Goto(r, "filling")
  /\ UNCHANGED <<products, plans, tx, renamed>>

\* IntegrityError: ProductAlreadyExists.
RefuseProduct(r) ==
  /\ pc[r] = "entering"
  /\ SlugTaken(r)
  /\ Close(r, "refused")
  /\ UNCHANGED <<products, plans, renamed>>

\* The token and the free plan are flushed by commit().
Fill(r) ==
  /\ pc[r] = "filling"
  /\ draft' = [draft EXCEPT ![r] = [product |-> req[r].product, slug |-> Free,
                                    active |-> TRUE, terms |-> FreeTerms]]
  /\ Goto(r, "committing")
  /\ UNCHANGED <<products, plans, req, seen, renamed>>

CommitCreate(r) ==
  /\ pc[r] = "committing" /\ Kind(r) = "create"
  /\ products' = [products EXCEPT ![req[r].product] =
                    [slug |-> req[r].form.slug, token |-> TRUE]]
  /\ plans' = [plans EXCEPT ![req[r].plan] = draft[r]]
  /\ Close(r, "done")
  /\ UNCHANGED renamed

---------------------------------------------------------------------------
(* The database and failures *)

\* PostgreSQL finds a circle of waits and rolls one transaction back.
Victim(r) ==
  /\ \E s \in Requests : Waits(r, s)
  /\ \E circle \in SUBSET Requests : r \in circle /\ Deadlocked(circle)
  /\ Close(r, "aborted")
  /\ UNCHANGED <<products, plans, renamed>>

\* A lost connection, an exception, a cancelled request or a crash.
Abort(r) ==
  /\ pc[r] \in Running
  /\ Close(r, "aborted")
  /\ UNCHANGED <<products, plans, renamed>>

\* Nothing is left to do, or no id is left for the forms that could be sent.
Finished == (\A r \in Requests : pc[r] \in Over) /\ UNCHANGED vars

Arrive(r) ==
  \E x \in Products, p \in Plans :
    \/ \E form \in Form : BeginEdit(r, x, p, form) \/ BeginAdd(r, x, p, form)
    \/ \E slug \in Slugs : BeginCreate(r, x, p, slug)

\* The steps that the server and the database take by themselves.
Serve(r) ==
  \/ ReadPlan(r) \/ RefusePlan(r) \/ SaveUnchanged(r) \/ Update(r) \/ Insert(r)
  \/ EnterKey(r) \/ RefuseDuplicate(r) \/ CommitSave(r)
  \/ EnterProduct(r) \/ RefuseProduct(r) \/ Fill(r) \/ CommitCreate(r)
  \/ Victim(r)

Next == (\E r \in Requests : Arrive(r) \/ Serve(r) \/ Abort(r)) \/ Finished

Spec == Init /\ [][Next]_vars

\* The event loop and the database go on with every request they have.
FairSpec == Spec /\ \A r \in Requests : WF_vars(Serve(r))

---------------------------------------------------------------------------
(* Properties *)

\* Whatever saves and creations run at once, no two plans of a product and no
\* two products have the same slug.
UniqueSlugs ==
  /\ \A p, q \in Plans :
       plans[p] # None /\ plans[q] # None /\ SameKey(plans[p], plans[q]) => p = q
  /\ \A x, y \in Products :
       products[x] # None /\ products[y] # None /\ products[x].slug = products[y].slug
         => x = y

\* A product is never seen without its token and a plan, and a plan never
\* without its product, however the creation of the product ends.
ProductsComplete ==
  /\ \A x \in Products : products[x] # None =>
       /\ products[x].token
       /\ \E p \in Plans : plans[p] # None /\ plans[p].product = x
  /\ \A p \in Plans : plans[p] # None => products[plans[p].product] # None

\* As long as no save has renamed a plan, every product has an active free
\* plan, so tenants can be created: saves that run at once cannot get round
\* the guard of save_plan without changing a slug.
FreePlanAvailable ==
  ~renamed =>
    \A x \in Products : products[x] # None =>
      \E p \in Plans : IsFreePlan(p, x) /\ plans[p].active

\* A save that waited for another one changes the columns its administrator
\* changed, in the row as the other one has left it, and no others.
SavesMergeStep ==
  \A r \in Requests :
    pc[r] = "committing" /\ Kind(r) = "edit" /\ pc'[r] = "done" =>
      LET p == req[r].plan form == req[r].form IN
      /\ plans'[p].product = plans[p].product
      /\ plans'[p].slug = IF form.slug = seen[r].slug THEN plans[p].slug ELSE form.slug
      /\ plans'[p].active =
           IF form.active = seen[r].active THEN plans[p].active ELSE form.active
      /\ plans'[p].terms =
           IF form.terms = seen[r].terms THEN plans[p].terms ELSE form.terms

SavesMerge == [][SavesMergeStep]_vars

\* What the subscription service relies on about plans: the steps of the saves,
\* as they interleave, amount to saves at once that delete no plan, move none
\* to another product and give no product a second free plan.
PlanView ==
  [p \in Plans |-> IF plans[p] = None THEN None
                   ELSE [product |-> plans[p].product, free |-> plans[p].slug = Free]]

Table == INSTANCE PlanTable WITH table <- PlanView
ImplementsPlanTable == Table!Spec

\* Every form sent is answered, two included that swap the slugs of two plans
\* and wait for each other.
SavesEnd == \A r \in Requests : (pc[r] \in Running) ~> (pc[r] \in Over)

\* plan_service.py: the free plan cannot be deactivated.
FreeStaysActive ==
  [][\A p \in Plans, x \in Products :
       IsFreePlan(p, x) /\ plans[p].active /\ IsFreePlan(p, x)' => plans'[p].active]_vars

===========================================================================
