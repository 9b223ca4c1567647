--------------------------- MODULE CatalogueProofs ---------------------------
(***************************************************************************)
(* Proofs about Catalogue, for any forms, ids, slugs and initial tables.   *)
(***************************************************************************)
EXTENDS Catalogue, TLAPS

---------------------------------------------------------------------------
(* The inductive invariant *)

\* What a request asks fits where it is and what is in the tables.
AskOK(r) ==
  /\ pc[r] \in Running <=> req[r] # None
  /\ pc[r] = "reading" => Kind(r) = "edit"
  /\ pc[r] \in {"writing", "indexing"} => Kind(r) \in {"edit", "add"}
  /\ pc[r] \in {"entering", "filling"} => Kind(r) = "create"
  /\ Kind(r) = "edit" => plans[req[r].plan] # None /\ products[req[r].product] # None
  /\ Kind(r) = "add" => plans[req[r].plan] = None /\ products[req[r].product] # None
  /\ Kind(r) = "create" => plans[req[r].plan] = None /\ products[req[r].product] = None

\* An edit has read a plan of its product, which it may edit; the slug it has
\* read is the one of the plan unless a slug has been changed.
SeenOK(r) ==
  Kind(r) = "edit" /\ pc[r] # "reading" =>
    /\ seen[r] # None
    /\ plans[req[r].plan].product = req[r].product
    /\ ~renamed => seen[r].slug = plans[req[r].plan].slug
    /\ seen[r].slug = Free => req[r].form.active

\* A row that is written and not committed follows from the committed one.
DraftOK(r) ==
  pc[r] \in {"indexing", "committing"} =>
    /\ draft[r] # None
    /\ draft[r].product = req[r].product
    /\ Kind(r) = "edit" => draft[r] = Merged(r, plans[req[r].plan])
    /\ Kind(r) = "create" => draft[r].slug = Free /\ draft[r].active

\* A key that has been entered is nobody else's.
KeyOK(r) ==
  /\ pc[r] = "committing" => \A q \in Plans : ~InTheWay(r, q)
  /\ Kind(r) = "create" /\ pc[r] \in {"filling", "committing"} => ~SlugTaken(r)

RequestOK(r) == AskOK(r) /\ SeenOK(r) /\ DraftOK(r) /\ KeyOK(r)

\* Two requests never create the same row, write the same row, or enter the
\* same key.
PairOK(r, s) ==
  req[r] # None /\ req[s] # None =>
    /\ Kind(r) # "edit" \/ Kind(s) # "edit" => req[r].plan # req[s].plan
    /\ Kind(r) = "create" \/ Kind(s) = "create" => req[r].product # req[s].product
    /\ pc[r] \in {"indexing", "committing"} /\ pc[s] \in {"indexing", "committing"} =>
         req[r].plan # req[s].plan
    /\ pc[r] = "committing" /\ pc[s] = "committing" => ~SameKey(draft[r], draft[s])
    /\ /\ Kind(r) = "create" /\ pc[r] \in {"filling", "committing"}
       /\ Kind(s) = "create" /\ pc[s] \in {"filling", "committing"}
       => req[r].form.slug # req[s].form.slug

\* The types, the requests one by one and two by two, and the tables.
IInv ==
  /\ TypeOK
  /\ \A r \in Requests : RequestOK(r)
  /\ \A r, s \in Requests : r # s => PairOK(r, s)
  /\ UniqueSlugs
  /\ ProductsComplete
  /\ FreePlanAvailable

---------------------------------------------------------------------------
(* Steps *)

\* Whatever a form brings, these are rows.
LEMMA RowTypes ==
  ASSUME TypeOK
  PROVE  /\ \A r \in Requests : req[r] # None => req[r] \in Request
         /\ \A r \in Requests : seen[r] # None => seen[r] \in PlanRow
         /\ \A r \in Requests : draft[r] # None => draft[r] \in PlanRow
         /\ \A p \in Plans : plans[p] # None => plans[p] \in PlanRow
         /\ \A x \in Products : products[x] # None => products[x] \in ProductRow
BY DEF TypeOK

\* A request that is not running asks nothing.
LEMMA NotRunning ==
  ASSUME NEW r \in Requests, AskOK(r), pc[r] \notin Running
  PROVE  req[r] = None /\ Kind(r) = "none"
BY DEF AskOK, Kind

\* A step of r leaves what belongs to the other requests alone.
OwnStep(r) ==
  \A s \in Requests \ {r} :
    pc'[s] = pc[s] /\ req'[s] = req[s] /\ seen'[s] = seen[s] /\ draft'[s] = draft[s]

\* After a step of r that commits nothing it is enough to look at r.
LEMMA LocalStepKeeps ==
  ASSUME IInv, TypeOK', NEW r \in Requests, OwnStep(r),
         UNCHANGED <<products, plans, renamed>>,
         RequestOK(r)', \A s \in Requests \ {r} : PairOK(r, s)'
  PROVE  IInv'
<1>1. ASSUME NEW s \in Requests \ {r} PROVE RequestOK(s)'
  <2>1. pc'[s] = pc[s] /\ req'[s] = req[s] /\ seen'[s] = seen[s] /\ draft'[s] = draft[s]
    BY DEF OwnStep
  <2>2. RequestOK(s)
    BY DEF IInv
  <2>3. AskOK(s)'
    BY <2>1, <2>2 DEF RequestOK, AskOK, Kind
  <2>4. SeenOK(s)'
    BY <2>1, <2>2 DEF RequestOK, SeenOK, Kind
  <2>5. DraftOK(s)'
    BY <2>1, <2>2 DEF RequestOK, DraftOK, Kind, Merged, Column
  <2>6. KeyOK(s)'
    BY <2>1, <2>2 DEF RequestOK, KeyOK, Kind, InTheWay, SlugTaken
  <2> QED
    BY <2>3, <2>4, <2>5, <2>6 DEF RequestOK
<1>2. ASSUME NEW s \in Requests \ {r}, NEW t \in Requests \ {r}, s # t PROVE PairOK(s, t)'
  <2>1. PairOK(s, t)
    BY <1>2 DEF IInv
  <2> QED
    BY <2>1 DEF OwnStep, PairOK, Kind
<1>3. ASSUME NEW s \in Requests \ {r} PROVE PairOK(s, r)'
  <2>1. PairOK(r, s)'
    OBVIOUS
  <2> QED
    BY <2>1 DEF PairOK, SameKey
<1>4. UniqueSlugs' /\ ProductsComplete' /\ FreePlanAvailable'
  BY DEF IInv, UniqueSlugs, ProductsComplete, FreePlanAvailable, IsFreePlan
<1> QED
  BY <1>1, <1>2, <1>3, <1>4 DEF IInv

\* Closing a session touches nothing but the request.
LEMMA CloseFacts ==
  ASSUME TypeOK, NEW r \in Requests, NEW how \in Over, Close(r, how)
  PROVE  /\ OwnStep(r)
         /\ pc'[r] = how /\ req'[r] = None /\ seen'[r] = None /\ draft'[r] = None
         /\ pc' \in [Requests -> {"idle"} \cup Running \cup Over]
         /\ req' \in [Requests -> Request \cup {None}]
         /\ seen' \in [Requests -> PlanRow \cup {None}]
         /\ draft' \in [Requests -> PlanRow \cup {None}]
BY DEF TypeOK, Close, Goto, OwnStep

\* A request that ends without a commit keeps the invariant.
LEMMA CloseKeeps ==
  ASSUME IInv, NEW r \in Requests, NEW how \in Over, Close(r, how),
         UNCHANGED <<products, plans, renamed>>
  PROVE  IInv'
<1>1. TypeOK
  BY DEF IInv
<1>2. OwnStep(r) /\ TypeOK' /\ pc'[r] \in Over /\ req'[r] = None
  BY <1>1, CloseFacts DEF TypeOK
<1>3. RequestOK(r)' /\ \A s \in Requests : PairOK(r, s)'
  BY <1>2 DEF RequestOK, AskOK, SeenOK, DraftOK, KeyOK, PairOK, Kind, Over, Running
<1> QED
  BY <1>2, <1>3, LocalStepKeeps

\* A new request has read and written nothing.
LEMMA AskKeeps ==
  ASSUME IInv, NEW r \in Requests, NEW kind \in {"edit", "add", "create"},
         NEW x \in Products, NEW p \in Plans, NEW form \in Form,
         NEW to \in {"reading", "writing", "entering"},
         Ask(r, kind, x, p, form), Goto(r, to),
         UNCHANGED <<products, plans, seen, draft, renamed>>,
         kind = "edit" => to = "reading" /\ products[x] # None /\ plans[p] # None,
         kind = "add" => to = "writing" /\ products[x] # None /\ UnusedPlan(p),
         kind = "create" => to = "entering" /\ UnusedProduct(x) /\ UnusedPlan(p)
  PROVE  IInv'
<1> DEFINE asked == [kind |-> kind, product |-> x, plan |-> p, form |-> form]
<1>1. asked \in Request /\ asked # None
  <2>1. asked \in Request
    BY DEF Request
  <2> QED
    BY <2>1, CatalogueAssumption
<1>2. /\ req' = [req EXCEPT ![r] = asked] /\ pc' = [pc EXCEPT ![r] = to]
      /\ pc[r] = "idle"
  BY DEF Ask, Goto
<1>3. TypeOK'
  BY <1>1, <1>2 DEF IInv, TypeOK, Running
<1>4. req'[r] = asked /\ pc'[r] = to /\ OwnStep(r)
  BY <1>2 DEF IInv, TypeOK, OwnStep
<1> HIDE DEF asked
<1>5. /\ asked.kind = kind /\ asked.product = x /\ asked.plan = p /\ asked.form = form
  BY DEF asked
<1>6. RequestOK(r)'
  BY <1>1, <1>4, <1>5
     DEF RequestOK, AskOK, SeenOK, DraftOK, KeyOK, Kind, Running, UnusedPlan, UnusedProduct
<1>7. ASSUME NEW s \in Requests \ {r} PROVE PairOK(r, s)'
  <2>1. req'[s] = req[s] /\ pc'[s] = pc[s] /\ AskOK(s)
    BY <1>4 DEF OwnStep, IInv, RequestOK
  <2>2. CASE req[s] = None
    BY <2>1, <2>2 DEF PairOK
  <2>3. CASE req[s] # None
    <3>1. req[s].kind \in {"edit", "add", "create"}
      BY <2>3 DEF IInv, TypeOK, Request
    <3>2. kind # "edit" \/ req[s].kind # "edit" => p # req[s].plan
      BY <2>1, <2>3, <3>1 DEF AskOK, Kind, UnusedPlan
    <3>3. kind = "create" \/ req[s].kind = "create" => x # req[s].product
      BY <2>1, <2>3, <3>1 DEF AskOK, Kind, UnusedProduct
    <3> QED
      BY <1>1, <1>4, <1>5, <2>1, <2>3, <3>2, <3>3 DEF PairOK, Kind
  <2> QED
    BY <2>2, <2>3
<1> QED
  BY <1>3, <1>4, <1>6, <1>7, LocalStepKeeps

\* An edit may go on with the row it has read.
LEMMA ReadPlanKeeps ==
  ASSUME IInv, NEW r \in Requests, ReadPlan(r)
  PROVE  IInv'
<1> DEFINE row == plans[req[r].plan]
<1>1. /\ pc[r] = "reading" /\ Kind(r) = "edit" /\ req[r] # None /\ req[r] \in Request
      /\ row # None /\ row \in PlanRow
  BY RowTypes DEF IInv, ReadPlan, RequestOK, AskOK, Kind, Running, Request
<1>2. /\ pc' = [pc EXCEPT ![r] = "writing"] /\ seen' = [seen EXCEPT ![r] = row]
      /\ UNCHANGED <<products, plans, req, draft, renamed>>
      /\ Editable(r, row)
  BY DEF ReadPlan, Goto
<1>3. TypeOK' /\ OwnStep(r) /\ pc'[r] = "writing" /\ seen'[r] = row
  BY <1>1, <1>2 DEF IInv, TypeOK, OwnStep, Running
<1>4. RequestOK(r)'
  <2>1. AskOK(r)'
    BY <1>1, <1>2, <1>3 DEF IInv, RequestOK, AskOK, Kind, Running
  <2>2. SeenOK(r)'
    BY <1>1, <1>2, <1>3 DEF SeenOK, Editable, Kind, PlanRow, Request
  <2> QED
    BY <1>1, <1>2, <1>3, <2>1, <2>2 DEF RequestOK, DraftOK, KeyOK, Kind
<1>5. ASSUME NEW s \in Requests \ {r} PROVE PairOK(r, s)'
  BY <1>1, <1>2, <1>3 DEF IInv, PairOK, Kind, OwnStep
<1> QED
  BY <1>2, <1>3, <1>4, <1>5, LocalStepKeeps

\* What an UPDATE or an INSERT writes is a row of the same product.
LEMMA DraftTypes ==
  ASSUME IInv, NEW r \in Requests, req[r] # None
  PROVE  /\ Entered(r) \in PlanRow /\ Entered(r) # None
         /\ Entered(r).product = req[r].product
         /\ Kind(r) = "edit" /\ pc[r] # "reading" =>
              /\ Merged(r, plans[req[r].plan]) \in PlanRow
              /\ Merged(r, plans[req[r].plan]) # None
              /\ Merged(r, plans[req[r].plan]).product = req[r].product
<1>1. req[r] \in Request
  BY RowTypes DEF IInv
<1>2. Entered(r) \in PlanRow /\ Entered(r).product = req[r].product
  BY <1>1 DEF Entered, Request, Form, PlanRow
<1>3. ASSUME Kind(r) = "edit", pc[r] # "reading"
      PROVE  /\ Merged(r, plans[req[r].plan]) \in PlanRow
             /\ Merged(r, plans[req[r].plan]).product = req[r].product
  <2>1. plans[req[r].plan] # None /\ plans[req[r].plan].product = req[r].product
    BY <1>3 DEF IInv, RequestOK, AskOK, SeenOK
  <2>2. plans[req[r].plan] \in PlanRow
    BY <1>1, <2>1, RowTypes DEF IInv, Request
  <2> QED
    BY <1>1, <2>1, <2>2 DEF Merged, Column, Request, Form, PlanRow
<1>4. \A row \in PlanRow : row # None
  BY CatalogueAssumption
<1> QED
  BY <1>2, <1>3, <1>4

\* The row is written: nobody else has written it.
LEMMA WriteKeeps ==
  ASSUME IInv, NEW r \in Requests, Update(r) \/ Insert(r)
  PROVE  IInv'
<1> DEFINE row == IF Kind(r) = "edit" THEN Merged(r, plans[req[r].plan]) ELSE Entered(r)
<1>1. /\ pc[r] = "writing" /\ Kind(r) \in {"edit", "add"}
      /\ req[r] # None /\ req[r] \in Request
  BY RowTypes DEF IInv, Update, Insert, Kind
<1>2. /\ pc' = [pc EXCEPT ![r] = "indexing"] /\ draft' = [draft EXCEPT ![r] = row]
      /\ UNCHANGED <<products, plans, req, seen, renamed>>
  BY DEF Update, Insert, Goto
<1>3. row \in PlanRow /\ row # None /\ row.product = req[r].product
  BY <1>1, DraftTypes
<1>4. TypeOK' /\ OwnStep(r) /\ pc'[r] = "indexing" /\ draft'[r] = row
  BY <1>2, <1>3 DEF IInv, TypeOK, OwnStep, Running
<1>5. RequestOK(r)'
  <2>1. AskOK(r)' /\ SeenOK(r)' /\ KeyOK(r)'
    BY <1>1, <1>2, <1>4 DEF IInv, RequestOK, AskOK, SeenOK, KeyOK, Kind, Running
  <2>2. DraftOK(r)'
    BY <1>1, <1>2, <1>3, <1>4 DEF DraftOK, Kind, Merged, Column
  <2> QED
    BY <2>1, <2>2 DEF RequestOK
<1>6. ASSUME NEW s \in Requests \ {r} PROVE PairOK(r, s)'
  <2>1. req'[s] = req[s] /\ pc'[s] = pc[s] /\ draft'[s] = draft[s] /\ PairOK(r, s) /\ AskOK(s)
    BY <1>4 DEF OwnStep, IInv, RequestOK
  <2>2. req[s] # None /\ pc[s] \in {"indexing", "committing"} => req[r].plan # req[s].plan
    <3>1. SUFFICES ASSUME req[s] # None, pc[s] \in {"indexing", "committing"}
                   PROVE  req[r].plan # req[s].plan
      OBVIOUS
    <3>2. CASE Kind(r) # "edit" \/ Kind(s) # "edit"
      BY <1>1, <2>1, <3>1, <3>2 DEF PairOK
    <3>3. CASE Kind(r) = "edit" /\ Kind(s) = "edit"
      <4>1. CanGo(r)
        BY <3>3 DEF Update, Insert
      <4> QED
        BY <1>1, <3>1, <3>3, <4>1 DEF CanGo, Waits, Holds
    <3> QED
      BY <3>2, <3>3
  <2> QED
    BY <1>1, <1>2, <1>4, <2>1, <2>2 DEF PairOK, Kind
<1> QED
  BY <1>2, <1>4, <1>5, <1>6, LocalStepKeeps

\* The key is entered: no row has it, and no other request has entered it.
LEMMA EnterKeyKeeps ==
  ASSUME IInv, NEW r \in Requests, EnterKey(r)
  PROVE  IInv'
<1>1. pc[r] = "indexing" /\ Kind(r) \in {"edit", "add"} /\ req[r] # None /\ CanGo(r)
  BY DEF IInv, EnterKey, RequestOK, AskOK, Running
<1>2. /\ pc' = [pc EXCEPT ![r] = "committing"]
      /\ UNCHANGED <<products, plans, req, seen, draft, renamed>>
      /\ ~Duplicate(r)
  BY DEF EnterKey, Goto, tx
<1>3. TypeOK' /\ OwnStep(r) /\ pc'[r] = "committing"
  BY <1>2 DEF IInv, TypeOK, OwnStep, Running
<1>4. \A q \in Plans : ~InTheWay(r, q)
  <2>1. SUFFICES ASSUME NEW q \in Plans, InTheWay(r, q) PROVE FALSE
    OBVIOUS
  <2>2. PICK s \in Requests : Holds(s, q)
    BY <1>2, <2>1 DEF Duplicate
  <2>3. r # s
    BY <2>1, <2>2 DEF InTheWay, Holds
  <2>4. WaitsForKey(r, s)
    BY <2>1, <2>2, <2>3 DEF WaitsForKey
  <2> QED
    BY <1>1, <2>4 DEF CanGo, Waits
<1>5. RequestOK(r)'
  <2>1. AskOK(r)' /\ SeenOK(r)' /\ DraftOK(r)'
    BY <1>1, <1>2, <1>3
       DEF IInv, RequestOK, AskOK, SeenOK, DraftOK, Kind, Running, Merged, Column
  <2>2. KeyOK(r)'
    BY <1>1, <1>2, <1>3, <1>4 DEF KeyOK, Kind, InTheWay
  <2> QED
    BY <2>1, <2>2 DEF RequestOK
<1>6. ASSUME NEW s \in Requests \ {r} PROVE PairOK(r, s)'
  <2>1. PairOK(r, s) /\ pc'[s] = pc[s]
    BY <1>3 DEF IInv, OwnStep
  <2>2. pc[s] = "committing" => ~SameKey(draft[r], draft[s])
    BY <1>1 DEF CanGo, Waits, WaitsForKey, SameKey
  <2> QED
    BY <1>1, <1>2, <1>3, <2>1, <2>2 DEF PairOK, Kind
<1> QED
  BY <1>2, <1>3, <1>5, <1>6, LocalStepKeeps

\* The same for the slug of a new product.
LEMMA EnterProductKeeps ==
  ASSUME IInv, NEW r \in Requests, EnterProduct(r)
  PROVE  IInv'
<1>1. pc[r] = "entering" /\ Kind(r) = "create" /\ req[r] # None /\ CanGo(r)
  BY DEF IInv, EnterProduct, RequestOK, AskOK, Running
<1>2. /\ pc' = [pc EXCEPT ![r] = "filling"]
      /\ UNCHANGED <<products, plans, req, seen, draft, renamed>>
      /\ ~SlugTaken(r)
  BY DEF EnterProduct, Goto, tx
<1>3. TypeOK' /\ OwnStep(r) /\ pc'[r] = "filling"
  BY <1>2 DEF IInv, TypeOK, OwnStep, Running
<1>4. RequestOK(r)'
  <2>1. AskOK(r)' /\ SeenOK(r)' /\ DraftOK(r)'
    BY <1>1, <1>2, <1>3 DEF IInv, RequestOK, AskOK, SeenOK, DraftOK, Kind, Running
  <2>2. KeyOK(r)'
    BY <1>2, <1>3 DEF KeyOK, SlugTaken
  <2> QED
    BY <2>1, <2>2 DEF RequestOK
<1>5. ASSUME NEW s \in Requests \ {r} PROVE PairOK(r, s)'
  <2>1. PairOK(r, s) /\ pc'[s] = pc[s]
    BY <1>3 DEF IInv, OwnStep
  <2>2. Kind(s) = "create" /\ pc[s] \in {"filling", "committing"}
          => req[r].form.slug # req[s].form.slug
    BY <1>1 DEF CanGo, Waits, WaitsForSlug
  <2> QED
    BY <1>1, <1>2, <1>3, <2>1, <2>2 DEF PairOK, Kind
<1> QED
  BY <1>2, <1>3, <1>4, <1>5, LocalStepKeeps

\* The free plan of a product nobody else knows is in nobody's way.
LEMMA FillKeeps ==
  ASSUME IInv, NEW r \in Requests, Fill(r)
  PROVE  IInv'
<1> DEFINE row == [product |-> req[r].product, slug |-> Free,
                   active |-> TRUE, terms |-> FreeTerms]
<1>1. pc[r] = "filling" /\ Kind(r) = "create" /\ req[r] # None /\ req[r] \in Request
  BY RowTypes DEF IInv, Fill, RequestOK, AskOK, Running
<1>2. /\ pc' = [pc EXCEPT ![r] = "committing"] /\ draft' = [draft EXCEPT ![r] = row]
      /\ UNCHANGED <<products, plans, req, seen, renamed>>
  BY DEF Fill, Goto
<1>3. row \in PlanRow /\ row # None
  <2>1. row \in PlanRow
    BY <1>1, CatalogueAssumption DEF Request, PlanRow
  <2> QED
    BY <2>1, CatalogueAssumption
<1>4. TypeOK' /\ OwnStep(r) /\ pc'[r] = "committing" /\ draft'[r] = row
  BY <1>2, <1>3 DEF IInv, TypeOK, OwnStep, Running
<1>5. row.product = req[r].product /\ row.slug = Free /\ row.active = TRUE
  OBVIOUS
<1> HIDE DEF row
<1>6. products[req[r].product] = None /\ plans[req[r].plan] = None
  BY <1>1 DEF IInv, RequestOK, AskOK
<1>7. RequestOK(r)'
  <2>1. AskOK(r)' /\ SeenOK(r)' /\ DraftOK(r)'
    BY <1>1, <1>2, <1>3, <1>4, <1>5
       DEF IInv, RequestOK, AskOK, SeenOK, DraftOK, Kind, Running
  <2>2. \A q \in Plans : plans[q] # None => plans[q].product # req[r].product
    BY <1>6 DEF IInv, ProductsComplete
  <2>3. KeyOK(r)'
    BY <1>1, <1>2, <1>4, <1>5, <2>2
       DEF IInv, RequestOK, KeyOK, Kind, InTheWay, SameKey, SlugTaken
  <2> QED
    BY <2>1, <2>3 DEF RequestOK
<1>8. ASSUME NEW s \in Requests \ {r} PROVE PairOK(r, s)'
  <2>1. /\ PairOK(r, s) /\ pc'[s] = pc[s] /\ draft'[s] = draft[s] /\ req'[s] = req[s]
        /\ DraftOK(s)
    BY <1>4 DEF IInv, OwnStep, RequestOK
  <2>2. CASE req[s] = None
    BY <2>1, <2>2 DEF PairOK
  <2>3. CASE req[s] # None
    <3>1. req[r].plan # req[s].plan /\ req[r].product # req[s].product
      BY <1>1, <2>1, <2>3 DEF PairOK
    <3>2. pc[s] = "committing" => ~SameKey(row, draft[s])
      BY <1>5, <2>1, <3>1 DEF DraftOK, SameKey
    <3> QED
      BY <1>1, <1>2, <1>4, <2>1, <2>3, <3>1, <3>2 DEF PairOK, Kind
  <2> QED
    BY <2>2, <2>3
<1> QED
  BY <1>2, <1>4, <1>7, <1>8, LocalStepKeeps

---------------------------------------------------------------------------
(* Commits *)

\* A commit of r disturbs no other request if it leaves their rows, puts no
\* row in their way, and an edit that waits finds a plan of its product.
LEMMA CommitKeepsOthers ==
  ASSUME IInv, NEW r \in Requests, Close(r, "done"), pc[r] = "committing",
         plans' = [plans EXCEPT ![req[r].plan] = draft[r]],
         \A x \in Products : products[x] # None => products'[x] = products[x],
         ~renamed' => ~renamed,
         Kind(r) = "edit" => /\ draft[r].product = plans[req[r].plan].product
                             /\ ~renamed' => draft[r].slug = plans[req[r].plan].slug,
         NEW s \in Requests \ {r},
         Kind(s) = "create" => products'[req[s].product] = None,
         Kind(s) = "create" /\ pc[s] \in {"filling", "committing"} => ~SlugTaken(s)'
  PROVE  RequestOK(s)' /\ \A t \in Requests : PairOK(s, t) /\ s # t => PairOK(s, t)'
<1>1. /\ pc'[s] = pc[s] /\ req'[s] = req[s] /\ seen'[s] = seen[s] /\ draft'[s] = draft[s]
      /\ RequestOK(s) /\ PairOK(r, s) /\ RequestOK(r)
      /\ OwnStep(r) /\ req'[r] = None
  BY CloseFacts DEF IInv, OwnStep, Over
<1>2. /\ req[r] # None /\ req[r] \in Request /\ draft[r] # None
  BY <1>1, RowTypes DEF IInv, RequestOK, AskOK, DraftOK, Running
<1>3. req[s] # None => req[s] \in Request
  BY RowTypes DEF IInv
<1>4. /\ plans'[req[r].plan] = draft[r]
      /\ \A p \in Plans : p # req[r].plan => plans'[p] = plans[p]
      /\ \A p \in Plans : plans[p] # None => plans'[p] # None
  BY <1>2 DEF IInv, TypeOK, Request
<1>5. /\ Kind(s) \in {"add", "create"} => req[s].plan # req[r].plan
      /\ pc[s] \in {"indexing", "committing"} =>
           req[s] # None /\ req[s].plan # req[r].plan
  BY <1>1, <1>2 DEF PairOK, Kind, RequestOK, AskOK, Running
<1>6. AskOK(s)'
  BY <1>1, <1>3, <1>4, <1>5 DEF RequestOK, AskOK, Kind, Request
<1>7. SeenOK(s)'
  <2>1. SUFFICES ASSUME Kind(s) = "edit", pc[s] # "reading"
                 PROVE  /\ seen[s] # None
                        /\ plans'[req[s].plan].product = req[s].product
                        /\ ~renamed' => seen[s].slug = plans'[req[s].plan].slug
                        /\ seen[s].slug = Free => req[s].form.active
    BY <1>1 DEF SeenOK, Kind
  <2>2. /\ seen[s] # None /\ plans[req[s].plan].product = req[s].product
        /\ ~renamed => seen[s].slug = plans[req[s].plan].slug
        /\ seen[s].slug = Free => req[s].form.active
        /\ req[s].plan \in Plans
    BY <1>1, <1>3, <2>1 DEF RequestOK, SeenOK, Kind, Request
  <2>3. CASE req[s].plan # req[r].plan
    BY <1>4, <2>2, <2>3
  <2>4. CASE req[s].plan = req[r].plan
    <3>1. Kind(r) = "edit"
      BY <1>1, <1>2, <2>1, <2>4 DEF PairOK, Kind
    <3> QED
      BY <1>4, <2>2, <2>4, <3>1
  <2> QED
    BY <2>3, <2>4
<1>8. DraftOK(s)'
  BY <1>1, <1>3, <1>4, <1>5 DEF RequestOK, DraftOK, Kind, Merged, Column, Request
<1>9. KeyOK(s)'
  <2>1. ASSUME pc[s] = "committing", NEW q \in Plans PROVE ~InTheWay(s, q)'
    <3>1. ~InTheWay(s, q)
      BY <1>1, <2>1 DEF RequestOK, KeyOK
    <3>2. CASE q # req[r].plan
      BY <1>1, <1>4, <3>1, <3>2 DEF InTheWay, SameKey
    <3>3. CASE q = req[r].plan
      <4>1. ~SameKey(draft[r], draft[s])
        BY <1>1, <1>2, <1>5, <2>1 DEF PairOK
      <4> QED
        BY <1>1, <1>4, <3>3, <4>1 DEF InTheWay
    <3> QED
      BY <3>2, <3>3
  <2>2. Kind(s) = "create" /\ pc[s] \in {"filling", "committing"} => ~SlugTaken(s)'
    BY <1>1 DEF RequestOK, KeyOK
  <2> QED
    BY <1>1, <2>1, <2>2 DEF KeyOK, Kind
<1>10. ASSUME NEW t \in Requests, PairOK(s, t), s # t PROVE PairOK(s, t)'
  <2>1. CASE t = r
    BY <1>1, <2>1 DEF PairOK
  <2>2. CASE t # r
    BY <1>1, <1>10, <2>2 DEF OwnStep, PairOK, Kind
  <2> QED
    BY <2>1, <2>2
<1> QED
  BY <1>6, <1>7, <1>8, <1>9, <1>10 DEF RequestOK

\* What a transaction that commits a row has made sure of.
LEMMA CommitFacts ==
  ASSUME IInv, NEW r \in Requests, pc[r] = "committing"
  PROVE  /\ req[r] \in Request /\ req[r].plan \in Plans /\ req[r].product \in Products
         /\ Kind(r) = req[r].kind /\ req[r].form.slug \in Slugs
         /\ draft[r] \in PlanRow /\ draft[r] # None
         /\ draft[r].product = req[r].product
         /\ \A q \in Plans : q # req[r].plan /\ plans[q] # None => ~SameKey(plans[q], draft[r])
<1>1. RequestOK(r) /\ req[r] # None /\ req[r] \in Request
  BY RowTypes DEF IInv, RequestOK, AskOK, Running
<1>2. draft[r] # None /\ draft[r] \in PlanRow
  BY <1>1, RowTypes DEF IInv, RequestOK, DraftOK
<1> QED
  BY <1>1, <1>2 DEF RequestOK, DraftOK, KeyOK, InTheWay, Kind, Request, Form

\* The tables after a row with a key of its own has appeared or changed.
LEMMA PlanSlugsStayUnique ==
  ASSUME IInv, NEW r \in Requests, pc[r] = "committing",
         plans' = [plans EXCEPT ![req[r].plan] = draft[r]],
         NEW p \in Plans, NEW q \in Plans, plans'[p] # None, plans'[q] # None,
         SameKey(plans'[p], plans'[q])
  PROVE  p = q
<1>1. /\ \A o \in Plans : o # req[r].plan => plans'[o] = plans[o]
      /\ plans'[req[r].plan] = draft[r]
  BY CommitFacts DEF IInv, TypeOK
<1>2. CASE p # req[r].plan /\ q # req[r].plan
  BY <1>1, <1>2 DEF IInv, UniqueSlugs
<1>3. CASE p = req[r].plan \/ q = req[r].plan
  BY <1>1, <1>3, CommitFacts DEF SameKey
<1> QED
  BY <1>2, <1>3

\* The commit of a save.
LEMMA CommitSaveKeeps ==
  ASSUME IInv, NEW r \in Requests, CommitSave(r)
  PROVE  IInv'
<1> DEFINE p == req[r].plan
<1>1. /\ pc[r] = "committing" /\ Kind(r) \in {"edit", "add"} /\ Close(r, "done")
      /\ plans' = [plans EXCEPT ![p] = draft[r]]
      /\ renamed' = (renamed \/ (Kind(r) = "edit" /\ draft[r].slug # plans[p].slug))
      /\ products' = products
  BY DEF CommitSave
<1>2. /\ req[r] \in Request /\ p \in Plans /\ draft[r] \in PlanRow /\ draft[r] # None
      /\ draft[r].product = req[r].product /\ req[r] # None
  BY <1>1, CommitFacts DEF Kind
<1>3. RequestOK(r)
  BY DEF IInv
<1>4. products[req[r].product] # None
  BY <1>1, <1>3 DEF RequestOK, AskOK
<1>5. Kind(r) = "edit" =>
        /\ plans[p] # None /\ plans[p].product = req[r].product
        /\ seen[r] # None
        /\ ~renamed => seen[r].slug = plans[p].slug
        /\ seen[r].slug = Free => req[r].form.active
        /\ draft[r] = Merged(r, plans[p])
  BY <1>1, <1>3 DEF RequestOK, AskOK, SeenOK, DraftOK
<1>6. /\ \A q \in Plans : q # p => plans'[q] = plans[q]
      /\ plans'[p] = draft[r]
  BY <1>1, <1>2 DEF IInv, TypeOK
<1>7. TypeOK' /\ OwnStep(r) /\ pc'[r] = "done" /\ req'[r] = None
  <2>1. TypeOK /\ "done" \in Over
    BY DEF IInv, Over
  <2> QED
    BY <1>1, <1>2, <2>1, CloseFacts DEF TypeOK
<1>8. RequestOK(r)' /\ \A s \in Requests : PairOK(r, s)' /\ PairOK(s, r)'
  BY <1>7 DEF RequestOK, AskOK, SeenOK, DraftOK, KeyOK, PairOK, Kind, Running
<1>9. ASSUME NEW s \in Requests \ {r}
      PROVE  RequestOK(s)' /\ \A t \in Requests : PairOK(s, t) /\ s # t => PairOK(s, t)'
  <2>1. Kind(s) = "create" => products'[req[s].product] = None
    BY <1>1 DEF IInv, RequestOK, AskOK
  <2>2. Kind(s) = "create" /\ pc[s] \in {"filling", "committing"} => ~SlugTaken(s)'
    BY <1>1, <1>7 DEF IInv, RequestOK, KeyOK, SlugTaken, OwnStep
  <2>3. \A x \in Products : products[x] # None => products'[x] = products[x]
    BY <1>1
  <2>4. Kind(r) = "edit" => /\ draft[r].product = plans[p].product
                            /\ ~renamed' => draft[r].slug = plans[p].slug
    BY <1>1, <1>2, <1>5
  <2>5. ~renamed' => ~renamed
    BY <1>1
  <2> QED
    BY <1>1, <2>1, <2>2, <2>3, <2>4, <2>5, CommitKeepsOthers
<1>10. UniqueSlugs'
  <2>1. \A o, q \in Plans :
          plans'[o] # None /\ plans'[q] # None /\ SameKey(plans'[o], plans'[q]) => o = q
    BY <1>1, PlanSlugsStayUnique
  <2> QED
    BY <1>1, <2>1 DEF IInv, UniqueSlugs, SameKey
<1>11. ProductsComplete'
  <2>1. ASSUME NEW q \in Plans, plans[q] # None
        PROVE  plans'[q] # None /\ plans'[q].product = plans[q].product
    <3>1. CASE q # p
      BY <1>6, <2>1, <3>1
    <3>2. CASE q = p
      BY <1>1, <1>2, <1>3, <1>5, <1>6, <2>1, <3>2 DEF RequestOK, AskOK
    <3> QED
      BY <3>1, <3>2
  <2>2. \A q \in Plans : plans'[q] # None => products[plans'[q].product] # None
    BY <1>2, <1>4, <1>6 DEF IInv, ProductsComplete
  <2> QED
    BY <1>1, <2>1, <2>2 DEF IInv, ProductsComplete
<1>12. FreePlanAvailable'
  <2>1. SUFFICES ASSUME ~renamed', NEW x \in Products, products[x] # None
                 PROVE  \E q \in Plans : IsFreePlan(q, x)' /\ plans'[q].active
    BY <1>1 DEF FreePlanAvailable
  <2>2. ~renamed
    BY <1>1, <2>1
  <2>3. PICK q \in Plans : IsFreePlan(q, x) /\ plans[q].active
    BY <2>1, <2>2 DEF IInv, FreePlanAvailable
  <2>4. CASE q # p
    BY <1>6, <2>3, <2>4 DEF IsFreePlan
  <2>5. CASE q = p
    <3>1. Kind(r) = "edit"
      BY <1>1, <1>3, <2>3, <2>5 DEF RequestOK, AskOK, IsFreePlan
    <3>2. draft[r].slug = plans[p].slug
      BY <1>1, <2>1, <3>1
    <3>3. req[r].form.active = TRUE
      BY <1>2, <1>5, <2>2, <2>3, <2>5, <3>1 DEF IsFreePlan, Request, Form
    <3>4. draft[r].active
      BY <1>5, <2>3, <2>5, <3>1, <3>3 DEF Merged, Column
    <3> QED
      BY <1>2, <1>5, <1>6, <2>3, <2>5, <3>1, <3>2, <3>4 DEF IsFreePlan
  <2> QED
    BY <2>4, <2>5
<1>13. ASSUME NEW s \in Requests, NEW t \in Requests, s # t PROVE PairOK(s, t)'
  BY <1>8, <1>9, <1>13 DEF IInv
<1> QED
  BY <1>7, <1>8, <1>9, <1>10, <1>11, <1>12, <1>13 DEF IInv

\* The commit of a new product, with its token and its free plan.
LEMMA CommitCreateKeeps ==
  ASSUME IInv, NEW r \in Requests, CommitCreate(r)
  PROVE  IInv'
<1> DEFINE p == req[r].plan
           x == req[r].product
           row == [slug |-> req[r].form.slug, token |-> TRUE]
<1>1. /\ pc[r] = "committing" /\ Kind(r) = "create" /\ Close(r, "done")
      /\ plans' = [plans EXCEPT ![p] = draft[r]]
      /\ products' = [products EXCEPT ![x] = row]
      /\ renamed' = renamed
  BY DEF CommitCreate
<1>2. /\ req[r] \in Request /\ p \in Plans /\ x \in Products
      /\ draft[r] \in PlanRow /\ draft[r] # None /\ draft[r].product = x /\ req[r] # None
      /\ req[r].form.slug \in Slugs
  BY <1>1, CommitFacts DEF Kind
<1>3. RequestOK(r)
  BY DEF IInv
<1>4. /\ products[x] = None /\ plans[p] = None
      /\ draft[r].slug = Free /\ draft[r].active /\ ~SlugTaken(r)
  BY <1>1, <1>3 DEF RequestOK, AskOK, DraftOK, KeyOK
<1>5. row \in ProductRow /\ row # None /\ row.slug = req[r].form.slug /\ row.token = TRUE
  <2>1. row \in ProductRow
    BY <1>2 DEF ProductRow
  <2> QED
    BY <2>1, CatalogueAssumption
<1> HIDE DEF row
<1>6. /\ \A q \in Plans : q # p => plans'[q] = plans[q]
      /\ plans'[p] = draft[r]
      /\ \A y \in Products : y # x => products'[y] = products[y]
      /\ products'[x] = row
  BY <1>1, <1>2 DEF IInv, TypeOK
<1>7. TypeOK' /\ OwnStep(r) /\ pc'[r] = "done" /\ req'[r] = None
  <2>1. TypeOK /\ "done" \in Over
    BY DEF IInv, Over
  <2> QED
    BY <1>1, <1>2, <1>5, <2>1, CloseFacts DEF TypeOK
<1>8. RequestOK(r)' /\ \A s \in Requests : PairOK(r, s)' /\ PairOK(s, r)'
  BY <1>7 DEF RequestOK, AskOK, SeenOK, DraftOK, KeyOK, PairOK, Kind, Running
<1>9. ASSUME NEW s \in Requests \ {r}
      PROVE  RequestOK(s)' /\ \A t \in Requests : PairOK(s, t) /\ s # t => PairOK(s, t)'
  <2>1. ASSUME Kind(s) = "create"
        PROVE  /\ products'[req[s].product] = None
               /\ pc[s] \in {"filling", "committing"} => ~SlugTaken(s)'
    <3>1. req[s] # None /\ req[s] \in Request
      BY <2>1, RowTypes DEF IInv, Kind
    <3>2. /\ req[s].product # x /\ req[s].product \in Products
          /\ pc[s] \in {"filling", "committing"} => req[s].form.slug # req[r].form.slug
      BY <1>1, <1>2, <2>1, <3>1 DEF IInv, PairOK, Request
    <3>3. products'[req[s].product] = None
      BY <1>6, <2>1, <3>2 DEF IInv, RequestOK, AskOK
    <3>4. pc[s] \in {"filling", "committing"} => ~SlugTaken(s)
      BY <2>1 DEF IInv, RequestOK, KeyOK
    <3> QED
      BY <1>5, <1>6, <1>7, <3>2, <3>3, <3>4 DEF SlugTaken, OwnStep
  <2>2. \A y \in Products : products[y] # None => products'[y] = products[y]
    BY <1>4, <1>6
  <2> QED
    BY <1>1, <2>1, <2>2, CommitKeepsOthers
<1>10. UniqueSlugs'
  <2>1. \A o, q \in Plans :
          plans'[o] # None /\ plans'[q] # None /\ SameKey(plans'[o], plans'[q]) => o = q
    BY <1>1, PlanSlugsStayUnique
  <2>2. ASSUME NEW y \in Products, NEW z \in Products,
               products'[y] # None, products'[z] # None, products'[y].slug = products'[z].slug
        PROVE  y = z
    <3>1. CASE y # x /\ z # x
      BY <1>6, <2>2, <3>1 DEF IInv, UniqueSlugs
    <3>2. CASE y = x \/ z = x
      BY <1>4, <1>5, <1>6, <2>2, <3>2 DEF SlugTaken
    <3> QED
      BY <3>1, <3>2
  <2> QED
    BY <2>1, <2>2 DEF UniqueSlugs, SameKey
<1>11. ProductsComplete'
  <2>1. \A q \in Plans : plans[q] # None => plans'[q] = plans[q]
    BY <1>4, <1>6
  <2>2. ASSUME NEW y \in Products, products'[y] # None
        PROVE  products'[y].token /\ \E q \in Plans : plans'[q] # None /\ plans'[q].product = y
    <3>1. CASE y = x
      BY <1>2, <1>5, <1>6, <3>1
    <3>2. CASE y # x
      BY <1>6, <2>1, <2>2, <3>2 DEF IInv, ProductsComplete
    <3> QED
      BY <3>1, <3>2
  <2>3. ASSUME NEW q \in Plans, plans'[q] # None PROVE products'[plans'[q].product] # None
    <3>1. CASE q = p
      BY <1>2, <1>5, <1>6, <3>1
    <3>2. CASE q # p
      <4>1. plans'[q] = plans[q] /\ products[plans[q].product] # None
        BY <1>6, <2>3, <3>2 DEF IInv, ProductsComplete
      <4>2. plans[q].product \in Products
        BY <2>3, <4>1, RowTypes DEF IInv, PlanRow
      <4> QED
        BY <1>4, <1>6, <4>1, <4>2
    <3> QED
      BY <3>1, <3>2
  <2> QED
    BY <2>2, <2>3 DEF ProductsComplete
<1>12. FreePlanAvailable'
  <2>1. SUFFICES ASSUME ~renamed, NEW y \in Products, products'[y] # None
                 PROVE  \E q \in Plans : IsFreePlan(q, y)' /\ plans'[q].active
    BY <1>1 DEF FreePlanAvailable
  <2>2. CASE y = x
    BY <1>2, <1>4, <1>6, <2>2 DEF IsFreePlan
  <2>3. CASE y # x
    <3>1. PICK q \in Plans : IsFreePlan(q, y) /\ plans[q].active
      BY <1>6, <2>1, <2>3 DEF IInv, FreePlanAvailable
    <3>2. plans'[q] = plans[q]
      BY <1>4, <1>6, <3>1 DEF IsFreePlan
    <3> QED
      BY <3>1, <3>2 DEF IsFreePlan
  <2> QED
    BY <2>2, <2>3
<1>13. ASSUME NEW s \in Requests, NEW t \in Requests, s # t PROVE PairOK(s, t)'
  BY <1>8, <1>9, <1>13 DEF IInv
<1> QED
  BY <1>7, <1>8, <1>9, <1>10, <1>11, <1>12, <1>13 DEF IInv

---------------------------------------------------------------------------
(* Theorems *)

\* The invariant holds when the program starts.
LEMMA InitKeeps == Init => IInv
<1> SUFFICES ASSUME Init PROVE IInv
  OBVIOUS
<1>1. TypeOK
  BY CatalogueAssumption DEF Init, TypeOK
<1>2. \A r \in Requests : pc[r] = "idle" /\ req[r] = None
  BY DEF Init
<1>3. /\ \A r \in Requests : RequestOK(r)
      /\ \A r, s \in Requests : PairOK(r, s)
  BY <1>2 DEF RequestOK, AskOK, SeenOK, DraftOK, KeyOK, PairOK, Kind, Running
<1>4. UniqueSlugs
  BY CatalogueAssumption DEF Init, UniqueSlugs, SameKey
<1>5. ProductsComplete
  BY CatalogueAssumption DEF Init, ProductsComplete
<1>6. FreePlanAvailable
  BY CatalogueAssumption DEF Init, FreePlanAvailable, IsFreePlan
<1> QED
  BY <1>1, <1>3, <1>4, <1>5, <1>6 DEF IInv

\* Every step keeps the invariant.
LEMMA NextKeeps == IInv /\ [Next]_vars => IInv'
<1> SUFFICES ASSUME IInv, [Next]_vars PROVE IInv'
  OBVIOUS
<1>1. ASSUME NEW r \in Requests, Arrive(r) PROVE IInv'
  <2>1. PICK x \in Products, p \in Plans :
          \/ \E form \in Form : BeginEdit(r, x, p, form) \/ BeginAdd(r, x, p, form)
          \/ \E slug \in Slugs : BeginCreate(r, x, p, slug)
    BY <1>1 DEF Arrive
  <2>2. ASSUME NEW form \in Form, BeginEdit(r, x, p, form) PROVE IInv'
    BY <2>2, AskKeeps DEF BeginEdit
  <2>3. ASSUME NEW form \in Form, BeginAdd(r, x, p, form) PROVE IInv'
    BY <2>3, AskKeeps DEF BeginAdd
  <2>4. ASSUME NEW slug \in Slugs, BeginCreate(r, x, p, slug) PROVE IInv'
    <3>1. [slug |-> slug, active |-> TRUE, terms |-> FreeTerms] \in Form
      BY CatalogueAssumption DEF Form
    <3> QED
      BY <2>4, <3>1, AskKeeps DEF BeginCreate
  <2> QED
    BY <2>1, <2>2, <2>3, <2>4
<1>2. ASSUME NEW r \in Requests,
             \/ RefusePlan(r) \/ SaveUnchanged(r) \/ RefuseDuplicate(r)
             \/ RefuseProduct(r) \/ Victim(r) \/ Abort(r)
      PROVE  IInv'
  <2>1. /\ UNCHANGED <<products, plans, renamed>>
        /\ \E how \in Over : Close(r, how)
    BY <1>2 DEF RefusePlan, SaveUnchanged, RefuseDuplicate, RefuseProduct, Victim, Abort, Over
  <2> QED
    BY <2>1, CloseKeeps
<1>3. ASSUME NEW r \in Requests, Serve(r) PROVE IInv'
  BY <1>2, <1>3, ReadPlanKeeps, WriteKeeps, EnterKeyKeeps, CommitSaveKeeps,
     EnterProductKeeps, FillKeeps, CommitCreateKeeps DEF Serve
<1>4. CASE UNCHANGED vars
  BY <1>4 DEF vars, tx, IInv, TypeOK, RequestOK, AskOK, SeenOK, DraftOK, KeyOK, PairOK, Kind,
     InTheWay, SlugTaken, Merged, Column, UniqueSlugs, ProductsComplete, FreePlanAvailable,
     IsFreePlan
<1> QED
  BY <1>1, <1>2, <1>3, <1>4 DEF Next, Finished

\* The invariant holds whatever forms are sent and however they end.
THEOREM Inductive == Spec => []IInv
<1> QED
  BY InitKeeps, NextKeeps, PTL DEF Spec

\* Every variable keeps its type.
THEOREM TypeCorrect == Spec => []TypeOK
<1>1. IInv => TypeOK
  BY DEF IInv
<1> QED
  BY <1>1, Inductive, PTL

\* Saves and creations that run at once, wait for one another, are refused or
\* roll back never leave two plans or two products with one slug.
THEOREM SlugsAreUnique == Spec => []UniqueSlugs
<1>1. IInv => UniqueSlugs
  BY DEF IInv
<1> QED
  BY <1>1, Inductive, PTL

\* Wherever its creation fails, a product is there with its token and a plan
\* or not at all.
THEOREM ProductsAreWhole == Spec => []ProductsComplete
<1>1. IInv => ProductsComplete
  BY DEF IInv
<1> QED
  BY <1>1, Inductive, PTL

\* Unless a plan is renamed, every product keeps an active free plan.
THEOREM FreePlanStays == Spec => []FreePlanAvailable
<1>1. IInv => FreePlanAvailable
  BY DEF IInv
<1> QED
  BY <1>1, Inductive, PTL

\* A request that goes from committing an edit to its end has committed it.
LEMMA OnlyCommits ==
  ASSUME IInv, [Next]_vars, NEW r \in Requests,
         pc[r] = "committing", Kind(r) = "edit", pc'[r] = "done"
  PROVE  CommitSave(r)
<1>1. pc'[r] # pc[r]
  OBVIOUS
<1>2. ASSUME NEW s \in Requests, Arrive(s) \/ Serve(s) \/ Abort(s) PROVE s = r
  <2>1. \E to \in {"idle"} \cup Running \cup Over : pc' = [pc EXCEPT ![s] = to]
    BY <1>2 DEF Arrive, BeginEdit, BeginAdd, BeginCreate, Serve, ReadPlan, RefusePlan,
       SaveUnchanged, Update, Insert, EnterKey, RefuseDuplicate, CommitSave, EnterProduct,
       RefuseProduct, Fill, CommitCreate, Victim, Abort, Close, Goto, Running, Over
  <2> QED
    BY <1>1, <2>1 DEF IInv, TypeOK
<1>3. PICK s \in Requests : Arrive(s) \/ Serve(s) \/ Abort(s)
  BY <1>1 DEF Next, Finished, vars
<1>4. Arrive(r) \/ Serve(r) \/ Abort(r)
  BY <1>2, <1>3
<1>5. ~(Victim(r) \/ Abort(r))
  BY DEF Victim, Abort, Close, Goto, IInv, TypeOK
<1> QED
  BY <1>4, <1>5 DEF Arrive, BeginEdit, BeginAdd, BeginCreate, Ask, Serve, ReadPlan, RefusePlan,
     SaveUnchanged, Update, Insert, EnterKey, RefuseDuplicate, EnterProduct, RefuseProduct,
     Fill, CommitCreate

\* A save changes what its administrator has changed, in the latest version of
\* the row, and leaves the columns that others have changed.
THEOREM SavesAreMerged == Spec => SavesMerge
<1>1. ASSUME IInv, [Next]_vars, NEW r \in Requests,
             pc[r] = "committing", Kind(r) = "edit", pc'[r] = "done"
      PROVE  LET p == req[r].plan form == req[r].form IN
             /\ plans'[p].product = plans[p].product
             /\ plans'[p].slug = IF form.slug = seen[r].slug THEN plans[p].slug ELSE form.slug
             /\ plans'[p].active =
                  IF form.active = seen[r].active THEN plans[p].active ELSE form.active
             /\ plans'[p].terms =
                  IF form.terms = seen[r].terms THEN plans[p].terms ELSE form.terms
  <2>1. CommitSave(r)
    BY <1>1, OnlyCommits
  <2>2. draft[r] = Merged(r, plans[req[r].plan]) /\ req[r].plan \in Plans
    BY <1>1, CommitFacts DEF IInv, RequestOK, DraftOK
  <2>3. plans'[req[r].plan] = draft[r]
    BY <1>1, <2>1, <2>2 DEF CommitSave, IInv, TypeOK
  <2> QED
    BY <2>2, <2>3 DEF Merged, Column
<1>2. IInv /\ [Next]_vars => [SavesMergeStep]_vars
  BY <1>1 DEF SavesMergeStep
<1> QED
  BY <1>2, Inductive, PTL DEF Spec, SavesMerge

---------------------------------------------------------------------------
(* What the subscription service relies on *)

\* What PlanTable sees of the rows there are.
LEMMA ViewFacts ==
  ASSUME TypeOK
  PROVE  /\ PlanView \in [Plans -> Table!Row \cup {None}]
         /\ \A p \in Plans : PlanView[p] # None =>
              /\ plans[p] # None
              /\ PlanView[p].product = plans[p].product
              /\ PlanView[p].free = (plans[p].slug = Free)
BY DEF TypeOK, PlanView, PlanRow, Table!Row

\* The row that a transaction commits, be it an edit, a new plan or the free
\* plan of a new product, is a save that PlanTable allows.
LEMMA CommitIsSave ==
  ASSUME IInv, TypeOK', NEW r \in Requests, pc[r] = "committing",
         plans' = [plans EXCEPT ![req[r].plan] = draft[r]]
  PROVE  Table!Next
<1> DEFINE p == req[r].plan
           row == [product |-> draft[r].product, free |-> draft[r].slug = Free]
<1>1. /\ p \in Plans /\ draft[r] \in PlanRow /\ draft[r] # None
      /\ draft[r].product = req[r].product
      /\ req[r] # None /\ Kind(r) = req[r].kind /\ req[r] \in Request
      /\ \A q \in Plans : q # p /\ plans[q] # None => ~SameKey(plans[q], draft[r])
  BY CommitFacts, CatalogueAssumption
<1>2. row \in Table!Row
  BY <1>1 DEF PlanRow, Table!Row
<1>3. plans[p] # None => plans[p].product = draft[r].product
  <2>1. RequestOK(r)
    BY DEF IInv
  <2>2. CASE Kind(r) = "edit"
    BY <1>1, <2>1, <2>2 DEF RequestOK, SeenOK
  <2>3. CASE Kind(r) # "edit"
    BY <1>1, <2>1, <2>3 DEF RequestOK, AskOK, Request
  <2> QED
    BY <2>2, <2>3
<1>4. PlanView' = [PlanView EXCEPT ![p] = row]
  <2>1. \A q \in Plans : plans'[q] = IF q = p THEN draft[r] ELSE plans[q]
    BY <1>1 DEF IInv, TypeOK
  <2>2. \A q \in Plans : PlanView'[q] = IF q = p THEN row ELSE PlanView[q]
    BY <1>1, <2>1 DEF PlanView
  <2>3. /\ PlanView = [q \in Plans |-> PlanView[q]]
        /\ PlanView' = [q \in Plans |-> PlanView'[q]]
    BY DEF PlanView
  <2> HIDE DEF row
  <2> QED
    BY <1>1, <2>2, <2>3
<1>5. Table!Allowed(p, row)
  <2>1. TypeOK
    BY DEF IInv
  <2>2. PlanView[p] # None => row.product = PlanView[p].product
    BY <1>1, <1>3, <2>1, ViewFacts
  <2>3. ASSUME row.free, NEW q \in Plans \ {p}, PlanView[q] # None,
               PlanView[q].product = row.product
        PROVE  ~PlanView[q].free
    <3>1. plans[q] # None /\ plans[q].product = draft[r].product /\ draft[r].slug = Free
      BY <2>1, <2>3, ViewFacts
    <3>2. plans[q].slug # Free
      BY <1>1, <3>1 DEF SameKey
    <3> QED
      BY <2>1, <2>3, <3>2, ViewFacts
  <2> QED
    BY <2>2, <2>3 DEF Table!Allowed, Table!Second
<1> QED
  BY <1>1, <1>2, <1>4, <1>5 DEF Table!Next, Table!Save

\* However the saves interleave, wait, merge, fail and roll back, they fill
\* the table as PlanTable says, on which the steps SavePlan of Subscriptions
\* are built: a plan stays with its product, and a product has one free plan.
THEOREM CatalogueImplementsPlanTable == Spec => ImplementsPlanTable
<1>1. Init => Table!Init
  <2> SUFFICES ASSUME Init PROVE Table!Init
    OBVIOUS
  <2>1. IInv
    BY InitKeeps
  <2>2. ASSUME NEW p \in Plans, NEW q \in Plans \ {p},
               PlanView[p] # None, PlanView[q] # None, PlanView[p].free,
               PlanView[q].product = PlanView[p].product
        PROVE  ~PlanView[q].free
    <3>1. TypeOK /\ UniqueSlugs
      BY <2>1 DEF IInv
    <3>2. /\ plans[p] # None /\ plans[p].slug = Free
          /\ plans[q] # None /\ plans[q].product = plans[p].product
      BY <2>2, <3>1, ViewFacts
    <3>3. plans[q].slug # Free
      BY <3>1, <3>2 DEF UniqueSlugs, SameKey
    <3> QED
      BY <2>2, <3>1, <3>3, ViewFacts
  <2> QED
    BY <2>1, <2>2, ViewFacts DEF IInv, Table!Init, Table!Second
<1>2. ASSUME IInv, [Next]_vars
      PROVE  [Table!Next]_PlanView
  <2>1. ASSUME plans' = plans
        PROVE  UNCHANGED PlanView
    BY <2>1 DEF PlanView
  <2>2. ASSUME NEW r \in Requests, CommitSave(r) \/ CommitCreate(r)
        PROVE  Table!Next
    BY <1>2, <2>2, CommitIsSave, NextKeeps DEF CommitSave, CommitCreate, IInv
  <2>3. ASSUME NEW r \in Requests, Arrive(r) \/ Serve(r) \/ Abort(r),
               ~CommitSave(r), ~CommitCreate(r)
        PROVE  plans' = plans
    BY <2>3 DEF Arrive, BeginEdit, BeginAdd, BeginCreate, Serve, ReadPlan, RefusePlan,
       SaveUnchanged, Update, Insert, EnterKey, RefuseDuplicate, EnterProduct, RefuseProduct,
       Fill, Victim, Abort
  <2> QED
    BY <1>2, <2>1, <2>2, <2>3 DEF Next, Finished, vars
<1>3. IInv /\ [Next]_vars => [Table!Next]_PlanView
  BY <1>2
<1> QED
  BY <1>1, <1>3, Inductive, PTL DEF Spec, ImplementsPlanTable, Table!Spec
===========================================================================
