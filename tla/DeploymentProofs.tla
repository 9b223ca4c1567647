--------------------------- MODULE DeploymentProofs ---------------------------
(***************************************************************************)
(* Theorems about Deployment for any number of publishes and any rows in   *)
(* the tables: what each statement of a revision does, hence what each     *)
(* revision does; then the order of the steps of publish.sh; and from both *)
(* that the schema is always the one of the recorded revision.             *)
(***************************************************************************)
EXTENDS Deployment, TLAPS

-------------------------------------------------------------------------------
(* What the statements do *)

\* The products of a name and few names.
LEMMA Pairs == ASSUME NEW t, NEW u, NEW v
               PROVE  /\ {t} \X {} = {} /\ {t} \X {u} = {<<t, u>>}
                      /\ {t} \X {u, v} = {<<t, u>>, <<t, v>>}
OBVIOUS

\* A database is not the mark of a failed transaction.
LEMMA DatabaseFields ==
  ASSUME NEW T, NEW K, NEW X, NEW f
  PROVE  LET d == Database(T, K, X, f) IN
         d # Failed /\ d.tables = T /\ d.keys = K /\ d.extras = X /\ d.filled = f
BY DEF Database, Failed

\* A statement on a database is executed or refused.
LEMMA Executed ==
  ASSUME NEW T, NEW K, NEW X, NEW f, NEW op
  PROVE  LET d == Database(T, K, X, f) IN
         d ++ op = IF Possible(op, d) THEN Result(op, d) ELSE Failed
BY DatabaseFields DEF ++, Execute

\* After a refused statement the others are refused too.
LEMMA FailedStays == ASSUME NEW op PROVE Failed ++ op = Failed
BY DEF ++, Execute

\* CREATE TABLE of a new table whose keys refer to tables there are.
LEMMA CreateWorks ==
  ASSUME NEW T, NEW K, NEW X, NEW f, NEW t, NEW us, t \notin T, us \subseteq T
  PROVE  Database(T, K, X, f) ++ Create(t, us) = Database(T \cup {t}, K \cup ({t} \X us), X, f)
<1> DEFINE d == Database(T, K, X, f)
           op == Create(t, us)
<1>1. d.tables = T /\ d.keys = K /\ d.extras = X /\ d.filled = f
  BY DatabaseFields
<1>2. op.do = "create" /\ op.table = t /\ op.args = us
  BY DEF Create
<1>3. d ++ op = IF Possible(op, d) THEN Result(op, d) ELSE Failed
  BY Executed
<1> HIDE DEF d, op
<1>4. Possible(op, d) <=> t \notin d.tables /\ us \subseteq d.tables
  BY <1>2, Zenon DEF Possible
<1>5. Result(op, d) = Database(d.tables \cup {t}, d.keys \cup ({t} \X us), d.extras, d.filled)
  BY <1>2, Zenon DEF Result
<1>6. Result(op, d) = Database(T \cup {t}, K \cup ({t} \X us), X, f)
  BY <1>1, <1>5
<1>7. QED
  BY <1>1, <1>3, <1>4, <1>6 DEF d, op

\* DROP TABLE of a table that no other one refers to.
LEMMA DropWorks ==
  ASSUME NEW T, NEW K, NEW X, NEW f, NEW t, t \in T, \A k \in K : k[2] = t => k[1] = t
  PROVE  Database(T, K, X, f) ++ Drop(t) = Database(T \ {t}, {k \in K : k[1] # t}, {x \in X : x[1] # t}, f \ {t})
<1> DEFINE d == Database(T, K, X, f)
           op == Drop(t)
<1>1. d.tables = T /\ d.keys = K /\ d.extras = X /\ d.filled = f
  BY DatabaseFields
<1>2. op.do = "drop" /\ op.table = t /\ op.args = {}
  BY DEF Drop
<1>3. d ++ op = IF Possible(op, d) THEN Result(op, d) ELSE Failed
  BY Executed
<1> HIDE DEF d, op
<1>4. Possible(op, d) <=> t \in d.tables /\ \A k \in d.keys : k[2] = t => k[1] = t
  BY <1>2, Zenon DEF Possible
<1>5. Result(op, d) = Database(d.tables \ {t}, {k \in d.keys : k[1] # t},
                       {x \in d.extras : x[1] # t}, d.filled \ {t})
  BY <1>2, Zenon DEF Result
<1>6. Result(op, d) = Database(T \ {t}, {k \in K : k[1] # t}, {x \in X : x[1] # t}, f \ {t})
  BY <1>1, <1>5
<1>7. QED
  BY <1>1, <1>3, <1>4, <1>6 DEF d, op

\* ADD FOREIGN KEY, if the rows there are find their rows.
LEMMA AddKeyWorks ==
  ASSUME NEW T, NEW K, NEW X, NEW f, NEW t, NEW us, {t} \cup us \subseteq T, t \in f => us \subseteq f
  PROVE  Database(T, K, X, f) ++ AddKey(t, us) = Database(T, K \cup ({t} \X us), X, f)
<1> DEFINE d == Database(T, K, X, f)
           op == AddKey(t, us)
<1>1. d.tables = T /\ d.keys = K /\ d.extras = X /\ d.filled = f
  BY DatabaseFields
<1>2. op.do = "addkey" /\ op.table = t /\ op.args = us
  BY DEF AddKey
<1>3. d ++ op = IF Possible(op, d) THEN Result(op, d) ELSE Failed
  BY Executed
<1> HIDE DEF d, op
<1>4. Possible(op, d) <=> {t} \cup us \subseteq d.tables /\ (t \in d.filled => us \subseteq d.filled)
  BY <1>2, Zenon DEF Possible
<1>5. Result(op, d) = Database(d.tables, d.keys \cup ({t} \X us), d.extras, d.filled)
  BY <1>2, Zenon DEF Result
<1>6. Result(op, d) = Database(T, K \cup ({t} \X us), X, f)
  BY <1>1, <1>5
<1>7. QED
  BY <1>1, <1>3, <1>4, <1>6 DEF d, op

\* DROP CONSTRAINT of a foreign key there is.
LEMMA DropKeyWorks ==
  ASSUME NEW T, NEW K, NEW X, NEW f, NEW t, NEW us, {t} \X us \subseteq K
  PROVE  Database(T, K, X, f) ++ DropKey(t, us) = Database(T, K \ ({t} \X us), X, f)
<1> DEFINE d == Database(T, K, X, f)
           op == DropKey(t, us)
<1>1. d.tables = T /\ d.keys = K /\ d.extras = X /\ d.filled = f
  BY DatabaseFields
<1>2. op.do = "dropkey" /\ op.table = t /\ op.args = us
  BY DEF DropKey
<1>3. d ++ op = IF Possible(op, d) THEN Result(op, d) ELSE Failed
  BY Executed
<1> HIDE DEF d, op
<1>4. Possible(op, d) <=> {t} \X us \subseteq d.keys
  BY <1>2, Zenon DEF Possible
<1>5. Result(op, d) = Database(d.tables, d.keys \ ({t} \X us), d.extras, d.filled)
  BY <1>2, Zenon DEF Result
<1>6. Result(op, d) = Database(T, K \ ({t} \X us), X, f)
  BY <1>1, <1>5
<1>7. QED
  BY <1>1, <1>3, <1>4, <1>6 DEF d, op

\* Columns and triggers that are added.
LEMMA PutWorks ==
  ASSUME NEW T, NEW K, NEW X, NEW f, NEW t, NEW us, t \in T, ({t} \X us) \cap X = {}
  PROVE  Database(T, K, X, f) ++ Put(t, us) = Database(T, K, X \cup ({t} \X us), f)
<1> DEFINE d == Database(T, K, X, f)
           op == Put(t, us)
<1>1. d.tables = T /\ d.keys = K /\ d.extras = X /\ d.filled = f
  BY DatabaseFields
<1>2. op.do = "put" /\ op.table = t /\ op.args = us
  BY DEF Put
<1>3. d ++ op = IF Possible(op, d) THEN Result(op, d) ELSE Failed
  BY Executed
<1> HIDE DEF d, op
<1>4. Possible(op, d) <=> t \in d.tables /\ ({t} \X us) \cap d.extras = {}
  BY <1>2, Zenon DEF Possible
<1>5. Result(op, d) = Database(d.tables, d.keys, d.extras \cup ({t} \X us), d.filled)
  BY <1>2, Zenon DEF Result
<1>6. Result(op, d) = Database(T, K, X \cup ({t} \X us), f)
  BY <1>1, <1>5
<1>7. QED
  BY <1>1, <1>3, <1>4, <1>6 DEF d, op

\* Columns and triggers that are dropped.
LEMMA RemoveWorks ==
  ASSUME NEW T, NEW K, NEW X, NEW f, NEW t, NEW us, {t} \X us \subseteq X
  PROVE  Database(T, K, X, f) ++ Remove(t, us) = Database(T, K, X \ ({t} \X us), f)
<1> DEFINE d == Database(T, K, X, f)
           op == Remove(t, us)
<1>1. d.tables = T /\ d.keys = K /\ d.extras = X /\ d.filled = f
  BY DatabaseFields
<1>2. op.do = "remove" /\ op.table = t /\ op.args = us
  BY DEF Remove
<1>3. d ++ op = IF Possible(op, d) THEN Result(op, d) ELSE Failed
  BY Executed
<1> HIDE DEF d, op
<1>4. Possible(op, d) <=> {t} \X us \subseteq d.extras
  BY <1>2, Zenon DEF Possible
<1>5. Result(op, d) = Database(d.tables, d.keys, d.extras \ ({t} \X us), d.filled)
  BY <1>2, Zenon DEF Result
<1>6. Result(op, d) = Database(T, K, X \ ({t} \X us), f)
  BY <1>1, <1>5
<1>7. QED
  BY <1>1, <1>3, <1>4, <1>6 DEF d, op

\* ADD FOREIGN KEY to a table with rows, when there are none to refer to.
LEMMA AddKeyFails ==
  ASSUME NEW T, NEW K, NEW X, NEW f, NEW t, NEW us, t \in f, ~(us \subseteq f)
  PROVE  Database(T, K, X, f) ++ AddKey(t, us) = Failed
<1> DEFINE d == Database(T, K, X, f)
           op == AddKey(t, us)
<1>1. d.filled = f
  BY DatabaseFields
<1>2. op.do = "addkey" /\ op.table = t /\ op.args = us
  BY DEF AddKey
<1>3. d ++ op = IF Possible(op, d) THEN Result(op, d) ELSE Failed
  BY Executed
<1> HIDE DEF d, op
<1>4. Possible(op, d) => (t \in d.filled => us \subseteq d.filled)
  BY <1>2, Zenon DEF Possible
<1>5. QED
  BY <1>1, <1>3, <1>4 DEF d, op

-------------------------------------------------------------------------------
(* What the revisions do *)

\* The schema of each revision: its tables, foreign keys and what else it has.
Tables(n) == CASE n = 0 -> {}
               [] n = 1 -> {"tenants"}
               [] n = 2 -> {"tenants", "users", "refresh_tokens"}
               [] n = 3 -> ModelTables
               [] n = 4 -> ModelTables
Keys(n) == CASE n = 0 -> {}
             [] n = 1 -> {}
             [] n = 2 -> {<<"refresh_tokens", "users">>}
             [] n = 3 -> ModelKeys
             [] n = 4 -> ModelKeys
Extras(n) == CASE n = 0 -> {}
               [] n = 1 -> {}
               [] n = 2 -> {}
               [] n = 3 -> {<<"subscription_events", "append_only">>}
               [] n = 4 -> {<<"subscription_events", "append_only">>, <<"products", "service_token">>}

At(n, f) == Database(Tables(n), Keys(n), Extras(n), f)

\* Revision 20260611_01, from the empty database.
LEMMA Upgrade01Works ==
  ASSUME NEW f
  PROVE  Upgrade01(At(0, f)) = At(1, f)
<1> DEFINE t0 == Tables(0)
           k0 == Keys(0)
           x0 == Extras(0)
           t1 == t0 \cup {"tenants"}
           k1 == k0 \cup ({"tenants"} \X {})
<1>1. "tenants" \notin t0 /\ {} \subseteq t0
  BY Pairs DEF Tables, Keys, Extras, ModelTables, ModelKeys
<1>2. t1 = Tables(1) /\ k1 = Keys(1) /\ x0 = Extras(1)
  BY Pairs DEF Tables, Keys, Extras, ModelTables, ModelKeys
<1>3. At(0, f) = Database(t0, k0, x0, f) /\ At(1, f) = Database(t1, k1, x0, f)
  BY <1>2 DEF At
<1> HIDE DEF t0, k0, x0, t1, k1
<1>4. Database(t0, k0, x0, f) ++ Create("tenants", {})
        = Database(t1, k1, x0, f)
  BY <1>1, CreateWorks DEF t1, k1
<1>5. QED
  BY <1>2, <1>3, <1>4 DEF Upgrade01

\* Revision 20260611_02.
LEMMA Upgrade02Works ==
  ASSUME NEW f
  PROVE  Upgrade02(At(1, f)) = At(2, f)
<1> DEFINE t0 == Tables(1)
           k0 == Keys(1)
           x0 == Extras(1)
           t1 == t0 \cup {"users"}
           k1 == k0 \cup ({"users"} \X {})
           t2 == t1 \cup {"refresh_tokens"}
           k2 == k1 \cup ({"refresh_tokens"} \X {"users"})
<1>1. /\ "users" \notin t0 /\ {} \subseteq t0
      /\ "refresh_tokens" \notin t1 /\ {"users"} \subseteq t1
  BY Pairs DEF Tables, Keys, Extras, ModelTables, ModelKeys
<1>2. t2 = Tables(2) /\ k2 = Keys(2) /\ x0 = Extras(2)
  BY Pairs DEF Tables, Keys, Extras, ModelTables, ModelKeys
<1>3. At(1, f) = Database(t0, k0, x0, f) /\ At(2, f) = Database(t2, k2, x0, f)
  BY <1>2 DEF At
<1> HIDE DEF t0, k0, x0, t1, k1, t2, k2
<1>4. Database(t0, k0, x0, f) ++ Create("users", {})
        = Database(t1, k1, x0, f)
  BY <1>1, CreateWorks DEF t1, k1
<1>5. Database(t1, k1, x0, f) ++ Create("refresh_tokens", {"users"})
        = Database(t2, k2, x0, f)
  BY <1>1, CreateWorks DEF t2, k2
<1>6. QED
  BY <1>2, <1>3, <1>4, <1>5 DEF Upgrade02

\* Revision 20260611_03, when there are no tenants.
LEMMA Upgrade03Works ==
  ASSUME NEW f, "tenants" \notin f
  PROVE  Upgrade03(At(2, f)) = At(3, f)
<1> DEFINE t0 == Tables(2)
           k0 == Keys(2)
           x0 == Extras(2)
           t1 == t0 \cup {"products"}
           k1 == k0 \cup ({"products"} \X {})
           t2 == t1 \cup {"plans"}
           k2 == k1 \cup ({"plans"} \X {"products"})
           k3 == k2 \cup ({"tenants"} \X {"products"})
           t4 == t2 \cup {"subscriptions"}
           k4 == k3 \cup ({"subscriptions"} \X {"plans", "tenants"})
           t5 == t4 \cup {"invoices"}
           k5 == k4 \cup ({"invoices"} \X {"subscriptions"})
           t6 == t5 \cup {"subscription_events"}
           k6 == k5 \cup ({"subscription_events"} \X {"subscriptions"})
           x7 == x0 \cup ({"subscription_events"} \X {"append_only"})
<1>1. /\ "products" \notin t0 /\ {} \subseteq t0
      /\ "plans" \notin t1 /\ {"products"} \subseteq t1
      /\ {"tenants"} \cup {"products"} \subseteq t2
      /\ "subscriptions" \notin t2 /\ {"plans", "tenants"} \subseteq t2
      /\ "invoices" \notin t4 /\ {"subscriptions"} \subseteq t4
      /\ "subscription_events" \notin t5 /\ {"subscriptions"} \subseteq t5
      /\ "subscription_events" \in t6 /\ ({"subscription_events"} \X {"append_only"}) \cap x0 = {}
  BY Pairs DEF Tables, Keys, Extras, ModelTables, ModelKeys
<1>2. t6 = Tables(3) /\ k6 = Keys(3) /\ x7 = Extras(3)
  BY Pairs DEF Tables, Keys, Extras, ModelTables, ModelKeys
<1>3. At(2, f) = Database(t0, k0, x0, f) /\ At(3, f) = Database(t6, k6, x7, f)
  BY <1>2 DEF At
<1> HIDE DEF t0, k0, x0, t1, k1, t2, k2, k3, t4, k4, t5, k5, t6, k6, x7
<1>4. Database(t0, k0, x0, f) ++ Create("products", {})
        = Database(t1, k1, x0, f)
  BY <1>1, CreateWorks DEF t1, k1
<1>5. Database(t1, k1, x0, f) ++ Create("plans", {"products"})
        = Database(t2, k2, x0, f)
  BY <1>1, CreateWorks DEF t2, k2
<1>6. Database(t2, k2, x0, f) ++ AddKey("tenants", {"products"})
        = Database(t2, k3, x0, f)
  BY <1>1, AddKeyWorks DEF k3
<1>7. Database(t2, k3, x0, f) ++ Create("subscriptions", {"plans", "tenants"})
        = Database(t4, k4, x0, f)
  BY <1>1, CreateWorks DEF t4, k4
<1>8. Database(t4, k4, x0, f) ++ Create("invoices", {"subscriptions"})
        = Database(t5, k5, x0, f)
  BY <1>1, CreateWorks DEF t5, k5
<1>9. Database(t5, k5, x0, f) ++ Create("subscription_events", {"subscriptions"})
        = Database(t6, k6, x0, f)
  BY <1>1, CreateWorks DEF t6, k6
<1>10. Database(t6, k6, x0, f) ++ Put("subscription_events", {"append_only"})
        = Database(t6, k6, x7, f)
  BY <1>1, PutWorks DEF x7
<1>11. QED
  BY <1>2, <1>3, <1>4, <1>5, <1>6, <1>7, <1>8, <1>9, <1>10 DEF Upgrade03

\* Revision 20260611_04.
LEMMA Upgrade04Works ==
  ASSUME NEW f
  PROVE  Upgrade04(At(3, f)) = At(4, f)
<1> DEFINE t0 == Tables(3)
           k0 == Keys(3)
           x0 == Extras(3)
           x1 == x0 \cup ({"products"} \X {"service_token"})
<1>1. "products" \in t0 /\ ({"products"} \X {"service_token"}) \cap x0 = {}
  BY Pairs DEF Tables, Keys, Extras, ModelTables, ModelKeys
<1>2. t0 = Tables(4) /\ k0 = Keys(4) /\ x1 = Extras(4)
  BY Pairs DEF Tables, Keys, Extras, ModelTables, ModelKeys
<1>3. At(3, f) = Database(t0, k0, x0, f) /\ At(4, f) = Database(t0, k0, x1, f)
  BY <1>2 DEF At
<1> HIDE DEF t0, k0, x0, x1
<1>4. Database(t0, k0, x0, f) ++ Put("products", {"service_token"})
        = Database(t0, k0, x1, f)
  BY <1>1, PutWorks DEF x1
<1>5. QED
  BY <1>2, <1>3, <1>4 DEF Upgrade04

\* Back from revision 20260611_04.
LEMMA Downgrade04Works ==
  ASSUME NEW f, f \subseteq Tables(4)
  PROVE  Downgrade04(At(4, f)) = At(3, f \cap Tables(3))
<1> DEFINE t0 == Tables(4)
           k0 == Keys(4)
           x0 == Extras(4)
           x1 == x0 \ ({"products"} \X {"service_token"})
<1>1. ({"products"} \X {"service_token"}) \subseteq x0
  BY Pairs DEF Tables, Keys, Extras, ModelTables, ModelKeys
<1>2. t0 = Tables(3) /\ k0 = Keys(3) /\ x1 = Extras(3) /\ f \cap Tables(3) = f
  BY Pairs DEF Tables, Keys, Extras, ModelTables, ModelKeys
<1>3. At(4, f) = Database(t0, k0, x0, f) /\ At(3, f) = Database(t0, k0, x1, f)
  BY <1>2 DEF At
<1> HIDE DEF t0, k0, x0, x1
<1>4. Database(t0, k0, x0, f) ++ Remove("products", {"service_token"})
        = Database(t0, k0, x1, f)
  BY <1>1, RemoveWorks DEF x1
<1>5. QED
  BY <1>2, <1>3, <1>4 DEF Downgrade04

\* Back from revision 20260611_03, whatever rows there are.
LEMMA Downgrade03Works ==
  ASSUME NEW f, f \subseteq Tables(3)
  PROVE  Downgrade03(At(3, f)) = At(2, f \cap Tables(2))
<1> DEFINE t0 == Tables(3)
           k0 == Keys(3)
           x0 == Extras(3)
           x1 == x0 \ ({"subscription_events"} \X {"append_only"})
           t2 == t0 \ {"subscription_events"}
           k2 == {k \in k0 : k[1] # "subscription_events"}
           x2 == {x \in x1 : x[1] # "subscription_events"}
           f2 == f \ {"subscription_events"}
           t3 == t2 \ {"invoices"}
           k3 == {k \in k2 : k[1] # "invoices"}
           x3 == {x \in x2 : x[1] # "invoices"}
           f3 == f2 \ {"invoices"}
           t4 == t3 \ {"subscriptions"}
           k4 == {k \in k3 : k[1] # "subscriptions"}
           x4 == {x \in x3 : x[1] # "subscriptions"}
           f4 == f3 \ {"subscriptions"}
           k5 == k4 \ ({"tenants"} \X {"products"})
           t6 == t4 \ {"plans"}
           k6 == {k \in k5 : k[1] # "plans"}
           x6 == {x \in x4 : x[1] # "plans"}
           f6 == f4 \ {"plans"}
           t7 == t6 \ {"products"}
           k7 == {k \in k6 : k[1] # "products"}
           x7 == {x \in x6 : x[1] # "products"}
           f7 == f6 \ {"products"}
<1>1. /\ ({"subscription_events"} \X {"append_only"}) \subseteq x0
      /\ "subscription_events" \in t0 /\ \A k \in k0 : k[2] = "subscription_events" => k[1] = "subscription_events"
      /\ "invoices" \in t2 /\ \A k \in k2 : k[2] = "invoices" => k[1] = "invoices"
      /\ "subscriptions" \in t3 /\ \A k \in k3 : k[2] = "subscriptions" => k[1] = "subscriptions"
      /\ ({"tenants"} \X {"products"}) \subseteq k4
      /\ "plans" \in t4 /\ \A k \in k5 : k[2] = "plans" => k[1] = "plans"
      /\ "products" \in t6 /\ \A k \in k6 : k[2] = "products" => k[1] = "products"
  BY Pairs DEF Tables, Keys, Extras, ModelTables, ModelKeys
<1>2. t7 = Tables(2) /\ k7 = Keys(2) /\ x7 = Extras(2) /\ f7 = f \cap Tables(2)
  BY Pairs DEF Tables, Keys, Extras, ModelTables, ModelKeys
<1>3. At(3, f) = Database(t0, k0, x0, f) /\ At(2, f7) = Database(t7, k7, x7, f7)
  BY <1>2 DEF At
<1> HIDE DEF t0, k0, x0, x1, t2, k2, x2, f2, t3, k3, x3, f3, t4, k4, x4, f4, k5, t6, k6, x6,
     f6, t7, k7, x7, f7
<1>4. Database(t0, k0, x0, f) ++ Remove("subscription_events", {"append_only"})
        = Database(t0, k0, x1, f)
  BY <1>1, RemoveWorks DEF x1
<1>5. Database(t0, k0, x1, f) ++ Drop("subscription_events")
        = Database(t2, k2, x2, f2)
  BY <1>1, DropWorks DEF t2, k2, x2, f2
<1>6. Database(t2, k2, x2, f2) ++ Drop("invoices")
        = Database(t3, k3, x3, f3)
  BY <1>1, DropWorks DEF t3, k3, x3, f3
<1>7. Database(t3, k3, x3, f3) ++ Drop("subscriptions")
        = Database(t4, k4, x4, f4)
  BY <1>1, DropWorks DEF t4, k4, x4, f4
<1>8. Database(t4, k4, x4, f4) ++ DropKey("tenants", {"products"})
        = Database(t4, k5, x4, f4)
  BY <1>1, DropKeyWorks DEF k5
<1>9. Database(t4, k5, x4, f4) ++ Drop("plans")
        = Database(t6, k6, x6, f6)
  BY <1>1, DropWorks DEF t6, k6, x6, f6
<1>10. Database(t6, k6, x6, f6) ++ Drop("products")
        = Database(t7, k7, x7, f7)
  BY <1>1, DropWorks DEF t7, k7, x7, f7
<1>11. QED
  BY <1>2, <1>3, <1>4, <1>5, <1>6, <1>7, <1>8, <1>9, <1>10 DEF Downgrade03

\* Back from revision 20260611_02.
LEMMA Downgrade02Works ==
  ASSUME NEW f, f \subseteq Tables(2)
  PROVE  Downgrade02(At(2, f)) = At(1, f \cap Tables(1))
<1> DEFINE t0 == Tables(2)
           k0 == Keys(2)
           x0 == Extras(2)
           t1 == t0 \ {"refresh_tokens"}
           k1 == {k \in k0 : k[1] # "refresh_tokens"}
           x1 == {x \in x0 : x[1] # "refresh_tokens"}
           f1 == f \ {"refresh_tokens"}
           t2 == t1 \ {"users"}
           k2 == {k \in k1 : k[1] # "users"}
           x2 == {x \in x1 : x[1] # "users"}
           f2 == f1 \ {"users"}
<1>1. /\ "refresh_tokens" \in t0 /\ \A k \in k0 : k[2] = "refresh_tokens" => k[1] = "refresh_tokens"
      /\ "users" \in t1 /\ \A k \in k1 : k[2] = "users" => k[1] = "users"
  BY Pairs DEF Tables, Keys, Extras, ModelTables, ModelKeys
<1>2. t2 = Tables(1) /\ k2 = Keys(1) /\ x2 = Extras(1) /\ f2 = f \cap Tables(1)
  BY Pairs DEF Tables, Keys, Extras, ModelTables, ModelKeys
<1>3. At(2, f) = Database(t0, k0, x0, f) /\ At(1, f2) = Database(t2, k2, x2, f2)
  BY <1>2 DEF At
<1> HIDE DEF t0, k0, x0, t1, k1, x1, f1, t2, k2, x2, f2
<1>4. Database(t0, k0, x0, f) ++ Drop("refresh_tokens")
        = Database(t1, k1, x1, f1)
  BY <1>1, DropWorks DEF t1, k1, x1, f1
<1>5. Database(t1, k1, x1, f1) ++ Drop("users")
        = Database(t2, k2, x2, f2)
  BY <1>1, DropWorks DEF t2, k2, x2, f2
<1>6. QED
  BY <1>2, <1>3, <1>4, <1>5 DEF Downgrade02

\* Back from revision 20260611_01.
LEMMA Downgrade01Works ==
  ASSUME NEW f, f \subseteq Tables(1)
  PROVE  Downgrade01(At(1, f)) = At(0, f \cap Tables(0))
<1> DEFINE t0 == Tables(1)
           k0 == Keys(1)
           x0 == Extras(1)
           t1 == t0 \ {"tenants"}
           k1 == {k \in k0 : k[1] # "tenants"}
           x1 == {x \in x0 : x[1] # "tenants"}
           f1 == f \ {"tenants"}
<1>1. "tenants" \in t0 /\ \A k \in k0 : k[2] = "tenants" => k[1] = "tenants"
  BY Pairs DEF Tables, Keys, Extras, ModelTables, ModelKeys
<1>2. t1 = Tables(0) /\ k1 = Keys(0) /\ x1 = Extras(0) /\ f1 = f \cap Tables(0)
  BY Pairs DEF Tables, Keys, Extras, ModelTables, ModelKeys
<1>3. At(1, f) = Database(t0, k0, x0, f) /\ At(0, f1) = Database(t1, k1, x1, f1)
  BY <1>2 DEF At
<1> HIDE DEF t0, k0, x0, t1, k1, x1, f1
<1>4. Database(t0, k0, x0, f) ++ Drop("tenants")
        = Database(t1, k1, x1, f1)
  BY <1>1, DropWorks DEF t1, k1, x1, f1
<1>5. QED
  BY <1>2, <1>3, <1>4 DEF Downgrade01

\* With tenants the foreign key of revision 3 finds no products.
LEMMA Upgrade03Fails ==
  ASSUME NEW f, "tenants" \in f, "products" \notin f
  PROVE  Upgrade03(At(2, f)) = Failed
<1> DEFINE t0 == Tables(2)
           k0 == Keys(2)
           x0 == Extras(2)
           t1 == t0 \cup {"products"}
           k1 == k0 \cup ({"products"} \X {})
           t2 == t1 \cup {"plans"}
           k2 == k1 \cup ({"plans"} \X {"products"})
<1>1. "products" \notin t0 /\ {} \subseteq t0 /\ "plans" \notin t1 /\ {"products"} \subseteq t1
  BY DEF Tables
<1>2. At(2, f) = Database(t0, k0, x0, f)
  BY DEF At
<1> HIDE DEF t0, k0, x0, t1, k1, t2, k2
<1>3. Database(t0, k0, x0, f) ++ Create("products", {}) = Database(t1, k1, x0, f)
  BY <1>1, CreateWorks DEF t1, k1
<1>4. Database(t1, k1, x0, f) ++ Create("plans", {"products"}) = Database(t2, k2, x0, f)
  BY <1>1, CreateWorks DEF t2, k2
<1>5. Database(t2, k2, x0, f) ++ AddKey("tenants", {"products"}) = Failed
  BY AddKeyFails
<1>6. QED
  BY <1>2, <1>3, <1>4, <1>5, FailedStays DEF Upgrade03

\* A transaction that has failed stays so in revision 20260611_04.
LEMMA Upgrade04Fails == Upgrade04(Failed) = Failed
BY FailedStays DEF Upgrade04

\* The parts of a database at a revision.
LEMMA AtFacts ==
  ASSUME NEW n \in 0..Latest, NEW f
  PROVE  /\ At(n, f) # Failed /\ SchemaOf(At(n, f)) = At(n, {})
         /\ At(n, f).tables = Tables(n) /\ At(n, f).keys = Keys(n) /\ At(n, f).filled = f
<1>1. SchemaOf(At(n, f)) = At(n, {})
  BY DEF SchemaOf, At, Database
<1>2. QED
  BY <1>1, DatabaseFields DEF At

\* alembic upgrade from any revision to any later one.
LEMMA UpgradedIs ==
  ASSUME NEW from \in 0..Latest, NEW to \in 0..Latest, from <= to,
         NEW f, f \subseteq Tables(from)
  PROVE  Upgraded(At(from, f), from, to) =
           IF from < 3 /\ 3 <= to /\ "tenants" \in f THEN Failed ELSE At(to, f)
<1>1. CASE from = to
  BY <1>1 DEF Upgraded, Latest
<1>2. CASE from = 0 /\ to > 0
  <2>1. f = {}
    BY <1>2 DEF Tables
  <2>2. QED
    BY <1>2, <2>1, Upgrade01Works, Upgrade02Works, Upgrade03Works, Upgrade04Works DEF Upgraded, Latest
<1>3. from \in {1, 2} => "products" \notin f
  BY DEF Tables
<1>4. CASE from = 1 /\ to > 1
  BY <1>3, <1>4, Upgrade02Works, Upgrade03Works, Upgrade03Fails, Upgrade04Works, Upgrade04Fails
  DEF Upgraded, Latest
<1>5. CASE from = 2 /\ to > 2
  BY <1>3, <1>5, Upgrade03Works, Upgrade03Fails, Upgrade04Works, Upgrade04Fails DEF Upgraded, Latest
<1>6. CASE from = 3 /\ to = 4
  BY <1>6, Upgrade04Works DEF Upgraded, Latest
<1>7. QED
  BY <1>1, <1>2, <1>4, <1>5, <1>6 DEF Latest

\* alembic downgrade from any revision to any earlier one.
LEMMA DowngradedIs ==
  ASSUME NEW from \in 0..Latest, NEW to \in 0..Latest, to <= from,
         NEW f, f \subseteq Tables(from)
  PROVE  Downgraded(At(from, f), from, to) = At(to, f \cap Tables(to))
<1>1. /\ Tables(0) \subseteq Tables(1) /\ Tables(1) \subseteq Tables(2)
      /\ Tables(2) \subseteq Tables(3) /\ Tables(3) = Tables(4)
  BY DEF Tables, ModelTables
<1> DEFINE At3 == At(3, f \cap Tables(3))
           At2 == At(2, f \cap Tables(2))
           At1 == At(1, f \cap Tables(1))
           At0 == At(0, f \cap Tables(0))
<1>2. from = to => f \cap Tables(to) = f
  OBVIOUS
<1>3. from = 4 => Downgrade04(At(4, f)) = At3
  BY Downgrade04Works
<1>4. from >= 3 => Downgrade03(At3) = At2 /\ (from = 3 => At(3, f) = At3)
  <2>1. f \cap Tables(3) \cap Tables(2) = f \cap Tables(2)
    BY <1>1
  <2>2. Downgrade03(At3) = At2
    BY <2>1, Downgrade03Works
  <2>3. from = 3 => f \cap Tables(3) = f
    OBVIOUS
  <2>4. QED
    BY <2>2, <2>3
<1>5. from >= 2 => Downgrade02(At2) = At1 /\ (from = 2 => At(2, f) = At2)
  <2>1. f \cap Tables(2) \cap Tables(1) = f \cap Tables(1)
    BY <1>1
  <2>2. Downgrade02(At2) = At1
    BY <2>1, Downgrade02Works
  <2>3. from = 2 => f \cap Tables(2) = f
    OBVIOUS
  <2>4. QED
    BY <2>2, <2>3
<1>6. from >= 1 => Downgrade01(At1) = At0 /\ (from = 1 => At(1, f) = At1)
  <2>1. f \cap Tables(1) \cap Tables(0) = f \cap Tables(0)
    BY <1>1
  <2>2. Downgrade01(At1) = At0
    BY <2>1, Downgrade01Works
  <2>3. from = 1 => f \cap Tables(1) = f
    OBVIOUS
  <2>4. QED
    BY <2>2, <2>3
<1>7. CASE from = to
  BY <1>2, <1>7 DEF Downgraded, Latest
<1>8. CASE to < from
  <2> HIDE DEF At3, At2, At1, At0
  <2>1. CASE to = 3
    BY <1>3, <1>8, <2>1 DEF Downgraded, Latest, At3
  <2>2. CASE to = 2
    BY <1>3, <1>4, <1>8, <2>2 DEF Downgraded, Latest, At2
  <2>3. CASE to = 1
    BY <1>3, <1>4, <1>5, <1>8, <2>3 DEF Downgraded, Latest, At1
  <2>4. CASE to = 0
    BY <1>3, <1>4, <1>5, <1>6, <1>8, <2>4 DEF Downgraded, Latest, At0
  <2>5. QED
    BY <1>8, <2>1, <2>2, <2>3, <2>4 DEF Latest
<1>9. QED
  BY <1>7, <1>8 DEF Latest

\* The schemas that the upgrades build from nothing.
LEMMA Schemas == \A n \in 0..Latest : Schema[n] = At(n, {})
<1> SUFFICES ASSUME NEW n \in 0..Latest PROVE Schema[n] = At(n, {})
  OBVIOUS
<1>1. Empty = At(0, {})
  BY DEF Empty, At, Tables, Keys, Extras
<1>2. Upgraded(At(0, {}), 0, n) = At(n, {})
  BY UpgradedIs DEF Latest
<1>3. QED
  BY <1>1, <1>2 DEF Schema

-------------------------------------------------------------------------------
(* The order of the steps *)

\* The invariant holds at first, whatever is deployed.
LEMMA DeploymentInit == Init => Consistent
<1> SUFFICES ASSUME Init PROVE Consistent
  OBVIOUS
<1>1. TypeOK
  <2>1. PICK n \in 0..Latest :
          /\ rev = n /\ image = n /\ env = IF n = 0 THEN "absent" ELSE "ready"
          /\ api = IF n = 0 THEN NoApi ELSE Serving(n)
    BY DEF Init
  <2>2. rev \in 0..Latest /\ image \in 0..Latest /\ env \in {"absent", "template", "ready"}
    BY <2>1
  <2>3. api \in [state : {"none", "starting", "healthy"}, release : 0..Latest]
    BY <2>1 DEF NoApi, Serving, Latest
  <2>4. /\ built \in [Publishers -> 0..Latest] /\ applied \in [Publishers -> 0..Latest]
        /\ base \in [Publishers -> 0..Latest]
    BY DEF Init, Latest
  <2>5. /\ tree \in Releases /\ mixed \in BOOLEAN
        /\ step \in [Publishers -> {"idle", "done", "failed"} \cup Busy]
    BY DEF Init
  <2>6. QED
    BY <2>2, <2>3, <2>4, <2>5 DEF TypeOK
<1>2. ApiNeverAhead
  BY DEF Init, ApiNeverAhead, NoApi, Serving, Latest
<1>3. Undisturbed
  BY DEF Init, Undisturbed, Started, Publishing, Busy
<1>4. QED
  BY <1>1, <1>2, <1>3 DEF Consistent

\* Every step keeps the types.
LEMMA DeploymentTypes == TypeOK /\ [Next]_vars => TypeOK'
<1> SUFFICES ASSUME TypeOK, [Next]_vars PROVE TypeOK'
  OBVIOUS
<1> USE DEF TypeOK, Latest, Releases
<1>1. ASSUME NEW p \in Publishers, Begin(p) PROVE TypeOK'
  BY <1>1 DEF Begin, Goto, Busy
<1>2. ASSUME NEW p \in Publishers, Build(p) PROVE TypeOK'
  BY <1>2 DEF Build, Goto, Busy
<1>3. ASSUME NEW p \in Publishers, StartUpgrade(p) PROVE TypeOK'
  BY <1>3 DEF StartUpgrade, Goto, Busy
<1>4. ASSUME NEW p \in Publishers, FinishUpgrade(p) PROVE TypeOK'
  BY <1>4 DEF FinishUpgrade, Goto, Busy
<1>5. ASSUME NEW p \in Publishers, Up(p) PROVE TypeOK'
  BY <1>5 DEF Up, Goto, Busy
<1>6. ASSUME NEW p \in Publishers, Poll(p) PROVE TypeOK'
  BY <1>6 DEF Poll, Goto, Busy
<1>7. ASSUME NEW p \in Publishers, Stopped(p) PROVE TypeOK'
  BY <1>7 DEF Stopped, Goto, Busy
<1>8. CASE InitEnv \/ Configure \/ \E t \in Watched : Write(t)
  BY <1>8 DEF InitEnv, Configure, Write, Quiet
<1>9. ASSUME NEW n \in Releases, Checkout(n) PROVE TypeOK'
  BY <1>9 DEF Checkout, Quiet
<1>10. CASE StopApi
  BY <1>10 DEF StopApi, NoApi, Quiet
<1>11. CASE Boot \/ Restart
  BY <1>11 DEF Boot, Restart, Quiet
<1>12. ASSUME NEW n \in 0..Latest, Downgrade(n) PROVE TypeOK'
  BY <1>12 DEF Downgrade, Quiet
<1>13. CASE UNCHANGED vars
  BY <1>13 DEF vars, pubVars
<1>14. QED
  BY <1>1, <1>2, <1>3, <1>4, <1>5, <1>6, <1>7, <1>8, <1>9, <1>10, <1>11, <1>12, <1>13
  DEF Next

\* Publishes of one release keep what they rely on: whichever of them moves the
\* image, the revision or the API, it moves them to that release.
LEMMA DeploymentStep == Consistent /\ [Next]_vars => ApiNeverAhead' /\ (~mixed' => Undisturbed')
<1> SUFFICES ASSUME Consistent, [Next]_vars, ~mixed'
             PROVE  ApiNeverAhead' /\ Undisturbed'
  BY DEF ApiNeverAhead
<1>1. TypeOK /\ TypeOK'
  BY DeploymentTypes DEF Consistent
<1>2. ~mixed
  <2>1. CASE \E p \in Publishers : Build(p)
    BY <2>1 DEF Build
  <2>2. CASE ~\E p \in Publishers : Build(p)
    BY <2>2 DEF Next, Begin, StartUpgrade, FinishUpgrade, Up, Poll, Stopped, InitEnv, Configure,
       Checkout, StopApi, Boot, Restart, Downgrade, Write, Quiet, vars, pubVars
  <2>3. QED
    BY <2>1, <2>2
<1>3. Undisturbed /\ ApiNeverAhead
  BY <1>2 DEF Consistent
<1> DEFINE Goal == ApiNeverAhead' /\ Undisturbed'
<1> HIDE DEF Goal
<1>4. ASSUME NEW p \in Publishers,
             Begin(p) \/ Build(p) \/ StartUpgrade(p) \/ FinishUpgrade(p) \/ Up(p) \/ Poll(p) \/ Stopped(p)
      PROVE  Goal
  <2>1. \A q \in Publishers : q # p => step'[q] = step[q]
    BY <1>1, <1>4 DEF TypeOK, Goto, Begin, Build, StartUpgrade, FinishUpgrade, Up, Poll, Stopped
  <2>2. \A q \in Publishers : q # p => (q \in Started' <=> q \in Started)
    BY <2>1 DEF Started, Publishing
  <2> USE DEF Goal, ApiNeverAhead, Undisturbed, Started, Publishing, Goto, Busy, TypeOK, Latest, Releases
  <2>3. CASE Begin(p)
    BY <1>1, <1>2, <1>3, <2>1, <2>3 DEF Begin
  <2>4. CASE Build(p)
    <3>1. \A q \in Started : q # p => built[q] = tree /\ built'[q] = tree
      BY <1>1, <1>2, <2>4 DEF Build
    <3>2. image' = tree /\ built'[p] = tree /\ step'[p] = "migrating"
      BY <1>1, <2>4 DEF Build
    <3>3. UNCHANGED <<rev, api, applied, base>>
      BY <2>4 DEF Build
    <3>4. ASSUME NEW q \in Started', q # p
          PROVE  /\ q \in Started /\ step'[q] = step[q]
                 /\ image = tree /\ image' = image /\ built'[q] = built[q]
      <4>1. q \in Started /\ step'[q] = step[q]
        BY <2>1, <2>2, <3>4
      <4>2. image = built[q]
        BY <1>3, <4>1
      <4>3. QED
        BY <3>1, <3>2, <3>4, <4>1, <4>2
    <3>5. ApiNeverAhead'
      BY <1>2, <1>3, <3>3
    <3>6. Undisturbed'
      <4>1. SUFFICES ASSUME NEW q \in Started'
                     PROVE  /\ image' = built'[q]
                            /\ step'[q] = "upgrading" =>
                                 /\ applied'[q] = image' /\ base'[q] <= image'
                                 /\ rev' \in {base'[q], image'}
                            /\ step'[q] \in {"starting", "polling"} => rev' = image'
                            /\ step'[q] = "polling" /\ api'.state # "none" => api'.release = image'
        BY Zenon
      <4>2. CASE q = p
        BY <3>2, <4>2
      <4>3. CASE q # p
        <5>1. q \in Started /\ step'[q] = step[q] /\ image' = image /\ built'[q] = built[q]
          BY <3>4, <4>3
        <5>2. QED
          BY <1>3, <3>3, <5>1
      <4>4. QED
        BY <4>2, <4>3
    <3>7. QED
      BY <3>5, <3>6
  <2>5. CASE StartUpgrade(p)
    BY <1>1, <1>2, <1>3, <2>1, <2>2, <2>5 DEF StartUpgrade
  <2>6. CASE FinishUpgrade(p)
    BY <1>1, <1>2, <1>3, <2>1, <2>2, <2>6 DEF FinishUpgrade
  <2>7. CASE Up(p)
    BY <1>1, <1>2, <1>3, <2>1, <2>2, <2>7 DEF Up
  <2>8. CASE Poll(p)
    BY <1>1, <1>2, <1>3, <2>1, <2>2, <2>8 DEF Poll
  <2>9. CASE Stopped(p)
    BY <1>1, <1>2, <1>3, <2>1, <2>2, <2>9 DEF Stopped
  <2>10. QED
    BY <1>4, <2>3, <2>4, <2>5, <2>6, <2>7, <2>8, <2>9
<1>5. CASE \/ InitEnv \/ Configure \/ (\E n \in Releases : Checkout(n)) \/ (\E t \in Watched : Write(t))
           \/ UNCHANGED vars
  BY <1>3, <1>5 DEF Goal, ApiNeverAhead, Undisturbed, Started, Publishing, InitEnv, Configure,
     Checkout, Write, Quiet, vars, pubVars
<1>6. CASE StopApi \/ Boot \/ Restart
  BY <1>1, <1>2, <1>3, <1>6 DEF Goal, ApiNeverAhead, Undisturbed, Started, Publishing, StopApi,
     NoApi, Boot, Restart, Quiet, TypeOK
<1>7. ASSUME NEW n \in 0..Latest, Downgrade(n) PROVE Goal
  BY <1>1, <1>3, <1>7 DEF Goal, ApiNeverAhead, Undisturbed, Started, Publishing, Downgrade, Quiet
<1>8. QED
  BY <1>4, <1>5, <1>6, <1>7 DEF Next, Goal

\* Every step keeps the invariant, one action after the other.
LEMMA DeploymentStays == Consistent /\ [Next]_vars => Consistent'
BY DeploymentTypes, DeploymentStep DEF Consistent

\* The invariant of publish.sh, for any number of publishes: what a publish has
\* built is what it migrates to and starts, as long as the others build the same.
THEOREM DeploymentConsistent == Spec => []Consistent
<1>1. Consistent /\ [Next]_vars => Consistent'
  BY DeploymentStays
<1>2. QED
  BY DeploymentInit, <1>1, PTL DEF Spec

\* publish.sh applies the migrations before it replaces the API: whatever
\* fails, stops or restarts, no API runs that is ahead of its schema.
THEOREM DeploymentApiNeverAhead == Spec => []ApiNeverAhead
<1>1. Consistent => ApiNeverAhead
  BY DEF Consistent
<1>2. QED
  BY DeploymentConsistent, <1>1, PTL

\* "publicacao concluida" is only said of the release that was built, in
\* service on its own schema.
THEOREM DeploymentPublishedIsBuilt == Spec => PublishedIsBuilt
<1> DEFINE Step == \A p \in Publishers : step[p] # "done" /\ step'[p] = "done" /\ ~mixed =>
                     api' = Serving(built[p]) /\ rev' = built[p]
<1>1. Consistent /\ [Next]_vars => [Step]_vars
  <2> SUFFICES ASSUME Consistent, [Next]_vars,
                      NEW p \in Publishers, step[p] # "done", step'[p] = "done", ~mixed
               PROVE  api' = Serving(built[p]) /\ rev' = built[p]
    OBVIOUS
  <2>1. TypeOK /\ Undisturbed
    BY DEF Consistent
  <2>2. PICK q \in Publishers :
          Begin(q) \/ Build(q) \/ StartUpgrade(q) \/ FinishUpgrade(q) \/ Up(q) \/ Poll(q) \/ Stopped(q)
    BY DEF Next, InitEnv, Configure, Checkout, StopApi, Boot, Restart, Downgrade, Write, Quiet,
       vars, pubVars
  <2>3. Poll(p)
    BY <2>1, <2>2 DEF TypeOK, Goto, Begin, Build, StartUpgrade, FinishUpgrade, Up, Poll, Stopped
  <2>4. api.state = "healthy" /\ p \in Started /\ step[p] = "polling" /\ UNCHANGED <<api, rev>>
    BY <2>3 DEF Poll, Started, Publishing, Busy
  <2>5. api.release = built[p] /\ rev = built[p]
    BY <2>1, <2>4 DEF Undisturbed
  <2>6. api = Serving(built[p])
    BY <2>1, <2>4, <2>5 DEF TypeOK, Serving
  <2>7. QED
    BY <2>4, <2>5, <2>6
<1>2. QED
  BY DeploymentConsistent, <1>1, PTL DEF Spec, PublishedIsBuilt

-------------------------------------------------------------------------------
(* The schema *)

\* The inductive invariant of the schema: the database is that of the recorded
\* revision with some rows, and no upgrade goes backwards.
Migrated ==
  /\ db = At(rev, db.filled) /\ db.filled \subseteq Tables(rev)
  /\ \A p \in Publishers : step[p] = "upgrading" => base[p] <= applied[p]

\* A later revision has the tables of an earlier one.
LEMMA TablesGrow ==
  ASSUME NEW m \in 0..Latest, NEW n \in 0..Latest, m <= n
  PROVE  Tables(m) \subseteq Tables(n)
BY DEF Tables, ModelTables, Latest

\* Every database from which a run starts is that of its revision.
LEMMA MigratedInit == Init => Migrated
<1> SUFFICES ASSUME Init PROVE Migrated
  OBVIOUS
<1>1. PICK n \in 0..Latest : rev = n /\ db = Schema[n]
  BY DEF Init
<1>2. db = At(rev, {})
  BY <1>1, Schemas
<1>3. db.filled = {}
  BY <1>1, <1>2, AtFacts
<1>4. \A p \in Publishers : step[p] # "upgrading"
  BY DEF Init
<1>5. QED
  BY <1>2, <1>3, <1>4 DEF Migrated

\* Every step keeps the invariant: an upgrade is of the revision it has read or
\* changes nothing, and a first row is put in a table there is.
LEMMA MigratedStep == TypeOK /\ Migrated /\ [Next]_vars => Migrated'
<1> SUFFICES ASSUME TypeOK, Migrated, [Next]_vars PROVE Migrated'
  OBVIOUS
<1> DEFINE Fits(d, r) == d = At(r, d.filled) /\ d.filled \subseteq Tables(r)
           Forward == \A p \in Publishers : step[p] = "upgrading" => base[p] <= applied[p]
<1>1. Fits(db, rev) /\ Forward
  BY DEF Migrated
<1>2. ASSUME NEW p \in Publishers, Begin(p) \/ Build(p) \/ Up(p) \/ Poll(p) \/ Stopped(p)
      PROVE  Migrated'
  <2>1. UNCHANGED <<db, rev, applied, base>>
    BY <1>2 DEF Begin, Build, Up, Poll, Stopped
  <2>2. \A q \in Publishers : step'[q] = "upgrading" => step[q] = "upgrading"
    BY <1>2 DEF TypeOK, Goto, Begin, Build, Up, Poll, Stopped
  <2>3. QED
    BY <2>1, <2>2 DEF Migrated
<1>3. ASSUME NEW p \in Publishers, StartUpgrade(p) PROVE Migrated'
  <2>1. UNCHANGED <<db, rev>>
    BY <1>3 DEF StartUpgrade
  <2>2. Forward'
    BY <1>1, <1>3 DEF TypeOK, Goto, StartUpgrade
  <2>3. QED
    BY <2>1, <2>2 DEF Migrated
<1>4. ASSUME NEW p \in Publishers, FinishUpgrade(p) PROVE Migrated'
  <2>1. UNCHANGED <<applied, base>> /\ step[p] = "upgrading"
    BY <1>4 DEF FinishUpgrade
  <2>2. \A q \in Publishers : step'[q] = "upgrading" => step[q] = "upgrading"
    BY <1>4 DEF TypeOK, Goto, FinishUpgrade
  <2>3. Forward'
    BY <1>1, <2>1, <2>2
  <2> DEFINE from == base[p]
             to == applied[p]
             result == Upgraded(db, from, to)
  <2>4. \/ UNCHANGED <<db, rev>>
        \/ rev = from /\ result # Failed /\ db' = result /\ rev' = to
    BY <1>4 DEF FinishUpgrade
  <2>5. from \in 0..Latest /\ to \in 0..Latest /\ from <= to
    BY <1>1, <2>1 DEF TypeOK
  <2>6. CASE UNCHANGED <<db, rev>>
    BY <1>1, <2>3, <2>6 DEF Migrated
  <2>7. CASE rev = from /\ result # Failed /\ db' = result /\ rev' = to
    <3>1. result = At(to, db.filled)
      BY <1>1, <2>5, <2>7, UpgradedIs
    <3>2. db'.filled = db.filled
      BY <2>5, <2>7, <3>1, AtFacts
    <3>3. db.filled \subseteq Tables(to)
      BY <1>1, <2>5, <2>7, TablesGrow
    <3>4. QED
      BY <2>3, <2>7, <3>1, <3>2, <3>3 DEF Migrated
  <2>8. QED
    BY <2>4, <2>6, <2>7
<1>5. CASE \/ InitEnv \/ Configure \/ (\E n \in Releases : Checkout(n))
           \/ StopApi \/ Boot \/ Restart \/ UNCHANGED vars
  BY <1>5 DEF Migrated, InitEnv, Configure, Checkout, StopApi, Boot, Restart, Quiet, vars, pubVars
<1>6. ASSUME NEW n \in 0..Latest, Downgrade(n) PROVE Migrated'
  <2>1. db' = Downgraded(db, rev, n) /\ rev' = n /\ n <= rev /\ UNCHANGED <<step, applied, base>>
    BY <1>6 DEF Downgrade, Quiet, TypeOK, Latest
  <2>2. db' = At(n, db.filled \cap Tables(n))
    BY <1>1, <2>1, DowngradedIs DEF TypeOK
  <2>3. db'.filled = db.filled \cap Tables(n)
    BY <2>2, AtFacts
  <2>4. QED
    BY <1>1, <2>1, <2>2, <2>3 DEF Migrated
<1>7. ASSUME NEW t \in Watched, Write(t) PROVE Migrated'
  <2>1. /\ t \in db.tables /\ db' = [db EXCEPT !.filled = @ \cup {t}]
        /\ UNCHANGED <<rev, step, applied, base>>
    BY <1>7 DEF Write, Quiet
  <2> DEFINE g == db.filled \cup {t}
  <2>2. [At(rev, db.filled) EXCEPT !.filled = g] = At(rev, g)
    BY DEF At, Database
  <2>3. db' = At(rev, g)
    BY <1>1, <2>1, <2>2
  <2>4. rev \in 0..Latest
    BY DEF TypeOK
  <2>5. db'.filled = g
    BY <2>3, <2>4, AtFacts
  <2>6. t \in Tables(rev)
    BY <1>1, <2>1, <2>4, AtFacts
  <2>7. QED
    BY <1>1, <2>1, <2>3, <2>5, <2>6 DEF Migrated
<1>8. QED
  BY <1>2, <1>3, <1>4, <1>5, <1>6, <1>7 DEF Next

\* The invariant holds throughout.
LEMMA AlwaysMigrated == Spec => [](Consistent /\ Migrated)
<1>1. Init => Consistent /\ Migrated
  BY DeploymentInit, MigratedInit
<1>2. Consistent /\ Migrated /\ [Next]_vars => (Consistent /\ Migrated)'
  BY DeploymentStays, MigratedStep DEF Consistent
<1>3. QED
  BY <1>1, <1>2, PTL DEF Spec

\* The transaction of alembic: whatever fails, races or is rolled back, for any
\* number of publishes and any rows, the schema is that of alembic_version, and
\* at the last revision it is the one that app/models declares.
THEOREM DeploymentSchemaOfRevision == Spec => []SchemaOfRevision
<1>1. Consistent /\ Migrated => SchemaOfRevision
  <2> SUFFICES ASSUME Consistent, Migrated PROVE SchemaOfRevision
    OBVIOUS
  <2>1. rev \in 0..Latest /\ db = At(rev, db.filled) /\ db.filled \subseteq Tables(rev)
    BY DEF Consistent, TypeOK, Migrated
  <2>2. db.tables = Tables(rev) /\ db.keys = Keys(rev) /\ SchemaOf(db) = At(rev, {})
    BY <2>1, AtFacts
  <2>3. SchemaOf(db) = Schema[rev]
    BY <2>1, <2>2, Schemas
  <2>4. rev = Latest => db.tables = ModelTables /\ db.keys = ModelKeys
    BY <2>2 DEF Tables, Keys, Latest
  <2>5. QED
    BY <2>1, <2>2, <2>3, <2>4 DEF SchemaOfRevision
<1>2. QED
  BY AlwaysMigrated, <1>1, PTL

\* Every downgrade undoes its upgrade from any data; and the only upgrade that
\* can be refused is that of revision 3, exactly when there are tenants.
THEOREM DeploymentRevisionsReachable == Spec => []RevisionsReachable
<1>1. Consistent /\ Migrated => RevisionsReachable
  <2> SUFFICES ASSUME Consistent, Migrated PROVE RevisionsReachable
    OBVIOUS
  <2>1. rev \in 0..Latest /\ db = At(rev, db.filled) /\ db.filled \subseteq Tables(rev)
    BY DEF Consistent, TypeOK, Migrated
  <2>2. ASSUME NEW n \in 0..rev
        PROVE  Downgraded(db, rev, n) # Failed /\ SchemaOf(Downgraded(db, rev, n)) = Schema[n]
    <3>1. n \in 0..Latest /\ n <= rev
      BY <2>1 DEF Latest
    <3>2. Downgraded(db, rev, n) = At(n, db.filled \cap Tables(n))
      BY <2>1, <3>1, DowngradedIs
    <3>3. QED
      BY <3>1, <3>2, AtFacts, Schemas
  <2>3. ASSUME NEW n \in rev..Latest
        PROVE  Upgraded(db, rev, n) = Failed <=> rev < 3 /\ 3 <= n /\ "tenants" \in db.filled
    <3>1. n \in 0..Latest /\ rev <= n
      BY <2>1 DEF Latest
    <3>2. Upgraded(db, rev, n) = IF rev < 3 /\ 3 <= n /\ "tenants" \in db.filled THEN Failed
                                 ELSE At(n, db.filled)
      BY <2>1, <3>1, UpgradedIs
    <3>3. At(n, db.filled) # Failed
      BY <3>1, AtFacts
    <3>4. QED
      BY <3>2, <3>3
  <2>4. QED
    BY <2>2, <2>3 DEF RevisionsReachable
<1>2. QED
  BY AlwaysMigrated, <1>1, PTL

\* The API that runs finds the tables that its release uses.
THEOREM DeploymentApiFindsTables == Spec => []ApiFindsTables
<1>1. Consistent /\ Migrated => ApiFindsTables
  <2> SUFFICES ASSUME Consistent, Migrated, ~mixed, api.state # "none"
               PROVE  Schema[api.release].tables \subseteq db.tables
    BY DEF ApiFindsTables
  <2>1. rev \in 0..Latest /\ db = At(rev, db.filled) /\ api.release \in 0..Latest
    BY DEF Consistent, TypeOK, Migrated
  <2>2. api.release <= rev
    BY DEF Consistent, ApiNeverAhead
  <2>3. Schema[api.release].tables = Tables(api.release) /\ db.tables = Tables(rev)
    BY <2>1, Schemas, AtFacts
  <2>4. QED
    BY <2>1, <2>2, <2>3, TablesGrow
<1>2. QED
  BY AlwaysMigrated, <1>1, PTL
===============================================================================
