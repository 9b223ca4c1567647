----------------------------- MODULE Migrations -----------------------------
(***************************************************************************)
(* The revisions of the database (migrations/versions) as data definition  *)
(* statements, and what PostgreSQL says to each.  A schema is its tables,  *)
(* its foreign keys and what else a statement puts on a table; columns,    *)
(* indexes and types that only one CREATE TABLE mentions belong to the     *)
(* table.  The one fact kept about the data is which tables have rows.     *)
(***************************************************************************)
EXTENDS Naturals, Sequences

Create(t, us)   == [do |-> "create", table |-> t, args |-> us]
Drop(t)         == [do |-> "drop", table |-> t, args |-> {}]
AddKey(t, us)   == [do |-> "addkey", table |-> t, args |-> us]
DropKey(t, us)  == [do |-> "dropkey", table |-> t, args |-> us]
Put(t, xs)      == [do |-> "put", table |-> t, args |-> xs]
Remove(t, xs)   == [do |-> "remove", table |-> t, args |-> xs]

---------------------------------------------------------------------------
(* What a statement needs and does: a database is a schema and the tables  *)
(* with rows                                                               *)

Database(tables, keys, extras, filled) ==
  [tables |-> tables, keys |-> keys, extras |-> extras, filled |-> filled]

Empty == Database({}, {}, {}, {})

Possible(op, db) ==
  CASE op.do = "create"  -> op.table \notin db.tables /\ op.args \subseteq db.tables
    [] op.do = "drop"    -> /\ op.table \in db.tables
                            /\ \A k \in db.keys : k[2] = op.table => k[1] = op.table
    \* The rows there are refer to rows there are.
    [] op.do = "addkey"  -> /\ {op.table} \cup op.args \subseteq db.tables
                            /\ op.table \in db.filled => op.args \subseteq db.filled
    [] op.do = "dropkey" -> {op.table} \X op.args \subseteq db.keys
    [] op.do = "put"     -> /\ op.table \in db.tables
                            /\ ({op.table} \X op.args) \cap db.extras = {}
    [] op.do = "remove"  -> {op.table} \X op.args \subseteq db.extras

Result(op, db) ==
  LET t == op.table
      pairs == {t} \X op.args
  IN CASE op.do = "create"  -> Database(db.tables \cup {t}, db.keys \cup pairs, db.extras, db.filled)
       [] op.do = "drop"    -> Database(db.tables \ {t}, {k \in db.keys : k[1] # t},
                                        {x \in db.extras : x[1] # t}, db.filled \ {t})
       [] op.do = "addkey"  -> Database(db.tables, db.keys \cup pairs, db.extras, db.filled)
       [] op.do = "dropkey" -> Database(db.tables, db.keys \ pairs, db.extras, db.filled)
       [] op.do = "put"     -> Database(db.tables, db.keys, db.extras \cup pairs, db.filled)
       [] op.do = "remove"  -> Database(db.tables, db.keys, db.extras \ pairs, db.filled)

Failed == << >>  \* not a database

\* A statement in a transaction: the first that is refused ends it.
Execute(db, op) == IF db # Failed /\ Possible(op, db) THEN Result(op, db) ELSE Failed

db ++ op == Execute(db, op)

---------------------------------------------------------------------------
(* The revisions 20260611_01 to 20260611_04 *)

Latest == 4

Upgrade01(db) == db ++ Create("tenants", {})

Upgrade02(db) == db ++ Create("users", {}) ++ Create("refresh_tokens", {"users"})

Upgrade03(db) ==
  db ++ Create("products", {}) ++ Create("plans", {"products"})
     ++ AddKey("tenants", {"products"})
     ++ Create("subscriptions", {"plans", "tenants"}) ++ Create("invoices", {"subscriptions"})
     ++ Create("subscription_events", {"subscriptions"})
     ++ Put("subscription_events", {"append_only"})

Upgrade04(db) == db ++ Put("products", {"service_token"})

Downgrade01(db) == db ++ Drop("tenants")

Downgrade02(db) == db ++ Drop("refresh_tokens") ++ Drop("users")

\* A slip in Downgrade03: the foreign key of the tenants is forgotten.
Downgrade03KeepingKey(db) ==
  db ++ Remove("subscription_events", {"append_only"}) ++ Drop("subscription_events")
     ++ Drop("invoices") ++ Drop("subscriptions") ++ Drop("plans") ++ Drop("products")

Downgrade03(db) ==
  db ++ Remove("subscription_events", {"append_only"}) ++ Drop("subscription_events")
     ++ Drop("invoices") ++ Drop("subscriptions") ++ DropKey("tenants", {"products"})
     ++ Drop("plans") ++ Drop("products")

Downgrade04(db) == db ++ Remove("products", {"service_token"})

\* alembic upgrade: the revisions after from, up to to, in one transaction.
Upgraded(db, from, to) ==
  LET Due(n) == from < n /\ n <= to
      d1 == IF Due(1) THEN Upgrade01(db) ELSE db
      d2 == IF Due(2) THEN Upgrade02(d1) ELSE d1
      d3 == IF Due(3) THEN Upgrade03(d2) ELSE d2
  IN IF Due(4) THEN Upgrade04(d3) ELSE d3

\* alembic downgrade: the revisions from from down to the one after to.
Downgraded(db, from, to) ==
  LET Due(n) == to < n /\ n <= from
      d4 == IF Due(4) THEN Downgrade04(db) ELSE db
      d3 == IF Due(3) THEN Downgrade03(d4) ELSE d4
      d2 == IF Due(2) THEN Downgrade02(d3) ELSE d3
  IN IF Due(1) THEN Downgrade01(d2) ELSE d2

---------------------------------------------------------------------------
(* The tables that the models of app/models declare *)

ModelTables == {"users", "refresh_tokens", "tenants", "products", "plans", "subscriptions",
                "invoices", "subscription_events"}
ModelKeys == {<<"refresh_tokens", "users">>, <<"tenants", "products">>, <<"plans", "products">>,
              <<"subscriptions", "tenants">>, <<"subscriptions", "plans">>,
              <<"invoices", "subscriptions">>, <<"subscription_events", "subscriptions">>}
===========================================================================
