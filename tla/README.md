# Tupa: formal models

Tupa is a FastAPI service that sells subscriptions for several products: it
keeps tenants and their plan, users and their refresh tokens, an admin console
for products and plans, and a PostgreSQL database that all of them share. This
directory holds TLA+ models of it, the TLC configurations that check them on
small instances, and theorems that TLAPS proves for every value of the
constants. Paths below are relative to the repository.

## 1. The system

| part | state | operations |
|---|---|---|
| subscriptions (`app/services/subscription_service.py`, `tenant_service.py`, routers `tenants`, `subscriptions`) | tables `tenants`, `subscriptions` | `POST /tenants`, `GET /tenants/{id}/plan` (which applies a due downgrade), `POST .../upgrade`, `POST .../downgrade` |
| audit log (`add_event`, `list_events`) | table `subscription_events`, append-only | one event in the transaction of each change |
| plan catalogue (`plan_service.py`, `product_service.py`, router `admin`) | tables `products`, `plans` | save a plan, create a product with its free plan |
| refresh tokens (`auth_service.py`, `security.py`) | table `refresh_tokens` | login, refresh, logout |
| accounts (`auth_service.py`) | table `users`, unique on product and email | create, migrate, verify and rehash at login |
| login rate limiter (`security.py`) | a dictionary in the memory of the process, under a lock | `allow` |
| service tokens (`service_token_service.py`, `dependencies.py`, `scripts/issue_product_tokens.py`) | a hash in each `products` row | rotate, check, issue the missing ones in batch |
| sessions (`database.py`) | a connection pool; one transaction per request | open, commit, close without a commit |
| migrations (`migrations/versions`, `env.py`) | the schema, `alembic_version`, the rows it meets | four revisions, up and down |
| deployment (`publish.sh`, `compose.production.yml`) | the checkout, the tagged image, the API's container, `.env.production` | `init`, `publish`, `stop`, `tokens`, restarts |

How they interact: every request opens one session; a `SELECT` starts its
transaction, which runs under READ COMMITTED; the handler commits at most once;
whatever else happens (an error answer, an exception, a lost connection, a
crash) the session is closed and the transaction rolled back. Requests run
concurrently, between any two `await`s, in one or several processes. They meet
in the database only: in rows they lock (`subscriptions` in
`_get_subscription`, `refresh_tokens` in `refresh`, and the rows an `UPDATE`
touches), in the unique keys their inserts wait for, in rows they read without
a lock (`plans`, `products`, `users`), and in the pool of connections they queue
for. The rate limiter alone is shared memory. Under all of them lies the schema,
which `publish.sh` moves while the API of the release before still serves.

What is hard here is listed, line by line, under `hazards` in `PROJECT.json`:
lost updates, stale plan rows, the order and exactness of the audit log, the
end of the period, refreshes that race each other and logouts, waits in a
circle, the second connection a provisioning request needs, migrations that
meet rows, publishes that fail half-way, and what an abort at each point leaves
behind.

## 2. The modules

| module | what it is |
|---|---|
| `SubscriptionData` | the rows, what changes do to them, what the audit log says of a row |
| `SubscriptionLedger` | abstract specification: atomic changes of a subscription, each with its event |
| `Subscriptions` | the service: requests as transactions of several statements |
| `SubscriptionsProofs`, `SubscriptionsRefinement` | its inductive invariant and theorems; it implements the ledger |
| `MCSubscriptions` | instances for TLC: a product with plans below, at and above the free one, and a second product |
| `Sessions` | abstract specification: a token is opened, exchanged or ended, each at once |
| `AuthTokens` | login, refresh and logout as transactions over `refresh_tokens` |
| `AuthTokensProofs` | its inductive invariant and theorems; it implements `Sessions` |
| `MCAuthTokens` | instances for TLC |
| `Catalogue` | saves of plans and creations of products as transactions over `plans` and `products` |
| `CatalogueProofs` | its inductive invariant and theorems; it implements `PlanTable` |
| `PlanTable` | abstract specification: what requests of tenants may rely on about plans |
| `MCCatalogue` | instances for TLC: a product with its free plan and another one |
| `ServiceTokens` | rotation, batch issue and check of the service tokens |
| `ServiceTokensProofs` | its inductive invariant and theorems |
| `MCServiceTokens` | instances for TLC: two products without a token and one with |
| `SlidingWindow` | abstract specification: so many admissions in any window, decided on the whole history |
| `RateLimiter`, `RateLimiterProofs` | `FixedWindowRateLimiter`, and that it implements `SlidingWindow` |
| `Accounts` | provisioning and login as transactions over `users`, on top of `RateLimiter` and over the pool |
| `AccountsProofs` | its inductive invariant and theorems |
| `MCAccounts` | an instance for TLC: one mailbox, one address, two passwords |
| `Migrations` | the four revisions as statements, and what PostgreSQL makes of each |
| `Deployment` | `publish.sh`, the image, the API's container and the database it migrates |
| `DeploymentProofs` | lemmas on statements and revisions, the inductive invariants and theorems |
| `MCDeployment` | an instance for TLC: two publishes, rows in three tables |

What composes what: `Accounts` extends `RateLimiter` (a login asks it first),
`Deployment` extends `Migrations`; `Subscriptions`, `AuthTokens` and
`RateLimiter` instantiate their abstract specifications. `Subscriptions` and
`Catalogue` meet in `PlanTable`: `Catalogue` implements it with all the steps of
its forms, and what `SavePlan` and `EndRename` of `Subscriptions` store is a save
that it allows.
`AuthTokens` begins where the login of `Accounts` ends, and `ServiceTokens`
models `publish.sh tokens`.

### Subscriptions

A member of `Requests` is one HTTP request and one transaction. `pc[r]` says
which statement it has reached, `tx[r]` the rows its session has loaded,
`out[r]` what it is about to write, `lock[t]` who holds the row of tenant `t`.

| action | code |
|---|---|
| `BeginCreate`, `Insert` | `get_free_plan`; the inserts of the tenant, the subscription and the event |
| `BeginGet`, `BeginChange` | the routers, up to the call of the service |
| `Lock`, `NoSubscription` | `_get_subscription(for_update=True)` |
| `LoadPlan`, `LoadPending` | `selectinload`: one `SELECT` each, no lock |
| `LoadTarget` | `session.get(Plan, ...)`, from the identity map when the session has it |
| `ApplyDue`, `ReadOnly` | `get_tenant_plan` |
| `Upgrade`, `ScheduleDowngrade`, `Refuse` | `change_plan` |
| `Flush`, `Commit` | `session.commit()`: the event is stamped, then all rows appear |
| `Abort` | any failure before the commit, at any point |
| `SavePlan` | an administrator adds a plan, or saves one and keeps its slug |
| `Rename`, `EndRename` | the `UPDATE` of a save that rewrites the slug; its commit or rollback |
| `Tick` | time |

Abstracted: a slug is only "free or not"; names, prices, features, status and
`current_period_start` decide nothing; the 30 days are `Period` ticks; a tenant
id is a fresh UUID; access checks that end a request before it reads a
subscription leave no trace and are not steps. `current_period_end` is never
NULL (`TypeCorrect` proves it), so the default that `change_plan` has for NULL
is left out. When the tenant has been committed, `create_tenant` reads it again
for the answer; if that fails the client is told nothing and the tenant stays,
which `done` does not tell apart.

`SavePlan` is a whole save in one step: what a request may meet between two
reads. A save that rewrites a slug takes two, because requests wait for it: the
slug is part of a unique key, and the check of `plan_id` and `pending_plan_id`
asks for that key. `saving` is the set of plans with such a save under way;
`Insert` and `Flush` wait while a plan they begin to refer to (`Referred`) is in
it, and `Rename` waits for the requests that have passed that check. What two
saves do to each other is in `Catalogue`, and whatever they do amounts to saves that `PlanTable` allows: a plan stays, stays
with its product, and no product gets a second free plan. The free plan may be
withdrawn by a save here, since renames can bring that about (`cat_free`).

What is checked: `NoLostUpdate` (the row a request decides on is the committed
one), `AuditExplainsRow`, `AuditReplayable` and `AuditInOrder` (the log ends in
the row, is a history, and is listed in the order of the commits),
`PendingIsBelow`, `NeverEarly`, `OwnProduct`, `ImplementsLedger`, and for
progress `RequestsEnd` and `DueIsSettled`. Proved besides: `HolderIsAtWork`
(whoever holds a row lock is at work on that row; all it may still wait for, at
its flush, is a save that renames a plan, which waits for no request that waits,
so the waits for rows form no circle).

### AuthTokens

A member of `Requests` is one request, and the name of the token it issues.
`/auth/refresh` takes the lock of the token's row, compares it with a clock
read after the wait, and commits the revocation and the next token together.
`/auth/logout` is one `UPDATE`: `Snapshot` (the rows it finds live when it
starts), `Reach` (the next row, in no chosen order), `Take` (wait for the row,
evaluate the condition again, lock it), `CommitLogout`. `Victim` is
PostgreSQL's deadlock detection. Users are not deleted by any code, and a token
carries the signed user and product, so those comparisons of `refresh` always
succeed and are left out; the expiry of access tokens is left out too.

What is checked: `Rotation` (the tokens of a login are a chain whose only live
token is the last), `LogoutReaches` (a logout that answers has revoked all it
found), `RevokedOnce` (no token is revived or stamped twice), `SomeoneGoesOn` (if
any request runs, one of them waits for nobody or stands in a circle that is
made of logouts, so no refresh is ever the victim of a deadlock), `RequestsEnd`, and
`ImplementsSessions`: seen from outside, each request is one atomic step of
`Sessions` or none. There a token is new, live or dead; `Open` is the commit of
a login, `Exchange` that of a refresh, which ends a token that is live in this
very step, and `End` that of a logout, which ends tokens of one user. The
mapping reads the state of a token off its row and its origin off the request
that issued it. Proved besides: `SessionsDoNotMultiply` (a user has no more live
tokens than logins, however many refreshes present one token at once or fail
half way).

### Catalogue

A member of `Requests` is one form of the console. `req[r]` is what it asks,
`seen[r]` the plan row its session has read, `draft[r]` the row as it has
written it and not committed.

| action | code |
|---|---|
| `BeginEdit`, `BeginAdd` | `admin.save_plan`, `plan_service.save_plan` up to its first statement |
| `ReadPlan`, `RefusePlan` | `session.get` and the checks on what it returns |
| `SaveUnchanged` | `_apply` and `commit()` when no column has changed |
| `Update`, `Insert` | the flush: the `UPDATE` waits for the row and sets the columns that differ from `seen` (`Merged`) |
| `EnterKey`, `RefuseDuplicate` | the unique index on product and slug, and `PlanAlreadyExists` |
| `CommitSave` | the commit |
| `BeginCreate`, `EnterProduct`, `RefuseProduct` | `create_product` up to the flush of the product, and `ProductAlreadyExists` |
| `Fill`, `CommitCreate` | the token and the free plan, flushed and committed |
| `Victim`, `Abort` | PostgreSQL's deadlock detection; any failure before the commit |

A row that is inserted or rewritten makes other transactions wait: for the row
itself (`Holds`) and for its key (`WaitsForKey`, `WaitsForSlug`), because
whether a key is taken depends on how the other one ends. Abstracted: name,
position, price, currency and features are one column, `terms`, so two saves
that change two of them are a conflict in the model and merged in the code;
`_validate` and forms that name no row there is leave no trace and are no
steps; ids are fresh UUIDs. `renamed` is a history variable: it says whether
the slug of any plan has ever been changed.

What is checked: `UniqueSlugs` (within `IInv`), `ProductsComplete` (a product
has its token and a plan from the moment it can be seen), `FreePlanAvailable`
(without renames no mix of saves deactivates or loses a free plan), `SavesMerge`
(a save that waited changes what its administrator changed, in the row as the
other save left it), `ImplementsPlanTable`, `SavesEnd`. `PlanTable` sees of a
plan its product and whether its slug is "free".

### ServiceTokens

Three kinds of actors: rotations (`Admins`), runs of `publish.sh tokens`
(`Batches`) and requests with `X-Service-Token` (`Callers`). `UpdateRow` and
`CommitToken` are `rotate_token`, which the first two share. A batch reads the
list of products once (`BeginBatch`), takes the next product that had no token
then (`NextProduct`), issues its token and prints it (`PrintToken`; the image
sets `PYTHONUNBUFFERED`, so a line printed is in the file). `shown` is the set
of tokens anybody has seen: the database has hashes only. `file` is
`.product-service-tokens`: `BeginBatch` refuses to start when it is there,
`EndBatch` removes it when it is empty, and `MoveFile` is the operator who puts
it away between two runs, so batches do not overlap. The order of the list is
left open. `token` and `late` belong to the callers: what one presents, and
whether that token was out of force when it arrived.

What is checked: `OldTokensRefused`, `NoTokenLost` (the only way to have a
token in force that nobody has seen is a failure between commit and answer),
`IssuesEnd`.

### RateLimiter and Accounts

`Allow` is `FixedWindowRateLimiter.allow`: drop the old times at the left of the
key's queue, refuse if `Limit` are left, append the time otherwise. The route is
a coroutine and `allow` has no `await`, so a call is one step. `attempts` is the
dictionary, `admitted` every admission since the process started, kept for the
properties. `Restart` empties both.

A member of `Accounts!Requests` is one request; a mailbox is a product and a
normalized e-mail, and the limiter's key adds the client's address.

| action | code |
|---|---|
| `BeginProvision` | `POST /auth/users`, `POST /auth/migrate` up to the first statement |
| `BeginLogin` | `POST /auth/token`: the limiter, and 429 |
| `Connect` | the session's first statement takes a connection of the pool |
| `Refuse` | 401, 403, 422 of what the database is asked for: no trace, as an abort |
| `Insert`, `Conflict`, `CommitUser` | `_persist_user`: the `INSERT` waits for a writer of the same key; 409; the commit |
| `Reconnect`, `Answer` | `session.refresh(user)` after the commit, with a connection taken anew; 201 |
| `Deny`, `Verify` | `authenticate`: the row is read and the password verified; 401 |
| `Rehash`, `CommitLogin` | a weak hash is replaced, under the row's lock, in the commit that stores the session |
| `Abort`, `Crash`, `Tick` | a failure of one request; of the process, with its limiter; time |

`writer[m]` is the request whose uncommitted `INSERT` or `UPDATE` others wait
for. A hash is its password and its cost. `pool_size` and `max_overflow` are
SQLAlchemy's defaults (5 and 10); they are one number here, `PoolSize`. A request
refused for a missing header or a malformed body asks for no connection and is
no step. An answer and the closing of its session are one step; in the code the
connection goes back just after, which only delays those who queue.

What is checked: `AnswersHold` (a 201, 409, 200 or 401 once given stays true),
`PasswordKept`, `SomeoneGoesOn` (requests that queue for a connection and
requests that hold one and wait for a lock are never all there is),
`WindowHolds`, `ImplementsWindow`, `Consistent` (the inductive invariant) and
`RequestsEnd`. Proved besides: `QueueBounded` (the queue of a key holds no more
times than the limit, however often a client tries).

### Migrations and Deployment

A database in `Migrations` is its tables, foreign keys and what else a revision
puts on a table (`extras`: the append-only trigger, the token columns), and
which tables have rows (`Database`). `db ++ op` executes one statement, and a
revision is a row of statements; once one is refused the rest changes nothing
(`Failed`). `Possible` says which statements PostgreSQL accepts: a
table is not dropped while another one refers to it, and a foreign key is not
added to rows that refer to nothing. `Upgrade01` to `Upgrade04` and
`Downgrade01` to `Downgrade04` are the revisions; `Upgraded` runs several in one
transaction, as `env.py` does, so the first refusal undoes them all.

`Deployment` runs `publish.sh publish`, possibly twice at once, since the script
has no lock:

| action | code |
|---|---|
| `Begin` | `validate_env` |
| `Build` | `docker compose build api`: the image under the one tag is now that of the checkout |
| `StartUpgrade`, `FinishUpgrade` | `docker compose run api alembic upgrade head` with whatever image has the tag; it fails if the release does not know the revision, a statement is refused, or another run has moved the database |
| `Up`, `Poll` | `docker compose up -d api`; the wait for "healthy" |
| `Stopped` | `set -e` at any command, an interrupt, or the thirtieth poll |
| `InitEnv`, `Configure`, `StopApi` | `publish.sh init`; the operator's edit; `publish.sh stop` |
| `Checkout`, `Downgrade` | the operator: another release in the checkout; `alembic downgrade` with the API stopped |
| `Boot`, `Restart` | the container comes up (`/health` asks no database); `restart: unless-stopped` |
| `Write` | the API stores a first row of a table |

A release is named by its last revision. Only the last one is in the
repository; of the others it is assumed that they use the tables of their own
revision. What is checked: `SchemaOfRevision` (the schema is always that of
`alembic_version`, and at the last revision it has the tables and foreign keys
of `app/models`), `RevisionsReachable` (any revision can be left backwards, and
forwards except across the foreign key of revision 3 with tenants there),
`ApiNeverAhead` (no API runs ahead of its schema) and `PublishedIsBuilt`. Proved
besides: `ApiFindsTables` (the API finds each table its release uses), which
follows from the first and the third. The last three are claimed as long as `mixed` is false, that is, until a publish builds another release
than one that is under way has built: then one of them may start the image of
the other, on a schema it does not know. Publishes of one release may overlap
as they like; the one that finds the database moved under it fails.

## 3. The runs

| run | instance | shows |
|---|---|---|
| `sub_safety` | 1 tenant, 3 requests, 4 plans, one save of any plan (a rename of "free" or "pro"), `Period` 1, `MaxTime` 2, fair | the safety properties, `IInv`, the refinement, and that requests and due downgrades come to their end; 203,554 states |
| `sub_ahead` | 1 tenant, 3 requests | violation: a downgrade scheduled for a moment in the past |
| `auth_safety` | 1 user, 4 requests, `Lifetime` 1, `MaxTime` 2, fair | the safety properties, `IInv`, the refinement, who waits for whom, and that every request ends, waits in a circle included; 196,501 states |
| `auth_logout` | 1 user, 3 requests | violation: a token survives the logout |
| `cat_safety` | 3 forms, 2 products, 4 plan ids, 3 slugs, 2 values of `terms` | slugs, products, the free plan, merged saves and the refinement of `PlanTable`; 356,577 states up to symmetry |
| `cat_live` | 3 forms, 2 products, 3 plan ids, 2 slugs, fair | every form is answered, waits in a circle included |
| `cat_free` | 3 forms, 1 product, 2 plans | violation: a free plan is deactivated |
| `tok_issue` | 3 products, 1 rotation, 2 batches, 1 caller, fair | old tokens stay out, tokens in force are known, every rotation and batch ends; 115,234 states |
| `tok_batch` | 3 products, 1 rotation, 1 batch | violation: a batch replaces a token that is in force |
| `login` | 3 requests for 1 mailbox, 2 passwords, pool of 2, `Limit` 2, `Window` 2, `MaxTime` 2, fair | the answers, the passwords, the pool, the limiter and its refinement, and that every request ends; 445,465 states |
| `deploy` | 2 publishes, all releases, rows in `tenants`, `products`, `plans` | schema and revision, what a publish promises, alone or with another of its release; 361,476 states up to symmetry |
| `deploy_seed` | the same, with nothing deployed at the start | violation: a first publish starts the API with no plan in the database |

Why the bounds are enough. A subscription's history that matters is: created,
scheduled, then applied or overtaken; three requests make it, two of them
overlapping on the tenant. Tenants share no row, and the proofs are for any
number of them. `Period` 1 and `MaxTime` 2 give every order of scheduling, end
of period and reading, and one period that has passed unnoticed. The catalogue
has a plan below the free one, which no product of the service has: it lets a
tenant go down from where it starts and saves two requests; positions are only
compared. One save suffices to come between two reads of one request. It may be
any save, but of the plans only the one that new tenants get and the one they go
up to are renamed (`RenamedFew`): a request waits for the plan it goes down to in
the same way, and no request ever refers to the other product's. In
`AuthTokens` a circle of waits needs two tokens and two logouts, and a double
exchange a login and two refreshes: four requests. A second user would only add
rows that no `UPDATE` of the first reaches. In `Accounts` three requests are the
creator of an account, its rival for the mailbox, and a login, or two logins
that rehash and a third that reads; two connections can be held by the one that
has a lock and the one that waits for it while the third queues; two admissions
fill a window that a third attempt, at the same or a later time, finds full or
not. In `Deployment` two publishes are enough to overlap and, one after the
other, to repeat a failed one; the three watched tables are `tenants`, which
the foreign key of revision 3 meets, `products`, to which it points, and `plans`.

In `Catalogue` two saves that swap slugs make a circle and a third can come
between their steps; three slugs leave one to give way to, and the new ids are
enough for three forms that all create something except three new products,
whose two slugs in play are already contended by two. In `ServiceTokens` a row
is contended by a rotation and a batch, which issue a token in the same way, so
the pair stands for two rotations as well; the second batch is the run after a
crash; of the three products two need a token, so a batch can fail between
them. The proofs do not depend on any of these bounds.

Symmetry is over requests, publishes, and ids with no row at the start: they
are interchangeable model values, and no run with symmetry checks liveness. In
the runs that check liveness the same reduction is made by naming: requests are
1 to n and `NamedInOrder`, an action constraint, lets a request arrive only when
those with smaller names have. A behaviour it excludes differs from one that it
allows in the names only. No fairness condition is about arrivals, so none can
be met or missed by the constraint, and every state still has its other steps.
(TLC warns of constraints together with liveness, in general with reason.)

`MaxTime`, `MaxEdits` and `MaxPosition` are bounds of the models, not of the code.
Deadlock is checked in every run; a run ends only when all its requests have
(`Finished`), and a deployment never does.

Fairness is weak, one condition per request over the steps that the server and
the database take by themselves (`Serve`): the event loop resumes a coroutine
whose statement has returned, and a row lock that is free is granted. Clients,
administrators, failures and the clock owe nothing. In `Subscriptions` a save
that has rewritten a slug ends (`EndRename`): its form has nothing to do but
commit or fail, and if it waits for another form, `SavesEnd` of `Catalogue` is
what ends that. In `Accounts` a refusal is no fair step, so `RequestsEnd` is not
met by refusing. Lock queues need no
strong fairness because a request is one transaction and a run has finitely
many. The queue of the pool needs none either: SQLAlchemy serves it in order, and
with finitely many requests a weak condition comes to the same. A batch is a
sequence of transactions, but its list only shrinks. In `Catalogue` the fair
steps include `Victim`: PostgreSQL breaks a circle of waits after
`deadlock_timeout`. `Deployment` claims no progress: a publish may be
interrupted at any command, and `Stopped` is all that the script promises.

## 4. Five disagreements

`sub_ahead`: README.md says a downgrade is scheduled for the end of the period
(`POST /tenants/{id}/downgrade`: "agenda downgrade para o fim do periodo").
Nothing renews the period, so from day 30 on that end lies in the past, and the
next read applies the downgrade at once.

`auth_logout`: README.md says a logout revokes the user's refresh tokens
globally. A refresh that commits after the logout's `UPDATE` has started leaves
a token the `UPDATE` does not see. `LogoutReaches` is what the code does
guarantee.

`cat_free`: `save_plan` answers that the free plan cannot be deactivated
(`plan_service.py:117`), and `tests/test_admin_plans.py:87` expects it. The
check looks at a row read without a lock. A save that has read the plan while
it had another slug goes on to deactivate it after the plan has become the free
one. `FreePlanAvailable` is what holds: without renames, the guard stands.

`tok_batch`: README.md and `publish.sh` say the batch issues the tokens that
are missing. It tests the rows it read before it issued the first, so a token
issued in the console meanwhile is replaced. `OldTokensRefused` and
`NoTokenLost` hold all the same: the replaced token is refused and the new one
is printed.

`deploy_seed`: README.md:58-59 says the plans of Moara are created by the
migration, and the first line of revision `20260611_03` says it seeds them.
`upgrade` creates tables, a foreign key and a trigger, and inserts no row;
`seed_moara_plans` in `subscription_service.py` would, and only tests call it.
After a first publish no tenant can be created until an administrator has
entered the products and plans by hand.

## 5. The proofs

`SubscriptionsProofs`. None of the properties is inductive: what a commit does
depends on what the request decided several steps before. `IInv` therefore
says, of each request, what it may ask where it is (`AskOK`), that it holds the
lock of the row it has loaded and the row is unchanged (`HoldOK`), that a
target which is the plan in force was read with it (`SeenOK`), and that the
pair it is about to write is one of four functions of that row (`WriteOK`,
`Writes`); that two creations are never of the same tenant (`CreateInv`); and
`OwnProduct`. Steps are grouped by what they share: steps that touch only the
request (`LocalStepKeeps`), closing (`CloseKeeps`), loading (`LoadKeeps`),
preparing (`PrepareKeeps`) and the commit, for which `CommitAlone` shows that
no other request has loaded the row. From `IInv` follow `TypeCorrect`,
`LocksProtectRows` and `PlansOfOwnProduct`. `HolderIsAtWork` is inductive on
top of it: a request at work keeps its place or closes and releases all it
holds (`HoldersWork`).

`SubscriptionsRefinement`. `WriteOK` makes each commit a step of the ledger
(`RefinesLedger`), with the variables mapped to themselves. The audit theorems
(`AuditIsExact`, `AuditIsHistory`, `DowngradesAreNeverEarly`) are then proved
on ledger steps alone, without looking at requests again. `AuditIsInOrder`
needs more than the ledger has: `StampInv` says that an event about to be
committed is no older than those of its tenant, which it owes to the row's lock. `ScheduledIsBelow` holds
until a plan is saved: `BelowInv` says that the positions a request has loaded
are those of the catalogue, and that what it is about to write schedules a lower
plan.

`AuthTokensProofs`. `IInv` says who may hold a lock and what it knows of the
row (`HoldOK`, `OwnOK`), that each token found by a logout is still ahead of
it, locked by it or revoked (`ScanOK`), that tokens appear when their request
ends (`TokenOK`), and `Rotation`. `MayBecome` and `TokensLast` carry the rest:
whatever a step of one request does to the tokens, it disturbs nobody else
(`OthersKeep`). From it follow `RotationIsExclusive`, `LogoutIsComplete` and
`RevocationIsFinal`. For `AuthImplementsSessions` one more invariant is needed,
`SessionInv`: a logout finds and locks tokens of its own user only, and a login
presents none. Then each of the three commits is its step of `Sessions`
(`LoginOpens`, `RefreshExchanges`, `LogoutEnds`), and all the other steps change
nothing there (`QuietSessions`). `AuthSessionsDoNotMultiply` is proved on those
steps: an exchange swaps one live token for another (`SwapKeepsCardinality`).
`AuthSomeoneGoesOn` needs that only finitely many requests have arrived at any
moment (`FewArrived`), however many may come: among finitely many that all wait
there is a circle (`SomeCircle`), and who waits while it holds a lock is a
logout, because a refresh waits before it locks its one row (`HoldersRun`).

`CatalogueProofs`. Uniqueness is not inductive: two rows become equal by two
commits that each looked fine. `IInv` has facts about each request (`AskOK`,
`SeenOK`: the slug it read is the plan's unless one has been changed;
`DraftOK`: what it has written is what `Merged` makes of the committed row;
`KeyOK`: the key it has entered is no committed row's) and about each two
(`PairOK`: they do not write the same row or enter the same key). Steps that
commit nothing need a look at their own request only (`LocalStepKeeps`), and
`CommitKeepsOthers` shows what a commit leaves true of the rest. From it follow
`SlugsAreUnique`, `ProductsAreWhole`, `FreePlanStays` and, for steps,
`SavesAreMerged`. `CatalogueImplementsPlanTable`: only the two commits change
what `PlanTable` sees, and each is a save of it (`CommitIsSave`), a second free
plan being kept out by the key the request has entered.

`ServiceTokensProofs`. `IInv` says that whoever has shown a token is past
building it (`ShownOK`), which rests on a batch taking each product from its
list once (`WorkOK`); so a commit never puts in force what a caller already
holds, and a token out of force stays out (`CallerOK`). Most steps touch one
actor and no hash (`QuietKeeps`) or one caller (`CallerKeeps`). From it follow
`OldTokensStayOut` and `TokensAreKnown`.

`RateLimiterProofs`. `LimiterInv` says that the queue is a tail of the history,
that what was dropped from it is old, and that the history is in order. From it
follow `LimiterWindowHolds` and, because a queue once pruned is as long as the
recent part of the history (`QueueCountsRecent`), `LimiterImplementsWindow`.
`LimiterQueueBounded` is inductive by itself: a queue grows only when what is left
of it after pruning (`PruneStops`) is shorter than the limit.

`AccountsProofs`. Every step of `Accounts` is a step of the limiter or leaves it
alone (`StepOfLimiter`), so both promises of the limiter hold of logins
(`LoginsAreLimited`). `Consistent` is inductive: a mailbox is held by the one
request that is about to commit it (`LocksHeld`), a login that goes on has the
password of the row it has read although it holds no lock on it, because no
request ever changes a password (`StepsTaken`), and the answers given are true.
`AccountsSomeoneGoesOn`: if no connection is taken, the pool is not full; whoever
has one waits for nothing, or for a mailbox, whose holder is committing and waits
for nothing.

`DeploymentProofs`. `Undisturbed` says what a publish relies on while the others
are of its release: the tag still names the image it built, the revision is the
one it found or, if another has been faster, the one of the image. From it
follow `DeploymentApiNeverAhead` and `DeploymentPublishedIsBuilt`, for any number
of publishes and any tables watched. The rest is about the schema. A lemma per
kind of statement says when it works and what the database is then
(`CreateWorks`, `AddKeyFails`, ...); the lemmas on the revisions
(`Upgrade01Works`, ..., `Downgrade03Works`) chain them; `UpgradedIs` and
`DowngradedIs` say from which rows a run of revisions succeeds and where it
ends. The inductive invariant `Migrated` says that the database is the one of
its revision (`At`), with rows in its tables only, and that whoever upgrades goes
forwards. From it follow `DeploymentSchemaOfRevision` and
`DeploymentRevisionsReachable`, whatever overlaps, and, with `Undisturbed`,
`DeploymentApiFindsTables`.

Assumptions: the named `ASSUME`s of the modules (NULL is no value of any
table; a period, a lifetime, a limit, a window and a pool are positive; requests
are finitely many where connections are counted; the catalogue at the start has
at most one free plan per product; a product that is there at the start has its
token and its active free plan; a token in force at the start is of its own
product; actors and callers are told apart), which TLC evaluates in the runs.

Only model-checked: liveness (`RequestsEnd`, `DueIsSettled`, `SavesEnd`,
`IssuesEnd`), which is beyond TLAPS, as are fairness and `ENABLED`. For the waits
behind it the safety half is proved (`HoldersWork`, `AuthSomeoneGoesOn`,
`AccountsSomeoneGoesOn`). Every invariant, every action property and every
refinement that a passing run checks is also a theorem. Five theorems state
properties that no run lists, as the others come close to them: `UniqueSlugs`
(part of the catalogue's `IInv`), `ApiFindsTables`, `SessionsDoNotMultiply` (a
consequence of `ImplementsSessions`), `HolderIsAtWork` and `QueueBounded`.

## 6. Not modelled, and why

- Configuration (`config.py`): read once; what `publish.sh` demands of the file
  is `Begin`.
- Templates, forms and the session cookie of the admin console: no state of
  their own; the operations behind them are `Catalogue` and `ServiceTokens`.
- `/health`: constant; what it means for a publish is `Boot`.
- JWT and bcrypt: libraries. A token that decodes is one that was issued; a hash
  is its password and its cost.
- `invoices`: no code reads or writes the table; it is one of the tables of
  `Migrations`.
- The growth of the limiter's dictionary: one entry for every key ever seen, as
  the code plainly says. What one key keeps is bounded (`QueueBounded`).
- The answer of a refresh that is lost: the code has no grace period, so there
  is nothing to hold it to.

What could be added: `PlanTable` does not speak of `active` and positions, so
`SavePlan` allows any of them at any time, which is more than `Catalogue` does.
A finer table would need the catalogue's history of renames.
