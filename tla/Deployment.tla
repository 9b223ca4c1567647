----------------------------- MODULE Deployment -----------------------------
(***************************************************************************)
(* publish.sh and what it moves: the image it builds from the checkout,    *)
(* the schema it migrates with a container of that image, and the API it   *)
(* replaces (compose.production.yml).  The image has one tag for all runs  *)
(* of the script, and a container keeps the image it was made from.        *)
(*                                                                         *)
(* A release is named by the last revision it contains.  A member of       *)
(* Publishers is one run of `publish.sh publish`.  Releases before the     *)
(* last one are not in the repository: of them it is only assumed that     *)
(* they use no table that their revision does not have.                    *)
(***************************************************************************)
EXTENDS Migrations

CONSTANTS
  Publishers,
  Watched     \* the tables whose rows matter to a run

VARIABLES
  db,       \* the schema, and which tables have rows
  rev,      \* alembic_version
  env,      \* .env.production: absent, template (with CHANGE_ME) or ready
  tree,     \* the release checked out
  image,    \* the release in the image under the tag, or 0
  api,      \* the container of the API
  step,     \* where each publish is
  built,    \* the release that each publish has built
  applied,  \* the release whose migrations it runs
  base,     \* the revision that alembic has found
  mixed     \* publishes of different releases have been mixed (for the properties)

pubVars == <<step, built, applied, base, mixed>>
vars == <<db, rev, env, tree, image, api, pubVars>>

---------------------------------------------------------------------------
Releases == 1..Latest
Busy     == {"building", "migrating", "upgrading", "starting", "polling"}
Schema == [n \in 0..Latest |-> Upgraded(Empty, 0, n)]

NoApi == [state |-> "none", release |-> 0]
Serving(n) == [state |-> "healthy", release |-> n]

\* Nothing is deployed yet, or an earlier release with all its migrations.
Init ==
  /\ \E n \in 0..Latest :
       /\ rev = n /\ image = n
       /\ db = Schema[n]
       /\ env = IF n = 0 THEN "absent" ELSE "ready"
       /\ api = IF n = 0 THEN NoApi ELSE Serving(n)
  /\ tree \in Releases
  /\ step = [p \in Publishers |-> "idle"]
  /\ built = [p \in Publishers |-> 0]
  /\ applied = [p \in Publishers |-> 0]
  /\ base = [p \in Publishers |-> 0]
  /\ mixed = FALSE

TypeOK ==
  /\ rev \in 0..Latest /\ tree \in Releases /\ image \in 0..Latest
  /\ env \in {"absent", "template", "ready"}
  /\ api \in [state : {"none", "starting", "healthy"}, release : 0..Latest]
  /\ step \in [Publishers -> {"idle", "done", "failed"} \cup Busy]
  /\ built \in [Publishers -> 0..Latest]
  /\ applied \in [Publishers -> 0..Latest]
  /\ base \in [Publishers -> 0..Latest]
  /\ mixed \in BOOLEAN

---------------------------------------------------------------------------
(* publish.sh publish; set -e ends it at the first command that fails *)

Goto(p, to) == step' = [step EXCEPT ![p] = to]

Publishing == {p \in Publishers : step[p] \in Busy}
Started == {p \in Publishing : step[p] # "building"}  \* that have built their image

\* validate_env.
Begin(p) ==
  /\ step[p] = "idle"
  /\ Goto(p, IF env = "ready" THEN "building" ELSE "failed")
  /\ UNCHANGED <<db, rev, env, tree, image, api, built, applied, base, mixed>>

\* docker compose build api: the checkout of this moment, under the tag.
Build(p) ==
  /\ step[p] = "building"
  /\ image' = tree
  /\ built' = [built EXCEPT ![p] = tree]
  /\ Goto(p, "migrating")
  /\ mixed' = (mixed \/ \E q \in Started \ {p} : built[q] # tree)
  /\ UNCHANGED <<db, rev, env, tree, api, applied, base>>

\* docker compose run api alembic upgrade head, with the image now under the
\* tag: it reads the revision, which its release must know.
StartUpgrade(p) ==
  /\ step[p] = "migrating"
  /\ applied' = [applied EXCEPT ![p] = image]
  /\ base' = [base EXCEPT ![p] = rev]
  /\ Goto(p, IF rev <= image THEN "upgrading" ELSE "failed")
  /\ UNCHANGED <<db, rev, env, tree, image, api, built, mixed>>

\* Slips in FinishUpgrade: the exit status of alembic is not looked at, and
\* the revision is recorded apart from its statements.
FinishUpgradeUnchecked(p) ==
  LET result == Upgraded(db, base[p], applied[p]) IN
  /\ step[p] = "upgrading"
  /\ IF rev = base[p] /\ result # Failed THEN db' = result /\ rev' = applied[p]
                                         ELSE UNCHANGED <<db, rev>>
  /\ Goto(p, "starting")
  /\ UNCHANGED <<env, tree, image, api, built, applied, base, mixed>>

FinishUpgradeApart(p) ==
  LET result == Upgraded(db, base[p], applied[p]) IN
  /\ step[p] = "upgrading"
  /\ rev' = applied[p]
  /\ IF result # Failed THEN db' = result /\ Goto(p, "starting")
                        ELSE Goto(p, "failed") /\ UNCHANGED db
  /\ UNCHANGED <<env, tree, image, api, built, applied, base, mixed>>

\* All revisions are one transaction (env.py).  It fails if a statement does,
\* or if another run has moved the database since the revision was read.
FinishUpgrade(p) ==
  LET result  == Upgraded(db, base[p], applied[p])
      nothing == base[p] = applied[p]
      fits    == rev = base[p] /\ result # Failed
  IN
  /\ step[p] = "upgrading"
  /\ \/ ~nothing /\ fits /\ db' = result /\ rev' = applied[p]
     \/ ~(~nothing /\ fits) /\ UNCHANGED <<db, rev>>
  /\ Goto(p, IF nothing \/ fits THEN "starting" ELSE "failed")
  /\ UNCHANGED <<env, tree, image, api, built, applied, base, mixed>>

\* A slip in Up: a container that runs is taken for the one to run.
UpIfStopped(p) ==
  /\ step[p] = "starting"
  /\ api' = IF api.state = "none" THEN [state |-> "starting", release |-> image] ELSE api
  /\ Goto(p, "polling")
  /\ UNCHANGED <<db, rev, env, tree, image, built, applied, base, mixed>>

\* docker compose up -d api: the container is made again if the image under
\* the tag is not its own.
Up(p) ==
  /\ step[p] = "starting"
  /\ api' = IF api.state # "none" /\ api.release = image THEN api
            ELSE [state |-> "starting", release |-> image]
  /\ Goto(p, "polling")
  /\ UNCHANGED <<db, rev, env, tree, image, built, applied, base, mixed>>

\* The loop over docker compose ps finds the API healthy.
Poll(p) ==
  /\ step[p] = "polling"
  /\ api.state = "healthy"
  /\ Goto(p, "done")
  /\ UNCHANGED <<db, rev, env, tree, image, api, built, applied, base, mixed>>

\* A command fails, the operator interrupts, or thirty polls were in vain.
Stopped(p) ==
  /\ step[p] \in Busy
  /\ Goto(p, "failed")
  /\ UNCHANGED <<db, rev, env, tree, image, api, built, applied, base, mixed>>

---------------------------------------------------------------------------
(* The rest of the script, the operator, Docker and the API *)

Quiet == UNCHANGED <<step, built, applied, base, mixed>>

\* publish.sh init refuses an existing file; the operator then edits it.
InitEnv == env = "absent" /\ env' = "template" /\ UNCHANGED <<db, rev, tree, image, api>> /\ Quiet
Configure == env = "template" /\ env' = "ready" /\ UNCHANGED <<db, rev, tree, image, api>> /\ Quiet

\* Another release is checked out, also while a publish runs.
Checkout(n) == tree # n /\ tree' = n /\ UNCHANGED <<db, rev, env, image, api>> /\ Quiet

\* publish.sh stop: docker compose down.
StopApi ==
  /\ env = "ready" /\ api.state # "none"
  /\ api' = NoApi
  /\ UNCHANGED <<db, rev, env, tree, image>> /\ Quiet

\* GET /health answers as soon as the process is up; it asks no database.
Boot == api.state = "starting" /\ api' = [api EXCEPT !.state = "healthy"]
        /\ UNCHANGED <<db, rev, env, tree, image>> /\ Quiet

\* restart: unless-stopped, from the image of the container.
Restart == api.state = "healthy" /\ api' = [api EXCEPT !.state = "starting"]
           /\ UNCHANGED <<db, rev, env, tree, image>> /\ Quiet

\* The operator goes back to revision n: alembic downgrade in a container of
\* an image that knows the revision, with the API stopped.
Downgrade(n) ==
  /\ api.state = "none" /\ Publishing = {} /\ n < rev /\ rev <= image
  /\ Downgraded(db, rev, n) # Failed
  /\ db' = Downgraded(db, rev, n) /\ rev' = n
  /\ UNCHANGED <<env, tree, image, api>> /\ Quiet

\* The API stores a first row, which refers to rows there are.
Write(t) ==
  /\ api.state = "healthy"
  /\ t \in Schema[api.release].tables \cap db.tables /\ t \notin db.filled
  /\ \A k \in db.keys : k[1] = t => k[2] \in db.filled
  /\ db' = [db EXCEPT !.filled = @ \cup {t}]
  /\ UNCHANGED <<rev, env, tree, image, api>> /\ Quiet

Next ==
  \/ \E p \in Publishers :
       \/ Begin(p) \/ Build(p) \/ StartUpgrade(p) \/ FinishUpgrade(p) \/ Up(p) \/ Poll(p)
       \/ Stopped(p)
  \/ InitEnv \/ Configure \/ StopApi \/ Boot \/ Restart
  \/ \E n \in Releases : Checkout(n)
  \/ \E n \in 0..Latest : Downgrade(n)
  \/ \E t \in Watched : Write(t)

Spec == Init /\ [][Next]_vars

---------------------------------------------------------------------------
(* Properties *)

SchemaOf(d) == [d EXCEPT !.filled = {}]

\* Whatever fails, races or is rolled back on the way, the schema is the one of
\* the revision that alembic_version names; and at the last revision the
\* tables and foreign keys are those that the models declare.
SchemaOfRevision ==
  /\ db.filled \subseteq db.tables
  /\ SchemaOf(db) = Schema[rev]
  /\ rev = Latest => db.tables = ModelTables /\ db.keys = ModelKeys

\* From any database that may come to be every revision can be reached:
\* backwards always, and forwards unless the foreign key of revision 3 finds
\* tenants, for whose products there are no rows.
RevisionsReachable ==
  /\ \A n \in 0..rev :
       LET d == Downgraded(db, rev, n) IN d # Failed /\ SchemaOf(d) = Schema[n]
  /\ \A n \in rev..Latest :
       Upgraded(db, rev, n) = Failed <=> rev < 3 /\ 3 <= n /\ "tenants" \in db.filled

\* README: the migrations are applied before the API is updated.  Publishes,
\* failed ones, restarts, stops and downgrades in any order never leave an
\* API running that is ahead of its schema, if publishes of different releases
\* do not mix; publishes of one release may overlap as they like.
ApiNeverAhead == ~mixed /\ api.state # "none" => api.release <= rev

\* So the API that runs finds the tables that its release uses.
ApiFindsTables == ~mixed /\ api.state # "none" => Schema[api.release].tables \subseteq db.tables

\* What a publish relies on when the others publish the same release: the image
\* is still the one it built; the revision is the one that alembic has found or,
\* when another has been faster, the one of the image; and the API, unless it is
\* stopped, is of that image.
Undisturbed ==
  \A p \in Started :
    /\ image = built[p]
    /\ step[p] = "upgrading" => applied[p] = image /\ base[p] <= image /\ rev \in {base[p], image}
    /\ step[p] \in {"starting", "polling"} => rev = image
    /\ step[p] = "polling" /\ api.state # "none" => api.release = image

Consistent == TypeOK /\ ApiNeverAhead /\ (~mixed => Undisturbed)

\* A publish that reports success has put the release it built in service, on
\* the schema of that release, if publishes of different releases do not mix.
PublishedIsBuilt ==
  [][\A p \in Publishers : step[p] # "done" /\ step'[p] = "done" /\ ~mixed =>
       api' = Serving(built[p]) /\ rev' = built[p]]_vars

\* README: the plans of Moara are created by the migration.
PlansAreSeeded ==
  \A p \in Publishers : step[p] = "starting" /\ rev >= 3 => "plans" \in db.filled
===========================================================================
