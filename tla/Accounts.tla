------------------------------ MODULE Accounts ------------------------------
(***************************************************************************)
(* Accounts and logins (app/services/auth_service.py, app/routers/auth.py) *)
(* over the pool of connections (app/database.py) and behind the login     *)
(* limiter (RateLimiter).  A session takes a connection with its first     *)
(* statement and gives it back when it commits, rolls back or is closed.   *)
(* A provisioned user is read once more after its commit, which takes a    *)
(* connection again.                                                       *)
(*                                                                         *)
(* A member of Requests is one HTTP request, used once.  A mailbox is a    *)
(* product and an e-mail after normalize_email; the key of the limiter is  *)
(* made of the same two and of the client address.  A hash is the password *)
(* it was made from and its cost.  The session that a login opens is in    *)
(* AuthTokens.                                                             *)
(***************************************************************************)
EXTENDS RateLimiter, FiniteSets

CONSTANTS
  Requests,
  Mailboxes,
  Passwords,
  Hosts,      \* client addresses
  PoolSize,   \* pool_size + max_overflow of the engine
  None

ASSUME AccountsAssumption ==
  /\ Keys = Mailboxes \X Hosts
  /\ PoolSize \in Nat \ {0}
  /\ IsFiniteSet(Requests)
  /\ None \notin Requests

VARIABLES
  users,   \* table users: a row or None for each mailbox
  writer,  \* the request whose uncommitted write holds a mailbox, or None
  pc,      \* where each request is
  req,     \* what each request asks
  answer   \* the status each request was answered with, or None

dbVars == <<users, writer>>
vars == <<dbVars, pc, req, answer, limiterVars, clock>>

---------------------------------------------------------------------------
Kinds   == {"provision", "login"}
Costs   == {"weak", "strong"}
Over    == {"done", "aborted"}
Waiting == {"connecting", "reconnecting"}
Holding == {"inserting", "reading", "updating", "committing", "answering"}
Running == Waiting \cup Holding
Answers == {"200", "201", "401", "409", "429"}

\* by is the request that inserted the row, or None if it was there before.
User == [password: Passwords, cost: Costs, by: Requests \cup {None}]

\* cost is that of the hash that a provisioning request stores.
Request == [kind: Kinds, mailbox: Mailboxes, password: Passwords, cost: Costs]

ASSUME AccountsNone == None \notin User \cup Request \cup Answers

TypeOK ==
  /\ LimiterTypeOK
  /\ users \in [Mailboxes -> User \cup {None}]
  /\ writer \in [Mailboxes -> Requests \cup {None}]
  /\ pc \in [Requests -> {"idle"} \cup Running \cup Over]
  /\ req \in [Requests -> Request \cup {None}]
  /\ answer \in [Requests -> Answers \cup {None}]

\* The users that the program finds when it starts are any.
Init ==
  /\ LimiterInit
  /\ users \in [Mailboxes -> {u \in User : u.by = None} \cup {None}]
  /\ writer = [m \in Mailboxes |-> None]
  /\ pc = [r \in Requests |-> "idle"]
  /\ req = [r \in Requests |-> None]
  /\ answer = [r \in Requests |-> None]

---------------------------------------------------------------------------
Goto(r, to) == pc' = [pc EXCEPT ![r] = to]

Box(r) == req[r].mailbox

Connected == {r \in Requests : pc[r] \in Holding}

\* The writes that r has not committed are undone when its session closes.
Unlock(r) == writer' = [m \in Mailboxes |-> IF writer[m] = r THEN None ELSE writer[m]]

\* A slip in Reply: the session stays open.
ReplyOnly(r, status) ==
  /\ Goto(r, "done")
  /\ answer' = [answer EXCEPT ![r] = status]
  /\ UNCHANGED writer

\* r is answered and its session closed.  The one comes just before the other:
\* between them r can only keep its connection from those who queue for one.
Reply(r, status) ==
  /\ Goto(r, "done")
  /\ answer' = [answer EXCEPT ![r] = status]
  /\ Unlock(r)

\* What every step but an arrival leaves alone.
Inside == UNCHANGED <<req, limiterVars, clock>>

---------------------------------------------------------------------------
(* Arrival *)

\* POST /auth/users, whose hash is strong, or POST /auth/migrate.
BeginProvision(r, m, p, c) ==
  /\ pc[r] = "idle"
  /\ req' = [req EXCEPT ![r] = [kind |-> "provision", mailbox |-> m, password |-> p, cost |-> c]]
  /\ Goto(r, "connecting")
  /\ UNCHANGED <<dbVars, answer, limiterVars, clock>>

\* POST /auth/token: the limiter is asked before the database.
BeginLogin(r, m, p, h) ==
  /\ pc[r] = "idle"
  /\ req' = [req EXCEPT ![r] = [kind |-> "login", mailbox |-> m, password |-> p, cost |-> "strong"]]
  /\ Allow(<<m, h>>)
  /\ Goto(r, IF verdict'[<<m, h>>] THEN "connecting" ELSE "done")
  /\ answer' = IF verdict'[<<m, h>>] THEN answer ELSE [answer EXCEPT ![r] = "429"]
  /\ UNCHANGED <<dbVars, clock>>

---------------------------------------------------------------------------
(* The pool *)

\* The first statement of the session.
Connect(r) ==
  /\ pc[r] = "connecting"
  /\ Cardinality(Connected) < PoolSize
  /\ Goto(r, IF req[r].kind = "login" THEN "reading" ELSE "inserting")
  /\ UNCHANGED <<dbVars, answer>> /\ Inside

\* The user is refreshed after its commit.
Reconnect(r) ==
  /\ pc[r] = "reconnecting"
  /\ Cardinality(Connected) < PoolSize
  /\ Goto(r, "answering")
  /\ UNCHANGED <<dbVars, answer>> /\ Inside

---------------------------------------------------------------------------
(* POST /auth/users and /auth/migrate *)

\* 401, 403 or 422: the service token, the product or the migrated hash is
\* not accepted.  It leaves no trace, as an abort.  A request whose header or
\* body is refused before the first statement asks for no connection either,
\* and is no step at all.
Refuse(r) ==
  /\ pc[r] = "inserting"
  /\ Goto(r, "aborted")
  /\ req' = [req EXCEPT ![r] = None]
  /\ UNCHANGED <<dbVars, answer, limiterVars, clock>>

\* The INSERT waits for whoever is writing the same mailbox, and goes on if
\* that write is undone.
Insert(r) ==
  /\ pc[r] = "inserting"
  /\ writer[Box(r)] = None /\ users[Box(r)] = None
  /\ writer' = [writer EXCEPT ![Box(r)] = r]
  /\ Goto(r, "committing")
  /\ UNCHANGED <<users, answer>> /\ Inside

\* A slip in Conflict: a write that may still be undone counts.
ConflictWithRunning(r) ==
  /\ pc[r] = "inserting"
  /\ writer[Box(r)] # None \/ users[Box(r)] # None
  /\ Reply(r, "409")
  /\ UNCHANGED users /\ Inside

\* IntegrityError of uq_users_product_email: rollback and 409.
Conflict(r) ==
  /\ pc[r] = "inserting"
  /\ writer[Box(r)] = None /\ users[Box(r)] # None
  /\ Reply(r, "409")
  /\ UNCHANGED users /\ Inside

CommitUser(r) ==
  /\ pc[r] = "committing" /\ req[r].kind = "provision"
  /\ users' = [users EXCEPT ![Box(r)] =
                 [password |-> req[r].password, cost |-> req[r].cost, by |-> r]]
  /\ Unlock(r)
  /\ Goto(r, "reconnecting")
  /\ UNCHANGED answer /\ Inside

Answer(r) ==
  /\ pc[r] = "answering"
  /\ Reply(r, "201")
  /\ UNCHANGED users /\ Inside

---------------------------------------------------------------------------
(* POST /auth/token *)

\* A slip in Verified: a weak hash is replaced before it is verified.
VerifiedOrWeak(r) ==
  users[Box(r)] # None /\ (users[Box(r)].password = req[r].password \/ users[Box(r)].cost = "weak")

Verified(r) == users[Box(r)] # None /\ users[Box(r)].password = req[r].password

\* The user is read, verified and found weak without another request between:
\* a committed row is seen, whoever is writing it.
Deny(r) ==
  /\ pc[r] = "reading"
  /\ ~Verified(r)
  /\ Reply(r, "401")
  /\ UNCHANGED users /\ Inside

Verify(r) ==
  /\ pc[r] = "reading"
  /\ Verified(r)
  /\ Goto(r, IF users[Box(r)].cost = "weak" THEN "updating" ELSE "committing")
  /\ UNCHANGED <<dbVars, answer>> /\ Inside

\* A slip in Rehash: the row is written without its lock.
RehashWithoutWaiting(r) ==
  /\ pc[r] = "updating"
  /\ writer' = [writer EXCEPT ![Box(r)] = r]
  /\ Goto(r, "committing")
  /\ UNCHANGED <<users, answer>> /\ Inside

\* The UPDATE waits for another login that rehashes the same user.
Rehash(r) ==
  /\ pc[r] = "updating"
  /\ writer[Box(r)] = None
  /\ writer' = [writer EXCEPT ![Box(r)] = r]
  /\ Goto(r, "committing")
  /\ UNCHANGED <<users, answer>> /\ Inside

\* The hash, if it was replaced, and the session are stored together.
CommitLogin(r) ==
  /\ pc[r] = "committing" /\ req[r].kind = "login"
  /\ users' = IF writer[Box(r)] = r
                THEN [users EXCEPT ![Box(r)].password = req[r].password, ![Box(r)].cost = "strong"]
                ELSE users
  /\ Reply(r, "200")
  /\ Inside

---------------------------------------------------------------------------
(* Failures and the clock *)

\* A lost connection, a cancelled request, or thirty seconds in the pool's
\* queue: the user that was committed stays.
Abort(r) ==
  /\ pc[r] \in Running
  /\ Goto(r, "aborted")
  /\ req' = [req EXCEPT ![r] = None]
  /\ Unlock(r)
  /\ UNCHANGED <<users, answer, limiterVars, clock>>

\* The process dies with its requests and its limiter.
Crash ==
  /\ pc' = [r \in Requests |-> IF pc[r] \in Running THEN "aborted" ELSE pc[r]]
  /\ req' = [r \in Requests |-> IF pc[r] \in Running THEN None ELSE req[r]]
  /\ writer' = [m \in Mailboxes |-> None]
  /\ Restart
  /\ UNCHANGED <<users, answer, clock>>

Tick == Elapse /\ UNCHANGED <<dbVars, pc, req, answer, limiterVars>>

Finished == (\A r \in Requests : pc[r] \in Over) /\ UNCHANGED vars

Arrive(r) ==
  \E m \in Mailboxes, p \in Passwords :
    \/ \E c \in Costs : BeginProvision(r, m, p, c)
    \/ \E h \in Hosts : BeginLogin(r, m, p, h)

Serve(r) ==
  \/ Connect(r) \/ Reconnect(r)
  \/ Insert(r) \/ Conflict(r) \/ CommitUser(r) \/ Answer(r)
  \/ Deny(r) \/ Verify(r) \/ Rehash(r) \/ CommitLogin(r)

Next ==
  \/ \E r \in Requests : Arrive(r) \/ Serve(r) \/ Refuse(r) \/ Abort(r)
  \/ Crash
  \/ Tick
  \/ Finished

Spec == Init /\ [][Next]_vars

\* The event loop and the database go on with every request they have, and owe
\* none of them a refusal.
FairSpec == Spec /\ \A r \in Requests : WF_vars(Serve(r))

---------------------------------------------------------------------------
(* Properties *)

Answered(r, status) == pc[r] = "done" /\ answer[r] = status

\* What a request was told stays true whatever runs beside it: the account of
\* a 201 is the one that this request made, so that a mailbox is given out
\* once; a 409 means that someone else has the account, and not that someone
\* was about to; a login that succeeded had the right password and leaves a
\* strong hash; and one that failed had the wrong one, if the account was there
\* from the start.
AnswersHold ==
  \A r \in Requests : LET u == users[Box(r)] IN
    /\ Answered(r, "201") => u # None /\ u.by = r
    /\ Answered(r, "409") => u # None /\ u.by # r
    /\ Answered(r, "200") => u # None /\ u.password = req[r].password /\ u.cost = "strong"
    /\ Answered(r, "401") /\ u # None => u.by # None \/ u.password # req[r].password

\* What the requests rely on: a mailbox is held by the one request that is
\* about to commit it, a provisioning one only where no account is; a login
\* that goes on has the password of the account, and commits a weak one only
\* with the lock; and a provisioned account is there before its answer.
LocksHeld ==
  \A m \in Mailboxes : writer[m] # None =>
    /\ pc[writer[m]] = "committing" /\ Box(writer[m]) = m
    /\ req[writer[m]].kind = "provision" => users[m] = None

StepsTaken ==
  \A r \in Requests :
    /\ pc[r] \in Running \cup {"done"} => req[r] # None
    /\ pc[r] \in {"inserting", "reconnecting", "answering"} => req[r].kind = "provision"
    /\ pc[r] \in {"reading", "updating"} => req[r].kind = "login"
    /\ pc[r] = "committing" /\ req[r].kind = "provision" => writer[Box(r)] = r
    /\ pc[r] \in {"updating", "committing"} /\ req[r].kind = "login" => Verified(r)
    /\ pc[r] = "committing" /\ req[r].kind = "login" =>
         writer[Box(r)] = r \/ users[Box(r)].cost = "strong"
    /\ pc[r] \in {"reconnecting", "answering"} => users[Box(r)] # None /\ users[Box(r)].by = r
    /\ \A m \in Mailboxes : users[m] # None /\ users[m].by = r =>
         pc[r] \in {"reconnecting", "answering"} \cup Over

Consistent == TypeOK /\ LocksHeld /\ StepsTaken /\ AnswersHold

\* No request takes an account away, changes its password, or stores a
\* cheaper hash, the logins included that rehash a row they read before.
PasswordKept ==
  [][\A m \in Mailboxes : users[m] # None =>
       /\ users'[m] # None
       /\ users'[m].password = users[m].password /\ users'[m].by = users[m].by
       /\ users[m].cost = "strong" => users'[m].cost = "strong"]_vars

\* r cannot go on before another request does.
Blocked(r) ==
  \/ pc[r] \in Waiting /\ Cardinality(Connected) >= PoolSize
  \/ pc[r] \in {"inserting", "updating"} /\ writer[Box(r)] # None

\* The requests that wait for a connection, or with one for a mailbox, never
\* wait for each other only: a pool of one connection is enough.
SomeoneGoesOn ==
  (\E r \in Requests : pc[r] \in Running) =>
    \E r \in Requests : pc[r] \in Running /\ ~Blocked(r)

\* Every request ends, those included that wait in the pool's queue: as there
\* are finitely many and each runs once, there is always a time to come when
\* none is running.
RequestsEnd == []<>(\A r \in Requests : pc[r] \notin Running)
===========================================================================
