----------------------------- MODULE AuthTokens -----------------------------
(***************************************************************************)
(* Refresh tokens (app/services/auth_service.py): /auth/token opens a      *)
(* session with a first token, /auth/refresh exchanges a token for a new   *)
(* one under the lock of its row, /auth/logout revokes the live tokens of  *)
(* a user in one UPDATE, with no other lock between them.                  *)
(*                                                                         *)
(* A member of Requests is one HTTP request and one transaction, used      *)
(* once, and it is also the name (jti) of the token it issues.  A token    *)
(* leaves the server after its commit, so only committed ones are shown.   *)
(* Users are not deleted and a token is signed with its user and product,  *)
(* so the comparisons of those in refresh always succeed and are left out, *)
(* as is the password (a login that fails leaves no trace).                *)
(***************************************************************************)
EXTENDS Naturals, FiniteSets

CONSTANTS
  Requests,   \* the transactions of the run, and the tokens they issue
  Users,
  Lifetime,   \* refresh_token_days
  MaxTime,    \* bound: the clock stops here
  None        \* NULL

ASSUME AuthAssumption == Lifetime \in Nat \ {0} /\ MaxTime \in Nat

VARIABLES
  tokens,  \* table refresh_tokens: a row or None for each token
  lock,    \* lock[k]: the request that holds the lock of k's row, or None
  pc,      \* where each request is
  req,     \* what each request asks; kept when it has ended
  row,     \* the row a refresh has read
  stamp,   \* the time a request has read, for revoked_at
  expiry,  \* the expires_at of the token it has made
  seen,    \* the rows that the UPDATE of a logout has found live
  todo,    \* the ones among them that it has not reached
  at,      \* the one it has reached, which may be locked
  clock

tx == <<row, stamp, expiry, seen, todo, at>>
vars == <<tokens, lock, pc, req, tx, clock>>

---------------------------------------------------------------------------
Kinds   == {"login", "refresh", "logout"}
Over    == {"done", "aborted"}
Running == {"issuing", "committing", "locking", "checking",
            "revoking", "scanning", "waiting"}
Control == {"idle"} \cup Running \cup Over

Token == [user: Users, expires: Nat, revoked: Nat \cup {None}]

\* token is the one presented by a refresh.
Request == [kind: Kinds, user: Users, token: Requests \cup {None}]

\* NULL is not a value of any type.
ASSUME AuthNone == None \notin Requests \cup Nat \cup Token \cup Request

TypeOK ==
  /\ tokens \in [Requests -> Token \cup {None}]
  /\ lock \in [Requests -> Requests \cup {None}]
  /\ pc \in [Requests -> Control]
  /\ req \in [Requests -> Request \cup {None}]
  /\ row \in [Requests -> Token \cup {None}]
  /\ stamp \in [Requests -> Nat \cup {None}]
  /\ expiry \in [Requests -> Nat \cup {None}]
  /\ seen \in [Requests -> SUBSET Requests]
  /\ todo \in [Requests -> SUBSET Requests]
  /\ at \in [Requests -> Requests \cup {None}]
  /\ clock \in Nat

Init ==
  /\ tokens = [k \in Requests |-> None]
  /\ lock = [k \in Requests |-> None]
  /\ pc = [r \in Requests |-> "idle"]
  /\ req = [r \in Requests |-> None]
  /\ row = [r \in Requests |-> None]
  /\ stamp = [r \in Requests |-> None]
  /\ expiry = [r \in Requests |-> None]
  /\ seen = [r \in Requests |-> {}]
  /\ todo = [r \in Requests |-> {}]
  /\ at = [r \in Requests |-> None]
  /\ clock = 0

---------------------------------------------------------------------------
Goto(r, to) == pc' = [pc EXCEPT ![r] = to]

Live(k) == tokens[k] # None /\ tokens[k].revoked = None

\* The session of r is closed: its locks go and so do its objects.  What a
\* logout had found is kept for the properties.
Close(r, how) ==
  /\ Goto(r, how)
  /\ lock' = [k \in Requests |-> IF lock[k] = r THEN None ELSE lock[k]]
  /\ row' = [row EXCEPT ![r] = None]
  /\ stamp' = [stamp EXCEPT ![r] = None]
  /\ expiry' = [expiry EXCEPT ![r] = None]
  /\ todo' = [todo EXCEPT ![r] = {}]
  /\ at' = [at EXCEPT ![r] = None]

Ask(r, kind, user, token) ==
  /\ pc[r] = "idle"
  /\ req' = [req EXCEPT ![r] = [kind |-> kind, user |-> user, token |-> token]]

---------------------------------------------------------------------------
(* POST /auth/token *)

\* The credentials are right; authenticate goes on to _issue_pair.
BeginLogin(r, u) ==
  /\ Ask(r, "login", u, None)
  /\ Goto(r, "issuing")
  /\ UNCHANGED <<tokens, lock, tx, clock>>

\* create_token reads the time; the row is added to the session.
Issue(r) ==
  /\ pc[r] = "issuing"
  /\ expiry' = [expiry EXCEPT ![r] = clock + Lifetime]
  /\ Goto(r, "committing")
  /\ UNCHANGED <<tokens, lock, req, row, stamp, seen, todo, at, clock>>

Issued(r) == [user |-> req[r].user, expires |-> expiry[r], revoked |-> None]

CommitLogin(r) ==
  /\ pc[r] = "committing" /\ req[r].kind = "login"
  /\ tokens' = [tokens EXCEPT ![r] = Issued(r)]
  /\ Close(r, "done")
  /\ UNCHANGED <<req, seen, clock>>

---------------------------------------------------------------------------
(* POST /auth/refresh *)

\* decode_token accepts k: it is signed and not expired.
BeginRefresh(r, k) ==
  /\ tokens[k] # None
  /\ clock < tokens[k].expires
  /\ Ask(r, "refresh", tokens[k].user, k)
  /\ Goto(r, "locking")
  /\ UNCHANGED <<tokens, lock, tx, clock>>

\* A slip in LockToken: the row is read without FOR UPDATE.
LockTokenWithoutWaiting(r) ==
  LET k == req[r].token IN
  /\ pc[r] = "locking"
  /\ lock' = [lock EXCEPT ![k] = r]
  /\ row' = [row EXCEPT ![r] = tokens[k]]
  /\ Goto(r, "checking")
  /\ UNCHANGED <<tokens, req, stamp, expiry, seen, todo, at, clock>>

\* SELECT ... FOR UPDATE returns the latest committed row once it is unlocked.
LockToken(r) ==
  LET k == req[r].token IN
  /\ pc[r] = "locking"
  /\ lock[k] = None
  /\ lock' = [lock EXCEPT ![k] = r]
  /\ row' = [row EXCEPT ![r] = tokens[k]]
  /\ Goto(r, "checking")
  /\ UNCHANGED <<tokens, req, stamp, expiry, seen, todo, at, clock>>

\* A slip in Usable: the expiry in the row is left to the one in the JWT.
UsableUntilRevoked(r) == row[r].revoked = None

Usable(r) == row[r].revoked = None /\ clock <= row[r].expires

\* The time read here, with the lock held, decides and becomes revoked_at.
Accept(r) ==
  /\ pc[r] = "checking"
  /\ Usable(r)
  /\ stamp' = [stamp EXCEPT ![r] = clock]
  /\ Goto(r, "issuing")
  /\ UNCHANGED <<tokens, lock, req, row, expiry, seen, todo, at, clock>>

\* A slip in Reject: the session of a refused refresh is left open.
RejectHoldingLock(r) ==
  /\ pc[r] = "checking"
  /\ ~Usable(r)
  /\ Goto(r, "done")
  /\ UNCHANGED <<tokens, lock, req, tx, clock>>

\* AuthError: the session is closed without a commit.
Reject(r) ==
  /\ pc[r] = "checking"
  /\ ~Usable(r)
  /\ Close(r, "done")
  /\ UNCHANGED <<tokens, req, seen, clock>>

\* The old token is revoked and the new one appears, together.
CommitRefresh(r) ==
  /\ pc[r] = "committing" /\ req[r].kind = "refresh"
  /\ tokens' = [tokens EXCEPT ![req[r].token].revoked = stamp[r], ![r] = Issued(r)]
  /\ Close(r, "done")
  /\ UNCHANGED <<req, seen, clock>>

---------------------------------------------------------------------------
(* POST /auth/logout *)

\* The caller shows an access token, which came with a refresh token.  The
\* shorter life of access tokens is not modelled.
BeginLogout(r, u) ==
  /\ \E k \in Requests : tokens[k] # None /\ tokens[k].user = u
  /\ Ask(r, "logout", u, None)
  /\ stamp' = [stamp EXCEPT ![r] = clock]
  /\ Goto(r, "revoking")
  /\ UNCHANGED <<tokens, lock, row, expiry, seen, todo, at, clock>>

\* The UPDATE starts: under READ COMMITTED it will look at the rows committed
\* by now, and at no others.
Snapshot(r) ==
  LET found == {k \in Requests : Live(k) /\ tokens[k].user = req[r].user} IN
  /\ pc[r] = "revoking"
  /\ seen' = [seen EXCEPT ![r] = found]
  /\ todo' = [todo EXCEPT ![r] = found]
  /\ Goto(r, "scanning")
  /\ UNCHANGED <<tokens, lock, req, row, stamp, expiry, at, clock>>

\* The scan reaches its rows in an order nobody has chosen.
Reach(r, k) ==
  /\ pc[r] = "scanning"
  /\ k \in todo[r]
  /\ todo' = [todo EXCEPT ![r] = @ \ {k}]
  /\ at' = [at EXCEPT ![r] = k]
  /\ Goto(r, "waiting")
  /\ UNCHANGED <<tokens, lock, req, row, stamp, expiry, seen, clock>>

\* Slips in Take: a locked row is passed over, or a row revoked during the
\* wait is revoked again.
TakeOrPass(r) ==
  /\ pc[r] = "waiting"
  /\ lock' = IF lock[at[r]] = None /\ Live(at[r]) THEN [lock EXCEPT ![at[r]] = r] ELSE lock
  /\ at' = [at EXCEPT ![r] = None]
  /\ Goto(r, "scanning")
  /\ UNCHANGED <<tokens, req, row, stamp, expiry, seen, todo, clock>>

TakeUnchecked(r) ==
  /\ pc[r] = "waiting"
  /\ lock[at[r]] = None
  /\ lock' = [lock EXCEPT ![at[r]] = r]
  /\ at' = [at EXCEPT ![r] = None]
  /\ Goto(r, "scanning")
  /\ UNCHANGED <<tokens, req, row, stamp, expiry, seen, todo, clock>>

\* Once the row is unlocked the WHERE clause is evaluated again on its latest
\* version: the row is updated, and stays locked, if it is still live.
Take(r) ==
  /\ pc[r] = "waiting"
  /\ lock[at[r]] = None
  /\ lock' = IF Live(at[r]) THEN [lock EXCEPT ![at[r]] = r] ELSE lock
  /\ at' = [at EXCEPT ![r] = None]
  /\ Goto(r, "scanning")
  /\ UNCHANGED <<tokens, req, row, stamp, expiry, seen, todo, clock>>

\* The rows taken are revoked together.
CommitLogout(r) ==
  /\ pc[r] = "scanning" /\ todo[r] = {}
  /\ tokens' = [k \in Requests |-> IF lock[k] = r
                                     THEN [tokens[k] EXCEPT !.revoked = stamp[r]]
                                     ELSE tokens[k]]
  /\ Close(r, "done")
  /\ UNCHANGED <<req, seen, clock>>

---------------------------------------------------------------------------
(* The database, failures and the clock *)

\* r waits for a row that s holds.
Waits(r, s) ==
  \/ pc[r] = "locking" /\ lock[req[r].token] = s
  \/ pc[r] = "waiting" /\ lock[at[r]] = s

\* Everyone in the circle waits for one of the circle.
Deadlocked(circle) ==
  \A r \in circle : /\ \E s \in circle : Waits(r, s)
                    /\ \E s \in circle : Waits(s, r)

\* PostgreSQL finds a circle of waits and rolls one transaction back.
Victim(r) ==
  /\ \E s \in Requests : Waits(r, s)
  /\ \E circle \in SUBSET Requests : r \in circle /\ Deadlocked(circle)
  /\ Close(r, "aborted")
  /\ UNCHANGED <<tokens, req, seen, clock>>

\* A lost connection, an exception, a cancelled request or a crash.
Abort(r) ==
  /\ pc[r] \in Running
  /\ Close(r, "aborted")
  /\ UNCHANGED <<tokens, req, seen, clock>>

Tick ==
  /\ clock < MaxTime
  /\ clock' = clock + 1
  /\ UNCHANGED <<tokens, lock, pc, req, tx>>

\* Nothing is left to do: no transaction will run again.
Finished == (\A r \in Requests : pc[r] \in Over) /\ UNCHANGED vars

Arrive(r) ==
  \/ \E u \in Users : BeginLogin(r, u) \/ BeginLogout(r, u)
  \/ \E k \in Requests : BeginRefresh(r, k)

\* The steps that the server and the database take by themselves.
Serve(r) ==
  \/ Issue(r) \/ CommitLogin(r)
  \/ LockToken(r) \/ Accept(r) \/ Reject(r) \/ CommitRefresh(r)
  \/ Snapshot(r) \/ (\E k \in Requests : Reach(r, k)) \/ Take(r) \/ CommitLogout(r)
  \/ Victim(r)

Next ==
  \/ \E r \in Requests : Arrive(r) \/ Serve(r) \/ Abort(r)
  \/ Tick
  \/ Finished

Spec == Init /\ [][Next]_vars

\* The event loop and the database go on with every request they have.
FairSpec == Spec /\ \A r \in Requests : WF_vars(Serve(r))

---------------------------------------------------------------------------
(* Properties *)

Exchanged(k, n) == tokens[n] # None /\ req[n].kind = "refresh" /\ req[n].token = k

\* /auth/refresh rotates: the tokens of a login form one chain.  A token is
\* exchanged for at most one other, it is revoked by then, and the time of its
\* revocation is within its life, however long the refresh waited for the row.
Rotation ==
  \A k, n \in Requests : Exchanged(k, n) =>
    /\ tokens[k] # None
    /\ tokens[k].revoked # None
    /\ tokens[k].revoked <= tokens[k].expires
    /\ tokens[k].user = tokens[n].user
    /\ \A m \in Requests : Exchanged(k, m) => m = n

\* Exchanging tokens never adds to them: a user has no more live tokens than
\* logins, however many refreshes present one token at once or fail half way.
OpenedFor(u) == {k \in Requests : tokens[k] # None /\ tokens[k].user = u /\ req[k].kind = "login"}
LiveOf(u)    == {k \in Requests : Live(k) /\ tokens[k].user = u}

SessionsDoNotMultiply == \A u \in Users : Cardinality(LiveOf(u)) <= Cardinality(OpenedFor(u))

\* Requests never wait for one that is over, nor for each other unseen: while
\* any run, one of them waits for nobody or stands in a circle that PostgreSQL
\* breaks, and such a circle is made of logouts; no refresh is ever its victim.
SomeoneGoesOn ==
  (\E r \in Requests : pc[r] \in Running) =>
    \E r \in Requests :
      /\ pc[r] \in Running
      /\ \/ \A s \in Requests : ~Waits(r, s)
         \/ \E circle \in SUBSET Requests :
              r \in circle /\ Deadlocked(circle) /\ \A s \in circle : req[s].kind = "logout"

\* A logout that has answered has revoked every token it found live, those
\* included whose rows were locked by a refresh that failed or won.
LogoutReaches ==
  \A r \in Requests : pc[r] = "done" /\ req[r].kind = "logout" =>
    \A k \in seen[r] : ~Live(k)

\* A revocation is final: the token is neither revived nor stamped again by
\* a refresh or a logout that had read it before.
RevokedOnce ==
  [][\A k \in Requests :
       tokens[k] # None /\ tokens[k].revoked # None => tokens'[k] = tokens[k]]_vars

StateOf(k)  == IF tokens[k] = None THEN "new" ELSE IF Live(k) THEN "live" ELSE "dead"
UserOf(k)   == IF tokens[k] = None THEN None ELSE tokens[k].user
SourceOf(k) == IF tokens[k] = None THEN None ELSE req[k].token

Sessions == INSTANCE Sessions WITH
  Tokens <- Requests,
  state <- [k \in Requests |-> StateOf(k)],
  user <- [k \in Requests |-> UserOf(k)],
  from <- [k \in Requests |-> SourceOf(k)]

\* However its statements interleave with others, each request is one atomic
\* change of the sessions or none: an exchange ends one token as it gives the
\* next to the same user, and a logout ends tokens of its own user only.
ImplementsSessions == Sessions!Spec

\* Every request that arrives ends, those included that wait in a circle.
RequestsEnd == \A r \in Requests : (pc[r] \in Running) ~> (pc[r] \in Over)

\* README: a logout revokes the refresh tokens of the user globally.  When it
\* has answered, no token stands that was got for one it had found.
LogoutEndsSessions ==
  \A r, n \in Requests : pc[r] = "done" /\ req[r].kind = "logout" =>
    \A k \in seen[r] : Exchanged(k, n) => ~Live(n)
===========================================================================
