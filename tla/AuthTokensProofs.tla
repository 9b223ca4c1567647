-------------------------- MODULE AuthTokensProofs --------------------------
(***************************************************************************)
(* Proofs about AuthTokens, for any requests, users, lifetime and bound.   *)
(***************************************************************************)
EXTENDS AuthTokens, FiniteSetTheorems, TLAPS

---------------------------------------------------------------------------
(* The inductive invariant *)

Revoked(k) == tokens[k] # None /\ tokens[k].revoked # None

\* What a request asks fits where it is; a token presented exists for ever.
AskOK(r) ==
  /\ pc[r] = "idle" <=> req[r] = None
  /\ pc[r] \in {"locking", "checking"} => req[r].kind = "refresh"
  /\ pc[r] \in {"issuing", "committing"} => req[r].kind \in {"login", "refresh"}
  /\ pc[r] \in {"revoking", "scanning", "waiting"} => req[r].kind = "logout"
  /\ req[r] # None /\ req[r].kind = "refresh" =>
       /\ req[r].token # None /\ tokens[req[r].token] # None
       /\ tokens[req[r].token].user = req[r].user

Exchanging(r) == pc[r] \in {"checking", "issuing", "committing"} /\ req[r].kind = "refresh"

\* A refresh that has read a row holds it, and the row is as it was read.
HoldOK(r) ==
  Exchanging(r) =>
    /\ lock[req[r].token] = r
    /\ row[r] = tokens[req[r].token]
    /\ pc[r] # "checking" =>
         row[r].revoked = None /\ stamp[r] \in Nat /\ stamp[r] <= row[r].expires

TimeOK(r) ==
  /\ pc[r] = "committing" => expiry[r] \in Nat
  /\ pc[r] \in {"revoking", "scanning", "waiting"} => stamp[r] \in Nat

\* The locks r may hold: the token it exchanges, or live tokens it revokes.
OwnOK(r) ==
  \A k \in Requests : lock[k] = r =>
    \/ Exchanging(r) /\ k = req[r].token
    \/ pc[r] \in {"scanning", "waiting"} /\ Live(k)

\* Every token a logout has found is still ahead of it, held, or revoked.
ScanOK(r) ==
  /\ pc[r] \in {"scanning", "waiting"} => todo[r] \subseteq seen[r]
  /\ pc[r] = "waiting" => at[r] \in seen[r]
  /\ pc[r] \in {"scanning", "waiting"} => \A k \in seen[r] :
       /\ tokens[k] # None
       /\ \/ k \in todo[r]
          \/ pc[r] = "waiting" /\ k = at[r]
          \/ lock[k] = r
          \/ Revoked(k)
  /\ pc[r] = "done" /\ req[r].kind = "logout" => \A k \in seen[r] : Revoked(k)

\* A token appears with the end of the request that issued it.
TokenOK(k) ==
  tokens[k] # None =>
    pc[k] = "done" /\ req[k].kind \in {"login", "refresh"} /\ tokens[k].user = req[k].user

RequestOK(r) ==
  AskOK(r) /\ HoldOK(r) /\ TimeOK(r) /\ OwnOK(r) /\ ScanOK(r) /\ TokenOK(r)

RequestInv == \A r \in Requests : RequestOK(r)

\* The types, what each request holds and has still to do, and the chains.
IInv ==
  /\ TypeOK
  /\ RequestInv
  /\ Rotation

---------------------------------------------------------------------------
(* Steps *)

\* What a step of r may do to a token: issue its own, or revoke a live one
\* whose row it holds.
MayBecome(r, k) ==
  \/ tokens'[k] = tokens[k]
  \/ k = r /\ tokens[k] = None
  \/ /\ lock[k] = r /\ Live(k)
     /\ \E time \in Nat : tokens'[k] = [tokens[k] EXCEPT !.revoked = time]

\* A step of r leaves what belongs to the other requests alone.
OwnStep(r) ==
  /\ \A s \in Requests \ {r} :
       /\ pc'[s] = pc[s] /\ req'[s] = req[s] /\ row'[s] = row[s]
       /\ stamp'[s] = stamp[s] /\ expiry'[s] = expiry[s]
       /\ seen'[s] = seen[s] /\ todo'[s] = todo[s] /\ at'[s] = at[s]
       /\ \A k \in Requests : lock'[k] = s <=> lock[k] = s
  /\ \A k \in Requests : MayBecome(r, k)

\* A token that has been revoked is still a token, of the same user.
LEMMA TokenFacts ==
  ASSUME TypeOK, NEW k \in Requests, tokens[k] # None
  PROVE  /\ tokens[k] \in Token
         /\ \A time \in Nat :
              /\ [tokens[k] EXCEPT !.revoked = time] \in Token
              /\ [tokens[k] EXCEPT !.revoked = time] # None
              /\ [tokens[k] EXCEPT !.revoked = time].revoked = time
              /\ [tokens[k] EXCEPT !.revoked = time].user = tokens[k].user
              /\ [tokens[k] EXCEPT !.revoked = time].expires = tokens[k].expires
              /\ time # None
<1>1. tokens[k] \in Token
  BY DEF TypeOK
<1>2. ASSUME NEW old \in Token, NEW time \in Nat
      PROVE  /\ [old EXCEPT !.revoked = time] \in Token
             /\ [old EXCEPT !.revoked = time].revoked = time
             /\ [old EXCEPT !.revoked = time].user = old.user
             /\ [old EXCEPT !.revoked = time].expires = old.expires
  BY DEF Token
<1>3. \A token \in Token, time \in Nat : token # None /\ time # None
  BY AuthNone
<1> QED
  BY <1>1, <1>2, <1>3

\* A token is never lost, never changes hands, and stays revoked.
LEMMA TokensLast ==
  ASSUME TypeOK, NEW r \in Requests, NEW k \in Requests, MayBecome(r, k), tokens[k] # None
  PROVE  /\ tokens'[k] # None /\ tokens'[k].user = tokens[k].user
         /\ tokens'[k].expires = tokens[k].expires
         /\ Revoked(k) => tokens'[k] = tokens[k]
         /\ lock[k] # r => tokens'[k] = tokens[k]
<1>1. CASE tokens'[k] = tokens[k]
  BY <1>1
<1>2. CASE tokens'[k] # tokens[k]
  <2>1. lock[k] = r /\ Live(k)
    BY <1>2 DEF MayBecome
  <2>2. PICK time \in Nat : tokens'[k] = [tokens[k] EXCEPT !.revoked = time]
    BY <1>2 DEF MayBecome
  <2>3. /\ [tokens[k] EXCEPT !.revoked = time] # None
        /\ [tokens[k] EXCEPT !.revoked = time].user = tokens[k].user
        /\ [tokens[k] EXCEPT !.revoked = time].expires = tokens[k].expires
    BY TokenFacts
  <2>4. /\ tokens'[k] # None /\ tokens'[k].user = tokens[k].user
        /\ tokens'[k].expires = tokens[k].expires
    BY <2>2, <2>3
  <2> QED
    BY <2>1, <2>4 DEF Live, Revoked
<1> QED
  BY <1>1, <1>2

\* What holds of a request holds of it after a step of another one.
LEMMA OthersKeep ==
  ASSUME IInv, TypeOK', NEW r \in Requests, OwnStep(r), NEW s \in Requests \ {r}
  PROVE  RequestOK(s)'
<1> USE DEF IInv
<1>1. /\ pc'[s] = pc[s] /\ req'[s] = req[s] /\ row'[s] = row[s]
      /\ stamp'[s] = stamp[s] /\ expiry'[s] = expiry[s]
      /\ seen'[s] = seen[s] /\ todo'[s] = todo[s] /\ at'[s] = at[s]
      /\ \A k \in Requests : lock'[k] = s <=> lock[k] = s
      /\ RequestOK(s)
  BY DEF OwnStep, RequestInv
<1>2. \A k \in Requests : tokens[k] # None =>
        /\ tokens'[k] # None /\ tokens'[k].user = tokens[k].user
        /\ Revoked(k) => tokens'[k] = tokens[k]
        /\ lock[k] # r => tokens'[k] = tokens[k]
  BY TokensLast DEF OwnStep
<1>3. req[s] # None => req[s].token \in Requests \cup {None}
  BY DEF TypeOK, Request
<1>4. AskOK(s)'
  BY <1>1, <1>2, <1>3 DEF RequestOK, AskOK
<1>5. HoldOK(s)'
  <2>1. CASE Exchanging(s)
    <3>1. req[s].token \in Requests /\ tokens[req[s].token] # None
      BY <1>1, <1>3, <2>1 DEF RequestOK, AskOK, Exchanging
    <3>2. lock[req[s].token] = s /\ s # r
      BY <1>1, <2>1 DEF RequestOK, HoldOK
    <3>3. tokens'[req[s].token] = tokens[req[s].token]
      BY <1>2, <3>1, <3>2
    <3> QED
      BY <1>1, <2>1, <3>1, <3>3 DEF RequestOK, HoldOK, Exchanging
  <2>2. CASE ~Exchanging(s)
    BY <1>1, <2>2 DEF HoldOK, Exchanging
  <2> QED
    BY <2>1, <2>2
<1>6. TimeOK(s)'
  BY <1>1 DEF RequestOK, TimeOK
<1>7. OwnOK(s)'
  <2>1. ASSUME NEW k \in Requests, lock[k] = s, Live(k) PROVE Live(k)'
    BY <1>2, <2>1 DEF Live
  <2> QED
    BY <1>1, <2>1 DEF RequestOK, OwnOK, Exchanging
<1>8. ScanOK(s)'
  <2>1. seen[s] \subseteq Requests
    BY DEF TypeOK
  <2>2. \A k \in Requests : Revoked(k) => Revoked(k)'
    BY <1>2 DEF Revoked
  <2> QED
    BY <1>1, <1>2, <2>1, <2>2 DEF RequestOK, ScanOK
<1>9. TokenOK(s)'
  <2>1. tokens[s] = None => tokens'[s] = None
    BY DEF OwnStep, MayBecome, Live
  <2> QED
    BY <1>1, <1>2, <2>1 DEF RequestOK, TokenOK
<1> QED
  BY <1>4, <1>5, <1>6, <1>7, <1>8, <1>9 DEF RequestOK

\* A request that is not done has issued no token.
LEMMA NotIssued ==
  ASSUME IInv, NEW r \in Requests, pc[r] # "done"
  PROVE  tokens[r] = None
BY DEF IInv, RequestInv, RequestOK, TokenOK

\* After a step of r that issues and revokes nothing it is enough to look at r.
LEMMA QuietStepKeeps ==
  ASSUME IInv, TypeOK', NEW r \in Requests, pc[r] # "done", UNCHANGED tokens,
         OwnStep(r), RequestOK(r)'
  PROVE  IInv'
<1>1. RequestInv'
  BY OthersKeep DEF RequestInv
<1>2. \A k, n \in Requests : Exchanged(k, n)' => Exchanged(k, n)
  BY NotIssued DEF Exchanged, OwnStep
<1>3. Rotation'
  BY <1>2 DEF IInv, Rotation
<1> QED
  BY <1>1, <1>3 DEF IInv

---------------------------------------------------------------------------
(* Type correctness *)

\* Closing a session keeps the types of the variables it touches.
LEMMA CloseType ==
  ASSUME TypeOK, NEW r \in Requests, NEW how \in Over, Close(r, how)
  PROVE  /\ pc' \in [Requests -> Control]
         /\ lock' \in [Requests -> Requests \cup {None}]
         /\ row' \in [Requests -> Token \cup {None}]
         /\ stamp' \in [Requests -> Nat \cup {None}]
         /\ expiry' \in [Requests -> Nat \cup {None}]
         /\ todo' \in [Requests -> SUBSET Requests]
         /\ at' \in [Requests -> Requests \cup {None}]
BY DEF TypeOK, Close, Goto, Control

\* So does noting what a request asks.
LEMMA AskType ==
  ASSUME TypeOK, NEW r \in Requests, NEW kind \in Kinds, NEW u \in Users,
         NEW k \in Requests \cup {None}, Ask(r, kind, u, k)
  PROVE  req' \in [Requests -> Request \cup {None}]
<1>1. [kind |-> kind, user |-> u, token |-> k] \in Request
  BY DEF Request
<1> QED
  BY <1>1 DEF TypeOK, Ask

\* The first step of a request keeps the types.
LEMMA ArriveType == ASSUME TypeOK, NEW r \in Requests, Arrive(r) PROVE TypeOK'
<1>1. ASSUME NEW u \in Users, BeginLogin(r, u) PROVE TypeOK'
  <2>1. req' \in [Requests -> Request \cup {None}]
    BY <1>1, AskType DEF BeginLogin, Kinds
  <2> QED
    BY <1>1, <2>1 DEF BeginLogin, TypeOK, Goto, Control, Running, tx
<1>2. ASSUME NEW u \in Users, BeginLogout(r, u) PROVE TypeOK'
  <2>1. req' \in [Requests -> Request \cup {None}]
    BY <1>2, AskType DEF BeginLogout, Kinds
  <2> QED
    BY <1>2, <2>1 DEF BeginLogout, TypeOK, Goto, Control, Running
<1>3. ASSUME NEW k \in Requests, BeginRefresh(r, k) PROVE TypeOK'
  <2>1. tokens[k].user \in Users
    BY <1>3, TokenFacts DEF BeginRefresh, Token
  <2>2. req' \in [Requests -> Request \cup {None}]
    BY <1>3, <2>1, AskType DEF BeginRefresh, Kinds
  <2> QED
    BY <1>3, <2>2 DEF BeginRefresh, TypeOK, Goto, Control, Running, tx
<1> QED
  BY <1>1, <1>2, <1>3 DEF Arrive

\* The token that a running request is about to add.
LEMMA IssuedType ==
  ASSUME IInv, NEW r \in Requests, pc[r] = "committing"
  PROVE  Issued(r) \in Token /\ Issued(r) # None /\ Issued(r).revoked = None
<1>1. req[r] \in Request /\ expiry[r] \in Nat
  BY DEF IInv, TypeOK, RequestInv, RequestOK, AskOK, TimeOK
<1>2. Issued(r) \in Token
  BY <1>1 DEF Issued, Request, Token
<1> QED
  BY <1>2, AuthNone DEF Issued

\* So does every later step of the server.
LEMMA ServeType == ASSUME IInv, NEW r \in Requests, Serve(r) PROVE TypeOK'
<1> USE DEF IInv
<1>1. CASE Issue(r)
  <2>1. clock + Lifetime \in Nat
    BY AuthAssumption DEF TypeOK
  <2> QED
    BY <1>1, <2>1 DEF Issue, TypeOK, Goto, Control, Running
<1>2. CASE CommitLogin(r)
  <2>1. tokens' \in [Requests -> Token \cup {None}]
    BY <1>2, IssuedType DEF CommitLogin, TypeOK
  <2> QED
    BY <1>2, <2>1, CloseType DEF CommitLogin, TypeOK, Over
<1>3. CASE LockToken(r)
  <2>1. req[r].token \in Requests
    BY <1>3 DEF LockToken, TypeOK, Request, RequestInv, RequestOK, AskOK
  <2> QED
    BY <1>3, <2>1 DEF LockToken, TypeOK, Goto, Control, Running
<1>4. CASE Accept(r)
  BY <1>4 DEF Accept, TypeOK, Goto, Control, Running
<1>5. CASE Reject(r)
  BY <1>5, CloseType DEF Reject, TypeOK, Over
<1>6. CASE CommitRefresh(r)
  <2>1. /\ req[r].token \in Requests /\ stamp[r] \in Nat
        /\ tokens[req[r].token] # None
    BY <1>6 DEF CommitRefresh, TypeOK, Request, RequestInv, RequestOK, AskOK, HoldOK, Exchanging
  <2>2. [tokens[req[r].token] EXCEPT !.revoked = stamp[r]] \in Token
    BY <2>1, TokenFacts
  <2>3. tokens' \in [Requests -> Token \cup {None}]
    BY <1>6, <2>1, <2>2, IssuedType DEF CommitRefresh, TypeOK
  <2> QED
    BY <1>6, <2>3, CloseType DEF CommitRefresh, TypeOK, Over
<1>7. CASE Snapshot(r)
  BY <1>7 DEF Snapshot, TypeOK, Goto, Control, Running
<1>8. ASSUME NEW k \in Requests, Reach(r, k) PROVE TypeOK'
  BY <1>8 DEF Reach, TypeOK, Goto, Control, Running
<1>9. CASE Take(r)
  BY <1>9 DEF Take, TypeOK, Goto, Control, Running
<1>10. CASE CommitLogout(r)
  <2>1. ASSUME NEW k \in Requests, lock[k] = r
        PROVE  [tokens[k] EXCEPT !.revoked = stamp[r]] \in Token
    <3>1. tokens[k] # None /\ stamp[r] \in Nat
      BY <1>10, <2>1 DEF CommitLogout, RequestInv, RequestOK, OwnOK, TimeOK, Exchanging, Live
    <3> QED
      BY <3>1, TokenFacts
  <2>2. tokens' \in [Requests -> Token \cup {None}]
    BY <1>10, <2>1 DEF CommitLogout, TypeOK
  <2> QED
    BY <1>10, <2>2, CloseType DEF CommitLogout, TypeOK, Over
<1>11. CASE Victim(r)
  BY <1>11, CloseType DEF Victim, TypeOK, Over
<1> QED
  BY <1>1, <1>2, <1>3, <1>4, <1>5, <1>6, <1>7, <1>8, <1>9, <1>10, <1>11 DEF Serve

\* And so does every step of the system.
LEMMA NextType == ASSUME IInv, [Next]_vars PROVE TypeOK'
<1>1. ASSUME NEW r \in Requests, Abort(r) PROVE TypeOK'
  BY <1>1, CloseType DEF Abort, TypeOK, Over, IInv
<1>2. CASE Tick
  BY <1>2 DEF Tick, TypeOK, IInv, tx
<1>3. CASE UNCHANGED vars
  BY <1>3 DEF vars, tx, TypeOK, IInv
<1> QED
  BY <1>1, <1>2, <1>3, ArriveType, ServeType DEF Next, Finished, IInv

---------------------------------------------------------------------------
(* Each action keeps the invariant *)

\* The end of a transaction that wrote nothing: a rejected or aborted one.
LEMMA CloseKeeps ==
  ASSUME IInv, TypeOK', NEW r \in Requests, NEW how \in Over, Close(r, how),
         pc[r] \in Running,
         how = "done" => req[r].kind # "logout",
         UNCHANGED <<tokens, req, seen>>
  PROVE  IInv'
<1> USE DEF IInv
<1>1. OwnStep(r)
  BY AuthNone DEF OwnStep, MayBecome, Close, Goto, TypeOK
<1>2. /\ pc'[r] = how /\ req'[r] = req[r] /\ \A k \in Requests : lock'[k] # r
      /\ pc[r] # "done" /\ pc[r] # "idle" /\ RequestOK(r)
  BY AuthNone DEF Close, Goto, TypeOK, RequestInv, Running
<1>3. req[r] # None => req[r].token \in Requests \cup {None}
  BY DEF TypeOK, Request
<1>4. AskOK(r)' /\ HoldOK(r)' /\ TimeOK(r)' /\ OwnOK(r)' /\ ScanOK(r)'
  BY <1>2, <1>3 DEF RequestOK, AskOK, HoldOK, TimeOK, OwnOK, ScanOK, Exchanging, Over
<1>5. TokenOK(r)'
  BY <1>2, NotIssued DEF TokenOK
<1> QED
  BY <1>1, <1>2, <1>4, <1>5, QuietStepKeeps DEF RequestOK

\* A request that arrives holds nothing yet.
LEMMA ArriveKeeps == ASSUME IInv, TypeOK', NEW r \in Requests, Arrive(r) PROVE IInv'
<1> USE DEF IInv
<1>1. ASSUME NEW kind \in Kinds, NEW u \in Users, NEW k \in Requests \cup {None},
             NEW to \in {"issuing", "locking", "revoking"},
             Ask(r, kind, u, k), Goto(r, to),
             to = "issuing" => kind = "login",
             to = "revoking" => kind = "logout" /\ stamp'[r] \in Nat,
             to = "locking" => kind = "refresh",
             kind = "refresh" => k # None /\ tokens[k] # None /\ tokens[k].user = u,
             \A s \in Requests \ {r} : stamp'[s] = stamp[s],
             UNCHANGED <<tokens, lock, row, expiry, seen, todo, at>>
      PROVE  IInv'
  <2>1. OwnStep(r)
    BY <1>1 DEF OwnStep, MayBecome, Ask, Goto, TypeOK
  <2>2. [kind |-> kind, user |-> u, token |-> k] \in Request
    BY DEF Request
  <2>3. /\ pc[r] = "idle" /\ pc'[r] = to
        /\ req'[r] = [kind |-> kind, user |-> u, token |-> k] /\ req'[r] # None
    BY <1>1, <2>2, AuthNone DEF Ask, Goto, TypeOK
  <2>4. RequestOK(r) /\ tokens[r] = None
    BY <2>3, NotIssued DEF RequestInv
  <2>5. AskOK(r)'
    BY <1>1, <2>3 DEF AskOK
  <2>6. HoldOK(r)' /\ TimeOK(r)' /\ OwnOK(r)' /\ ScanOK(r)' /\ TokenOK(r)'
    BY <1>1, <2>3, <2>4 DEF RequestOK, HoldOK, TimeOK, OwnOK, ScanOK, TokenOK, Exchanging
  <2> QED
    BY <1>1, <2>1, <2>3, <2>5, <2>6, QuietStepKeeps DEF RequestOK
<1>2. ASSUME NEW u \in Users, BeginLogin(r, u) PROVE IInv'
  BY <1>1, <1>2 DEF BeginLogin, Kinds, tx
<1>3. ASSUME NEW u \in Users, BeginLogout(r, u) PROVE IInv'
  <2>1. stamp'[r] \in Nat /\ \A s \in Requests \ {r} : stamp'[s] = stamp[s]
    BY <1>3 DEF BeginLogout, TypeOK
  <2> QED
    BY <1>1, <1>3, <2>1 DEF BeginLogout, Kinds
<1>4. ASSUME NEW k \in Requests, BeginRefresh(r, k) PROVE IInv'
  <2>1. tokens[k].user \in Users
    BY <1>4, TokenFacts DEF BeginRefresh, Token
  <2>2. k # None
    BY AuthNone
  <2> QED
    BY <1>1, <1>4, <2>1, <2>2 DEF BeginRefresh, Kinds, tx
<1> QED
  BY <1>2, <1>3, <1>4 DEF Arrive

\* What a step in the middle of a request has to show.
LEMMA WorkKeeps ==
  ASSUME IInv, TypeOK', NEW r \in Requests, NEW to \in Running,
         pc[r] \in Running, Goto(r, to), OwnStep(r), UNCHANGED <<tokens, req>>,
         AskOK(r)', HoldOK(r)', TimeOK(r)', OwnOK(r)', ScanOK(r)'
  PROVE  IInv'
<1>1. pc[r] # "done" /\ tokens[r] = None
  BY NotIssued DEF Running
<1> QED
  BY <1>1, QuietStepKeeps DEF RequestOK, TokenOK

\* The steps of the server between arrival and commit keep the invariant.
LEMMA ServeKeeps ==
  ASSUME IInv, TypeOK', NEW r \in Requests,
         \/ Issue(r) \/ LockToken(r) \/ Accept(r) \/ Reject(r)
         \/ Snapshot(r) \/ (\E k \in Requests : Reach(r, k)) \/ Take(r) \/ Victim(r)
  PROVE  IInv'
<1> USE DEF IInv
<1>0. /\ RequestOK(r) /\ clock \in Nat /\ seen[r] \subseteq Requests
      /\ at[r] \in Requests \cup {None}
      /\ req[r] # None => req[r] \in Request /\ req[r].token \in Requests \cup {None}
  BY DEF RequestInv, TypeOK, Request
<1>1. CASE Issue(r)
  <2>1. OwnStep(r)
    BY <1>1 DEF Issue, OwnStep, MayBecome, Goto, TypeOK
  <2>2. pc[r] = "issuing" /\ pc'[r] = "committing" /\ expiry'[r] \in Nat
    BY <1>1, AuthAssumption DEF Issue, Goto, TypeOK
  <2>3. AskOK(r)' /\ HoldOK(r)' /\ TimeOK(r)' /\ OwnOK(r)' /\ ScanOK(r)'
    BY <1>0, <1>1, <2>2
    DEF Issue, RequestOK, AskOK, HoldOK, TimeOK, OwnOK, ScanOK, Exchanging
  <2> QED
    BY <1>1, <2>1, <2>2, <2>3, WorkKeeps DEF Issue, Running
<1>2. CASE LockToken(r)
  <2> DEFINE k == req[r].token
  <2>1. /\ pc[r] = "locking" /\ pc'[r] = "checking"
        /\ req[r].kind = "refresh" /\ k \in Requests /\ tokens[k] # None
    BY <1>0, <1>2 DEF LockToken, Goto, TypeOK, RequestOK, AskOK
  <2>2. OwnStep(r)
    BY <1>2, <2>1, AuthNone DEF LockToken, OwnStep, MayBecome, Goto, TypeOK
  <2>3. AskOK(r)' /\ TimeOK(r)' /\ ScanOK(r)'
    BY <1>0, <1>2, <2>1 DEF LockToken, RequestOK, AskOK, TimeOK, ScanOK
  <2>4. lock'[k] = r /\ row'[r] = tokens[k]
    BY <1>2, <2>1 DEF LockToken, TypeOK
  <2>5. HoldOK(r)'
    BY <1>2, <2>1, <2>4 DEF LockToken, HoldOK, Exchanging
  <2>6. OwnOK(r)'
    <3>1. ASSUME NEW j \in Requests, lock'[j] = r, j # k PROVE FALSE
      BY <1>0, <1>2, <2>1, <3>1 DEF LockToken, RequestOK, OwnOK, Exchanging, TypeOK
    <3> QED
      BY <1>2, <2>1, <3>1 DEF LockToken, OwnOK, Exchanging
  <2> QED
    BY <1>2, <2>1, <2>2, <2>3, <2>5, <2>6, WorkKeeps DEF LockToken, Running
<1>3. CASE Accept(r)
  <2>1. OwnStep(r)
    BY <1>3 DEF Accept, OwnStep, MayBecome, Goto, TypeOK
  <2>2. /\ pc[r] = "checking" /\ pc'[r] = "issuing" /\ stamp'[r] = clock
        /\ row[r].revoked = None /\ clock <= row[r].expires
    BY <1>3 DEF Accept, Usable, Goto, TypeOK
  <2>3. AskOK(r)' /\ HoldOK(r)' /\ TimeOK(r)' /\ OwnOK(r)' /\ ScanOK(r)'
    BY <1>0, <1>3, <2>2
    DEF Accept, RequestOK, AskOK, HoldOK, TimeOK, OwnOK, ScanOK, Exchanging
  <2> QED
    BY <1>3, <2>1, <2>2, <2>3, WorkKeeps DEF Accept, Running
<1>4. CASE Reject(r)
  BY <1>0, <1>4, CloseKeeps DEF Reject, Running, Over, RequestOK, AskOK
<1>5. CASE Snapshot(r)
  <2>1. OwnStep(r)
    BY <1>5 DEF Snapshot, OwnStep, MayBecome, Goto, TypeOK
  <2>2. /\ pc[r] = "revoking" /\ pc'[r] = "scanning" /\ todo'[r] = seen'[r]
        /\ \A k \in seen'[r] : tokens[k] # None
    BY <1>5 DEF Snapshot, Live, Goto, TypeOK
  <2>3. AskOK(r)' /\ HoldOK(r)' /\ TimeOK(r)' /\ OwnOK(r)' /\ ScanOK(r)'
    BY <1>0, <1>5, <2>2
    DEF Snapshot, RequestOK, AskOK, HoldOK, TimeOK, OwnOK, ScanOK, Exchanging
  <2> QED
    BY <1>5, <2>1, <2>2, <2>3, WorkKeeps DEF Snapshot, Running
<1>6. ASSUME NEW k \in Requests, Reach(r, k) PROVE IInv'
  <2>1. OwnStep(r)
    BY <1>6 DEF Reach, OwnStep, MayBecome, Goto, TypeOK
  <2>2. /\ pc[r] = "scanning" /\ pc'[r] = "waiting" /\ k \in todo[r]
        /\ todo'[r] = todo[r] \ {k} /\ at'[r] = k
    BY <1>6 DEF Reach, Goto, TypeOK
  <2>3. AskOK(r)' /\ HoldOK(r)' /\ TimeOK(r)' /\ OwnOK(r)'
    BY <1>0, <1>6, <2>2
    DEF Reach, RequestOK, AskOK, HoldOK, TimeOK, OwnOK, Exchanging, Live
  <2>4. ScanOK(r)'
    BY <1>0, <1>6, <2>2 DEF Reach, RequestOK, ScanOK, Revoked
  <2> QED
    BY <1>6, <2>1, <2>2, <2>3, <2>4, WorkKeeps DEF Reach, Running
<1>7. CASE Take(r)
  <2> DEFINE k == at[r]
  <2>1. /\ pc[r] = "waiting" /\ pc'[r] = "scanning" /\ k \in seen[r] /\ k \in Requests
        /\ lock[k] = None /\ tokens[k] # None /\ at'[r] = None
    BY <1>0, <1>7 DEF Take, RequestOK, ScanOK, Goto, TypeOK
  <2>2. OwnStep(r)
    BY <1>7, <2>1, AuthNone DEF Take, OwnStep, MayBecome, Goto, TypeOK
  <2>3. AskOK(r)' /\ HoldOK(r)' /\ TimeOK(r)'
    BY <1>0, <1>7, <2>1 DEF Take, RequestOK, AskOK, HoldOK, TimeOK, Exchanging
  <2>4. \A j \in Requests : lock'[j] = r <=> lock[j] = r \/ (j = k /\ Live(k))
    BY <1>7, <2>1, AuthNone DEF Take, TypeOK
  <2>5. OwnOK(r)'
    BY <1>0, <1>7, <2>1, <2>4 DEF Take, RequestOK, OwnOK, Exchanging, Live
  <2>6. ScanOK(r)'
    BY <1>0, <1>7, <2>1, <2>4 DEF Take, RequestOK, ScanOK, Live, Revoked
  <2> QED
    BY <1>7, <2>1, <2>2, <2>3, <2>5, <2>6, WorkKeeps DEF Take, Running
<1>8. CASE Victim(r)
  BY <1>8, CloseKeeps DEF Victim, Waits, Running, Over
<1> QED
  BY <1>1, <1>2, <1>3, <1>4, <1>5, <1>6, <1>7, <1>8

\* After a commit the request owns nothing, and its answer is kept.
LEMMA CommitFrame ==
  ASSUME IInv, TypeOK', NEW r \in Requests, Close(r, "done"),
         UNCHANGED <<req, seen>>, \A k \in Requests : MayBecome(r, k)
  PROVE  /\ OwnStep(r)
         /\ pc'[r] = "done" /\ req'[r] = req[r]
         /\ HoldOK(r)' /\ TimeOK(r)' /\ OwnOK(r)'
         /\ pc[r] # "idle" /\ AskOK(r) => AskOK(r)'
<1> USE DEF IInv
<1>1. OwnStep(r) /\ pc'[r] = "done" /\ \A k \in Requests : lock'[k] # r
  BY AuthNone DEF OwnStep, Close, Goto, TypeOK
<1>2. HoldOK(r)' /\ TimeOK(r)' /\ OwnOK(r)'
  BY <1>1 DEF HoldOK, TimeOK, OwnOK, Exchanging
<1>3. ASSUME pc[r] # "idle", AskOK(r) PROVE AskOK(r)'
  <2>1. req[r] # None => req[r].token \in Requests \cup {None}
    BY DEF TypeOK, Request
  <2>2. \A k \in Requests : tokens[k] # None =>
          tokens'[k] # None /\ tokens'[k].user = tokens[k].user
    BY TokensLast
  <2> QED
    BY <1>1, <1>3, <2>1, <2>2 DEF AskOK
<1> QED
  BY <1>1, <1>2, <1>3

\* The commit of a login starts a chain.
LEMMA CommitLoginKeeps ==
  ASSUME IInv, TypeOK', NEW r \in Requests, CommitLogin(r)
  PROVE  IInv' /\ \A k \in Requests : MayBecome(r, k)
<1> USE DEF IInv
<1>1. /\ pc[r] = "committing" /\ req[r].kind = "login" /\ tokens[r] = None
      /\ tokens' = [tokens EXCEPT ![r] = Issued(r)] /\ RequestOK(r) /\ req[r] # None
  BY NotIssued DEF CommitLogin, RequestInv, RequestOK, AskOK
<1>2. /\ tokens'[r] = Issued(r) /\ tokens'[r].user = req[r].user
      /\ \A k \in Requests \ {r} : tokens'[k] = tokens[k]
  BY <1>1 DEF TypeOK, Issued
<1>3. \A k \in Requests : MayBecome(r, k)
  BY <1>1, <1>2 DEF MayBecome
<1>4. /\ OwnStep(r) /\ pc'[r] = "done" /\ req'[r] = req[r]
      /\ HoldOK(r)' /\ TimeOK(r)' /\ OwnOK(r)' /\ AskOK(r)'
  BY <1>1, <1>3, CommitFrame DEF CommitLogin, RequestOK
<1>5. ScanOK(r)' /\ TokenOK(r)'
  BY <1>1, <1>2, <1>4 DEF ScanOK, TokenOK
<1>6. RequestInv'
  BY <1>4, <1>5, OthersKeep DEF RequestInv, RequestOK
<1>7. ASSUME NEW k \in Requests, NEW n \in Requests, Exchanged(k, n)'
      PROVE  Exchanged(k, n) /\ k # r
  <2>1. Exchanged(k, n)
    BY <1>1, <1>2, <1>4, <1>7 DEF Exchanged, OwnStep
  <2> QED
    BY <1>1, <2>1 DEF Rotation
<1>8. Rotation'
  <2>1. ASSUME NEW k \in Requests, NEW n \in Requests, Exchanged(k, n)'
        PROVE  /\ tokens'[k] = tokens[k] /\ tokens'[n] = tokens[n]
               /\ \A m \in Requests : Exchanged(k, m)' => m = n
    <3>1. n # r
      BY <1>1, <1>7, <2>1 DEF Exchanged
    <3> QED
      BY <1>2, <1>7, <2>1, <3>1 DEF Rotation
  <2> QED
    BY <1>7, <2>1 DEF Rotation
<1> QED
  BY <1>3, <1>6, <1>8

\* The commit of a refresh extends a chain at its live end.
LEMMA CommitRefreshKeeps ==
  ASSUME IInv, TypeOK', NEW r \in Requests, CommitRefresh(r)
  PROVE  IInv' /\ \A k \in Requests : MayBecome(r, k)
<1> USE DEF IInv
<1> DEFINE p == req[r].token
           time == stamp[r]
<1>1. /\ pc[r] = "committing" /\ req[r].kind = "refresh" /\ tokens[r] = None
      /\ RequestOK(r) /\ req[r] # None /\ p \in Requests
      /\ tokens[p] # None /\ tokens[p].user = req[r].user /\ p # r
  BY NotIssued DEF CommitRefresh, RequestInv, RequestOK, AskOK, TypeOK, Request
<1>2. /\ lock[p] = r /\ tokens[p].revoked = None
      /\ time \in Nat /\ time <= tokens[p].expires
  BY <1>1 DEF RequestOK, HoldOK, Exchanging
<1>3. /\ tokens'[r] = Issued(r) /\ tokens'[p] = [tokens[p] EXCEPT !.revoked = time]
      /\ \A k \in Requests \ {r, p} : tokens'[k] = tokens[k]
  BY <1>1 DEF CommitRefresh, TypeOK
<1>4. /\ tokens'[r].user = req[r].user /\ tokens'[r].revoked = None /\ tokens'[r] # None
  BY <1>1, <1>3, IssuedType DEF Issued
<1>5. /\ [tokens[p] EXCEPT !.revoked = time] # None
      /\ [tokens[p] EXCEPT !.revoked = time].revoked = time
      /\ [tokens[p] EXCEPT !.revoked = time].user = tokens[p].user
      /\ [tokens[p] EXCEPT !.revoked = time].expires = tokens[p].expires
      /\ time # None
  BY <1>1, <1>2, TokenFacts
<1>6. /\ tokens'[p] # None /\ tokens'[p].revoked = time /\ time # None
      /\ tokens'[p].user = tokens[p].user /\ tokens'[p].expires = tokens[p].expires
  BY <1>3, <1>5
<1>7. \A k \in Requests : MayBecome(r, k)
  <2>1. MayBecome(r, r)
    BY <1>1 DEF MayBecome
  <2>2. MayBecome(r, p)
    BY <1>1, <1>2, <1>3 DEF MayBecome, Live
  <2>3. \A k \in Requests \ {r, p} : MayBecome(r, k)
    BY <1>3 DEF MayBecome
  <2> QED
    BY <2>1, <2>2, <2>3
<1>8. /\ OwnStep(r) /\ pc'[r] = "done" /\ req'[r] = req[r]
      /\ HoldOK(r)' /\ TimeOK(r)' /\ OwnOK(r)' /\ AskOK(r)'
  BY <1>1, <1>7, CommitFrame DEF CommitRefresh, RequestOK
<1>9. ScanOK(r)' /\ TokenOK(r)'
  BY <1>1, <1>4, <1>8 DEF ScanOK, TokenOK
<1>10. RequestInv'
  BY <1>8, <1>9, OthersKeep DEF RequestInv, RequestOK
<1>11. ASSUME NEW k \in Requests, NEW n \in Requests, Exchanged(k, n)'
       PROVE  (n = r /\ k = p) \/ (n # r /\ k # p /\ k # r /\ Exchanged(k, n))
  <2>1. CASE n = r
    BY <1>8, <1>11, <2>1 DEF Exchanged
  <2>2. CASE n # r
    <3>1. tokens[n] # None
      BY <1>1, <1>3, <1>11, <2>2 DEF Exchanged
    <3>2. Exchanged(k, n)
      BY <1>8, <1>11, <2>2, <3>1 DEF Exchanged, OwnStep
    <3>3. k # p /\ k # r
      BY <1>1, <1>2, <3>2 DEF Rotation
    <3> QED
      BY <2>2, <3>2, <3>3
  <2> QED
    BY <2>1, <2>2
<1>12. Rotation'
  <2>1. ASSUME NEW k \in Requests, NEW n \in Requests, Exchanged(k, n)'
        PROVE  /\ tokens'[k] # None /\ tokens'[k].revoked # None
               /\ tokens'[k].revoked <= tokens'[k].expires
               /\ tokens'[k].user = tokens'[n].user
               /\ \A m \in Requests : Exchanged(k, m)' => m = n
    <3>1. CASE n = r /\ k = p
      <4>1. \A m \in Requests : Exchanged(k, m)' => m = n
        BY <1>11, <3>1
      <4> QED
        BY <1>1, <1>2, <1>4, <1>6, <3>1, <4>1
    <3>2. CASE n # r /\ k # p /\ k # r /\ Exchanged(k, n)
      <4>1. tokens'[k] = tokens[k]
        BY <1>3, <3>2
      <4>2. tokens'[n] # None /\ tokens'[n].user = tokens[n].user
        BY <1>3, <1>6, <3>2 DEF Exchanged
      <4>3. \A m \in Requests : Exchanged(k, m)' => m = n
        BY <1>11, <3>2 DEF Rotation
      <4> QED
        BY <3>2, <4>1, <4>2, <4>3 DEF Rotation
    <3> QED
      BY <1>11, <2>1, <3>1, <3>2
  <2> QED
    BY <2>1 DEF Rotation
<1> QED
  BY <1>7, <1>10, <1>12

\* The commit of a logout revokes live tokens, so none of them was exchanged.
LEMMA CommitLogoutKeeps ==
  ASSUME IInv, TypeOK', NEW r \in Requests, CommitLogout(r)
  PROVE  IInv' /\ \A k \in Requests : MayBecome(r, k)
<1> USE DEF IInv
<1>1. /\ pc[r] = "scanning" /\ todo[r] = {} /\ RequestOK(r) /\ stamp[r] \in Nat
      /\ req[r].kind = "logout" /\ tokens[r] = None /\ seen[r] \subseteq Requests
  BY NotIssued DEF CommitLogout, RequestInv, RequestOK, AskOK, TimeOK, TypeOK
<1>2. ASSUME NEW k \in Requests, lock[k] = r
      PROVE  /\ Live(k) /\ tokens'[k] = [tokens[k] EXCEPT !.revoked = stamp[r]]
             /\ Revoked(k)'
  <2>1. Live(k) /\ tokens'[k] = [tokens[k] EXCEPT !.revoked = stamp[r]]
    BY <1>1, <1>2 DEF CommitLogout, RequestOK, OwnOK, Exchanging
  <2>2. /\ [tokens[k] EXCEPT !.revoked = stamp[r]] # None
        /\ [tokens[k] EXCEPT !.revoked = stamp[r]].revoked = stamp[r]
        /\ stamp[r] # None
    BY <1>1, <2>1, TokenFacts DEF Live
  <2> QED
    BY <2>1, <2>2 DEF Revoked
<1>3. \A k \in Requests : lock[k] # r => tokens'[k] = tokens[k]
  BY DEF CommitLogout
<1>4. \A k \in Requests : MayBecome(r, k)
  BY <1>1, <1>2, <1>3 DEF MayBecome
<1>5. /\ OwnStep(r) /\ pc'[r] = "done" /\ req'[r] = req[r] /\ seen'[r] = seen[r]
      /\ HoldOK(r)' /\ TimeOK(r)' /\ OwnOK(r)' /\ AskOK(r)'
  BY <1>1, <1>4, CommitFrame DEF CommitLogout, RequestOK
<1>6. ASSUME NEW k \in seen[r] PROVE Revoked(k)'
  <2>1. lock[k] = r \/ Revoked(k)
    BY <1>1, <1>6 DEF RequestOK, ScanOK
  <2> QED
    BY <1>1, <1>2, <1>3, <2>1 DEF Revoked
<1>7. ScanOK(r)'
  BY <1>1, <1>5, <1>6 DEF ScanOK
<1>8. lock[r] # r
  BY <1>1, <1>2 DEF Live
<1>9. TokenOK(r)'
  BY <1>1, <1>3, <1>8 DEF TokenOK
<1>10. RequestInv'
  BY <1>5, <1>7, <1>9, OthersKeep DEF RequestInv, RequestOK
<1>11. ASSUME NEW n \in Requests, tokens'[n] # None
       PROVE  tokens[n] # None /\ tokens'[n].user = tokens[n].user
  <2>1. tokens[n] # None
    BY <1>2, <1>3, <1>11 DEF Live
  <2> QED
    BY <1>4, <2>1, TokensLast
<1>12. \A k, n \in Requests : Exchanged(k, n)' => Exchanged(k, n)
  BY <1>11 DEF Exchanged, CommitLogout
<1>13. ASSUME NEW k \in Requests, NEW n \in Requests, Exchanged(k, n)
       PROVE  tokens'[k] = tokens[k]
  BY <1>2, <1>3, <1>13 DEF Rotation, Live
<1>14. Rotation'
  <2>1. ASSUME NEW k \in Requests, NEW n \in Requests, Exchanged(k, n)'
        PROVE  /\ Exchanged(k, n) /\ tokens'[k] = tokens[k]
               /\ tokens'[n].user = tokens[n].user
               /\ \A m \in Requests : Exchanged(k, m)' => m = n
    <3>1. Exchanged(k, n) /\ tokens'[n] # None
      BY <1>12, <2>1 DEF Exchanged
    <3> QED
      BY <1>11, <1>12, <1>13, <3>1 DEF Rotation
  <2> QED
    BY <2>1 DEF Rotation
<1> QED
  BY <1>4, <1>10, <1>14

---------------------------------------------------------------------------
(* The invariant holds *)

\* The invariant holds before the first request.
LEMMA InitIInv == Init => IInv
BY AuthNone
   DEF Init, IInv, TypeOK, Control, RequestInv, RequestOK, AskOK, HoldOK, TimeOK, OwnOK,
       ScanOK, TokenOK, Exchanging, Rotation, Exchanged

\* Time passes.
LEMMA StillKeeps ==
  ASSUME IInv, TypeOK', UNCHANGED <<tokens, lock, pc, req, tx>>
  PROVE  IInv'
<1>1. RequestInv'
  BY DEF IInv, RequestInv, RequestOK, AskOK, HoldOK, TimeOK, OwnOK, ScanOK, TokenOK,
         Exchanging, Live, Revoked, tx
<1>2. Rotation'
  BY DEF IInv, Rotation, Exchanged
<1> QED
  BY <1>1, <1>2 DEF IInv

\* Every step of the system keeps the invariant.
LEMMA NextIInv == IInv /\ [Next]_vars => IInv'
<1> SUFFICES ASSUME IInv, [Next]_vars PROVE IInv'
  OBVIOUS
<1>0. TypeOK'
  BY NextType
<1>1. ASSUME NEW r \in Requests, Arrive(r) PROVE IInv'
  BY <1>0, <1>1, ArriveKeeps
<1>2. ASSUME NEW r \in Requests, Serve(r) PROVE IInv'
  BY <1>0, <1>2, ServeKeeps, CommitLoginKeeps, CommitRefreshKeeps, CommitLogoutKeeps DEF Serve
<1>3. ASSUME NEW r \in Requests, Abort(r) PROVE IInv'
  BY <1>0, <1>3, CloseKeeps DEF Abort, Over
<1>4. CASE Tick
  BY <1>0, <1>4, StillKeeps DEF Tick
<1>5. CASE UNCHANGED vars
  BY <1>0, <1>5, StillKeeps DEF vars
<1> QED
  BY <1>1, <1>2, <1>3, <1>4, <1>5 DEF Next, Finished

\* Every reachable state satisfies the invariant: a lock is held by the refresh
\* that exchanges the token or by a logout that has seen it live, and a logout
\* has each of its tokens ahead of it, locked, or revoked.
THEOREM Inductive == Spec => []IInv
BY InitIInv, NextIInv, PTL DEF Spec

\* Every variable keeps its type: a token always has a user, an expiry and a
\* revocation that is NULL or a time.
THEOREM TypeCorrect == Spec => []TypeOK
<1>1. IInv => TypeOK
  BY DEF IInv
<1> QED
  BY <1>1, Inductive, PTL

\* A token is exchanged at most once, within its life, and is revoked by the
\* commit that shows the next one, whatever requests run at the same time.
THEOREM RotationIsExclusive == Spec => []Rotation
<1>1. IInv => Rotation
  BY DEF IInv
<1> QED
  BY <1>1, Inductive, PTL

\* A logout that answers has left none of the tokens it found live.
THEOREM LogoutIsComplete == Spec => []LogoutReaches
<1>1. IInv => LogoutReaches
  BY DEF IInv, RequestInv, RequestOK, ScanOK, LogoutReaches, Revoked, Live
<1> QED
  BY <1>1, Inductive, PTL

\* No step of any request changes a token that has been revoked.
THEOREM RevocationIsFinal == Spec => RevokedOnce
<1>1. ASSUME IInv, [Next]_vars, NEW k \in Requests, Revoked(k)
      PROVE  tokens'[k] = tokens[k]
  <2>0. TypeOK /\ TypeOK' /\ tokens[k] # None
    BY <1>1, NextType DEF IInv, Revoked
  <2>1. ASSUME NEW r \in Requests, Serve(r) PROVE tokens'[k] = tokens[k]
    <3>1. MayBecome(r, k)
      BY <1>1, <2>0, <2>1, CommitLoginKeeps, CommitRefreshKeeps, CommitLogoutKeeps
      DEF Serve, MayBecome, Issue, LockToken, Accept, Reject, Snapshot, Reach, Take, Victim
    <3> QED
      BY <1>1, <2>0, <3>1, TokensLast
  <2>2. ASSUME NEW r \in Requests, Arrive(r) \/ Abort(r) PROVE tokens'[k] = tokens[k]
    BY <2>2 DEF Arrive, BeginLogin, BeginLogout, BeginRefresh, Abort
  <2> QED
    BY <1>1, <2>1, <2>2 DEF Next, Tick, Finished, vars
<1>2. IInv /\ [Next]_vars =>
        [\A k \in Requests :
           tokens[k] # None /\ tokens[k].revoked # None => tokens'[k] = tokens[k]]_vars
  BY <1>1 DEF Revoked
<1> QED
  BY <1>2, Inductive, PTL DEF Spec, RevokedOnce

---------------------------------------------------------------------------
(* AuthTokens implements Sessions *)

\* What the sessions rest on besides IInv: a logout finds and locks tokens of
\* its own user only, and a login presents none.
SessionInv ==
  \A r \in Requests :
    /\ pc[r] \in {"scanning", "waiting"} => \A k \in Requests :
         /\ k \in seen[r] => tokens[k] # None /\ tokens[k].user = req[r].user
         /\ lock[k] = r => k \in seen[r]
    /\ req[r] # None /\ req[r].kind = "login" => req[r].token = None

\* The steps that issue and revoke nothing.
Quiet(r) ==
  \/ Arrive(r)
  \/ Issue(r) \/ LockToken(r) \/ Accept(r) \/ Reject(r)
  \/ Snapshot(r) \/ (\E k \in Requests : Reach(r, k)) \/ Take(r)
  \/ Victim(r) \/ Abort(r)

\* No step of r touches what another request has asked, found or locked.
LEMMA StepIsOwn ==
  ASSUME IInv, TypeOK', NEW r \in Requests, Quiet(r) \/ CommitLogin(r) \/ CommitRefresh(r) \/ CommitLogout(r)
  PROVE  OwnStep(r)
<1> USE DEF IInv
<1>1. ASSUME NEW how \in Over, Close(r, how), UNCHANGED <<req, seen>>,
             \A k \in Requests : MayBecome(r, k)
      PROVE  OwnStep(r)
  BY <1>1, AuthNone DEF OwnStep, Close, Goto, TypeOK
<1>2. CASE CommitLogin(r) \/ CommitRefresh(r) \/ CommitLogout(r)
  BY <1>1, <1>2, CommitLoginKeeps, CommitRefreshKeeps, CommitLogoutKeeps
  DEF CommitLogin, CommitRefresh, CommitLogout, Over
<1>3. CASE Reject(r) \/ Victim(r) \/ Abort(r)
  BY <1>1, <1>3 DEF Reject, Victim, Abort, Over, MayBecome
<1>4. CASE Arrive(r)
  BY <1>4 DEF Arrive, BeginLogin, BeginLogout, BeginRefresh, Ask, OwnStep, MayBecome, Goto, TypeOK, tx
<1>5. CASE Issue(r) \/ Accept(r)
  BY <1>5 DEF Issue, Accept, OwnStep, MayBecome, Goto, TypeOK
<1>6. CASE LockToken(r)
  BY <1>6, AuthNone DEF LockToken, OwnStep, MayBecome, Goto, TypeOK
<1>7. CASE Snapshot(r) \/ \E k \in Requests : Reach(r, k)
  BY <1>7 DEF Snapshot, Reach, OwnStep, MayBecome, Goto, TypeOK
<1>8. CASE Take(r)
  BY <1>8, AuthNone DEF Take, OwnStep, MayBecome, Goto, TypeOK
<1> QED
  BY <1>2, <1>3, <1>4, <1>5, <1>6, <1>7, <1>8 DEF Quiet

\* Every step keeps it: other requests by StepIsOwn, the one that moves by
\* what it does to its own row.
LEMMA SessionInvStays == IInv /\ SessionInv /\ [Next]_vars => SessionInv'
<1> SUFFICES ASSUME IInv, SessionInv, [Next]_vars PROVE SessionInv'
  OBVIOUS
<1>0. TypeOK' /\ TypeOK
  BY NextType DEF IInv
<1>1. ASSUME NEW r \in Requests,
             Quiet(r) \/ CommitLogin(r) \/ CommitRefresh(r) \/ CommitLogout(r)
      PROVE  SessionInv'
  <2>1. OwnStep(r)
    BY <1>0, <1>1, StepIsOwn
  <2>2. \A k \in Requests : tokens[k] # None =>
          tokens'[k] # None /\ tokens'[k].user = tokens[k].user
    BY <1>0, <2>1, TokensLast DEF OwnStep
  <2>3. ASSUME NEW s \in Requests \ {r}
        PROVE  /\ pc'[s] = pc[s] /\ req'[s] = req[s] /\ seen'[s] = seen[s]
               /\ \A k \in Requests : lock'[k] = s <=> lock[k] = s
    BY <2>1 DEF OwnStep
  <2>4. req'[r] # None /\ req'[r].kind = "login" => req'[r].token = None
    <3>1. CASE Arrive(r)
      BY <3>1, <1>0 DEF Arrive, BeginLogin, BeginLogout, BeginRefresh, Ask, TypeOK
    <3>2. CASE ~Arrive(r)
      <4>1. req' = req
        BY <1>1, <3>2 DEF Quiet, Issue, LockToken, Accept, Reject, Snapshot, Reach, Take, Victim,
                          Abort, CommitLogin, CommitRefresh, CommitLogout
      <4> QED
        BY <4>1 DEF SessionInv
    <3> QED
      BY <3>1, <3>2
  <2>5. ASSUME pc'[r] \in {"scanning", "waiting"}, NEW k \in Requests
        PROVE  /\ k \in seen'[r] => tokens'[k] # None /\ tokens'[k].user = req'[r].user
               /\ lock'[k] = r => k \in seen'[r]
    <3>0. RequestOK(r)
      BY DEF IInv, RequestInv
    <3>1. CASE Snapshot(r)
      BY <1>0, <3>0, <3>1
      DEF Snapshot, Live, TypeOK, RequestOK, OwnOK, Exchanging
    <3>2. CASE \E j \in Requests : Reach(r, j)
      BY <1>0, <3>2 DEF Reach, SessionInv, TypeOK
    <3>3. CASE Take(r)
      <4>1. at[r] \in seen[r] /\ at[r] \in Requests
        BY <1>0, <3>0, <3>3 DEF Take, RequestOK, ScanOK, TypeOK
      <4> QED
        BY <1>0, <3>3, <4>1 DEF Take, SessionInv, TypeOK
    <3>4. CASE ~(Snapshot(r) \/ (\E j \in Requests : Reach(r, j)) \/ Take(r))
      BY <1>0, <1>1, <2>5, <3>4
      DEF Quiet, Arrive, BeginLogin, BeginLogout, BeginRefresh, Issue, LockToken, Accept, Reject,
          Victim, Abort, CommitLogin, CommitRefresh, CommitLogout, Close, Goto, TypeOK, Over
    <3> QED
      BY <3>1, <3>2, <3>3, <3>4
  <2> QED
    BY <2>2, <2>3, <2>4, <2>5 DEF SessionInv
<1>2. CASE Tick \/ UNCHANGED vars
  BY <1>2 DEF Tick, vars, tx, SessionInv
<1> QED
  BY <1>1, <1>2 DEF Next, Finished, Serve, Quiet

\* What a step that issues no token and revokes none leaves of the sessions.
LEMMA QuietSessions ==
  ASSUME IInv, tokens' = tokens, \A k \in Requests : tokens[k] # None => req'[k] = req[k]
  PROVE  UNCHANGED Sessions!vars
<1>1. \A k \in Requests :
        StateOf(k)' = StateOf(k) /\ UserOf(k)' = UserOf(k) /\ SourceOf(k)' = SourceOf(k)
  BY DEF StateOf, UserOf, SourceOf, Live
<1> QED
  BY <1>1 DEF Sessions!vars

\* A login opens a session.
LEMMA LoginOpens ==
  ASSUME IInv, SessionInv, NEW r \in Requests, CommitLogin(r)
  PROVE  Sessions!Next
<1>1. /\ tokens[r] = None /\ Issued(r) \in Token /\ Issued(r) # None
      /\ req[r] \in Request /\ req[r].token = None
  BY AuthNone, IssuedType, NotIssued
  DEF CommitLogin, IInv, RequestInv, RequestOK, AskOK, TypeOK, SessionInv
<1>2. tokens' = [tokens EXCEPT ![r] = Issued(r)] /\ req' = req
  BY DEF CommitLogin
<1>3. \A k \in Requests :
        /\ StateOf(k)' = IF k = r THEN "live" ELSE StateOf(k)
        /\ UserOf(k)' = IF k = r THEN req[r].user ELSE UserOf(k)
        /\ SourceOf(k)' = SourceOf(k)
  BY <1>1, <1>2 DEF StateOf, UserOf, SourceOf, Live, Issued, IInv, TypeOK
<1>4. StateOf(r) = "new" /\ req[r].user \in Users
  BY <1>1 DEF StateOf, Request
<1>5. Sessions!Open(req[r].user, r)
  BY <1>3, <1>4 DEF Sessions!Open
<1> QED
  BY <1>4, <1>5 DEF Sessions!Next

\* A refresh exchanges the token it holds, which is live until this very step.
LEMMA RefreshExchanges ==
  ASSUME IInv, NEW r \in Requests, CommitRefresh(r)
  PROVE  Sessions!Next
<1> DEFINE old == req[r].token
<1>1. /\ tokens[r] = None /\ Issued(r) \in Token /\ Issued(r) # None
      /\ old \in Requests /\ tokens[old] # None /\ tokens[old].user = req[r].user
      /\ tokens[old].revoked = None /\ stamp[r] \in Nat
  <2>1. RequestOK(r) /\ pc[r] = "committing" /\ req[r].kind = "refresh" /\ TypeOK
    BY DEF CommitRefresh, IInv, RequestInv
  <2>2. req[r] # None /\ req[r] \in Request
    BY <2>1 DEF RequestOK, AskOK, TypeOK
  <2>3. Exchanging(r)
    BY <2>1 DEF Exchanging
  <2>4. tokens[r] = None /\ Issued(r) \in Token
    BY <2>1, IssuedType, NotIssued DEF IInv
  <2> QED
    BY <2>1, <2>2, <2>3, <2>4, AuthNone DEF RequestOK, AskOK, HoldOK, Request
<1>2. tokens' = [tokens EXCEPT ![old].revoked = stamp[r], ![r] = Issued(r)] /\ req' = req
  BY DEF CommitRefresh
<1>3. old # r
  BY <1>1
<1>4. /\ tokens'[r] = Issued(r)
      /\ tokens'[old] = [tokens[old] EXCEPT !.revoked = stamp[r]]
      /\ \A k \in Requests \ {r, old} : tokens'[k] = tokens[k]
  BY <1>1, <1>2, <1>3 DEF IInv, TypeOK
<1>5. /\ tokens'[old] # None /\ tokens'[old].revoked = stamp[r] /\ stamp[r] # None
      /\ tokens'[old].user = tokens[old].user
  BY <1>1, <1>4, TokenFacts DEF IInv
<1>6. ASSUME NEW k \in Requests
      PROVE  /\ StateOf(k)' = IF k = r THEN "live" ELSE IF k = old THEN "dead" ELSE StateOf(k)
             /\ UserOf(k)' = IF k = r THEN UserOf(old) ELSE UserOf(k)
             /\ SourceOf(k)' = IF k = r THEN old ELSE SourceOf(k)
  <2>1. CASE k = r
    <3>1. tokens'[r] # None /\ tokens'[r].revoked = None /\ tokens'[r].user = req[r].user
      BY <1>1, <1>4 DEF Issued
    <3> QED
      BY <1>1, <1>2, <2>1, <3>1 DEF StateOf, UserOf, SourceOf, Live
  <2>2. CASE k = old
    BY <1>1, <1>2, <1>3, <1>5, <2>2 DEF StateOf, UserOf, SourceOf, Live
  <2>3. CASE k \notin {r, old}
    <3>1. tokens'[k] = tokens[k] /\ req' = req /\ k # r /\ k # old
      BY <1>2, <1>4, <2>3
    <3>2. StateOf(k)' = StateOf(k) /\ UserOf(k)' = UserOf(k) /\ SourceOf(k)' = SourceOf(k)
      BY <3>1 DEF StateOf, UserOf, SourceOf, Live
    <3> QED
      BY <3>1, <3>2
  <2> QED
    BY <2>1, <2>2, <2>3
<1>7. StateOf(old) = "live" /\ StateOf(r) = "new"
  BY <1>1 DEF StateOf, Live
<1>8. Sessions!Exchange(old, r)
  BY <1>1, <1>3, <1>6, <1>7 DEF Sessions!Exchange
<1> QED
  BY <1>1, <1>8 DEF Sessions!Next

\* A logout ends the tokens it holds, live ones of its user all of them.
LEMMA LogoutEnds ==
  ASSUME IInv, SessionInv, NEW r \in Requests, CommitLogout(r)
  PROVE  Sessions!Next
<1> DEFINE held == {k \in Requests : lock[k] = r}
<1>1. /\ RequestOK(r) /\ pc[r] = "scanning" /\ TypeOK
      /\ req[r].user \in Users /\ stamp[r] \in Nat
  BY DEF CommitLogout, IInv, RequestInv, RequestOK, AskOK, TimeOK, TypeOK, Request
<1>2. \A k \in held : Live(k) /\ tokens[k].user = req[r].user
  BY <1>1 DEF RequestOK, OwnOK, Exchanging, SessionInv
<1>3. \A k \in Requests :
        tokens'[k] = IF k \in held THEN [tokens[k] EXCEPT !.revoked = stamp[r]] ELSE tokens[k]
  BY DEF CommitLogout
<1>4. ASSUME NEW k \in held
      PROVE  /\ tokens'[k] # None /\ tokens'[k].revoked # None
             /\ tokens'[k].user = tokens[k].user
  <2>1. k \in Requests /\ tokens[k] # None /\ tokens'[k] = [tokens[k] EXCEPT !.revoked = stamp[r]]
    BY <1>2, <1>3 DEF Live
  <2> QED
    BY <1>1, <2>1, TokenFacts
<1>5. \A k \in Requests :
        /\ StateOf(k)' = IF k \in held THEN "dead" ELSE StateOf(k)
        /\ UserOf(k)' = UserOf(k) /\ SourceOf(k)' = SourceOf(k)
  BY <1>2, <1>3, <1>4 DEF StateOf, UserOf, SourceOf, Live, CommitLogout
<1>6. \A k \in held : StateOf(k) = "live" /\ UserOf(k) = req[r].user
  BY <1>2 DEF StateOf, UserOf, Live
<1>7. Sessions!End(req[r].user)
  BY <1>5, <1>6 DEF Sessions!End
<1> QED
  BY <1>1, <1>7 DEF Sessions!Next

\* A step that issues and revokes nothing leaves the tokens and what was asked
\* for them.
LEMMA QuietLeaves ==
  ASSUME IInv, NEW r \in Requests, Quiet(r)
  PROVE  tokens' = tokens /\ \A k \in Requests : tokens[k] # None => req'[k] = req[k]
<1>1. tokens' = tokens
  BY DEF Quiet, Arrive, BeginLogin, BeginLogout, BeginRefresh, Issue, LockToken, Accept,
         Reject, Snapshot, Reach, Take, Victim, Abort
<1>2. \A k \in Requests : tokens[k] # None => req'[k] = req[k]
  <2>1. CASE Arrive(r)
    <3>1. pc[r] = "idle" /\ \A k \in Requests \ {r} : req'[k] = req[k]
      BY <2>1 DEF Arrive, BeginLogin, BeginLogout, BeginRefresh, Ask, IInv, TypeOK
    <3>2. tokens[r] = None
      BY <3>1 DEF IInv, RequestInv, RequestOK, TokenOK
    <3> QED
      BY <3>1, <3>2
  <2>2. CASE ~Arrive(r)
    BY <2>2 DEF Quiet, Issue, LockToken, Accept, Reject, Snapshot, Reach, Take, Victim, Abort
  <2> QED
    BY <2>1, <2>2
<1> QED
  BY <1>1, <1>2

\* Every step is one of the sessions, or changes nothing of them.
LEMMA StepOfSessions ==
  IInv /\ SessionInv /\ [Next]_vars => [Sessions!Next]_(Sessions!vars)
<1> SUFFICES ASSUME IInv, SessionInv, [Next]_vars PROVE [Sessions!Next]_(Sessions!vars)
  OBVIOUS
<1>1. ASSUME NEW r \in Requests, Quiet(r) PROVE UNCHANGED Sessions!vars
  BY <1>1, QuietLeaves, QuietSessions
<1>2. CASE Tick \/ UNCHANGED vars
  <2>1. tokens' = tokens /\ req' = req
    BY <1>2 DEF Tick, vars
  <2> QED
    BY <2>1, QuietSessions
<1>3. CASE \E r \in Requests : CommitLogin(r) \/ CommitRefresh(r) \/ CommitLogout(r)
  BY <1>3, LoginOpens, RefreshExchanges, LogoutEnds
<1> QED
  BY <1>1, <1>2, <1>3 DEF Next, Finished, Serve, Quiet

\* At first there are no tokens and no requests.
LEMMA InitOfSessions == Init => SessionInv /\ Sessions!Init
<1> SUFFICES ASSUME Init PROVE SessionInv /\ Sessions!Init
  OBVIOUS
<1>1. SessionInv
  BY DEF Init, SessionInv
<1>2. \A k \in Requests : StateOf(k) = "new" /\ UserOf(k) = None /\ SourceOf(k) = None
  BY DEF Init, StateOf, UserOf, SourceOf
<1> QED
  BY <1>1, <1>2 DEF Sessions!Init

\* AuthTokens implements Sessions: whatever the order of their statements, a
\* login, a refresh and a logout are each one atomic change of the sessions, or
\* none at all (authenticate, refresh and logout of auth_service.py).
THEOREM AuthImplementsSessions == Spec => ImplementsSessions
<1>1. Spec => []SessionInv
  BY InitOfSessions, SessionInvStays, Inductive, PTL DEF Spec
<1> QED
  BY <1>1, InitOfSessions, StepOfSessions, Inductive, PTL DEF Spec, ImplementsSessions, Sessions!Spec
---------------------------------------------------------------------------
(* Only finitely many requests are there at any time *)

Arrived == {r \in Requests : pc[r] # "idle"}

FewArrived == IsFiniteSet(Arrived)

\* A step of a request adds at most that request.
LEMMA ArrivedStays == IInv /\ FewArrived /\ [Next]_vars => FewArrived'
<1> SUFFICES ASSUME IInv, FewArrived, [Next]_vars PROVE IsFiniteSet(Arrived')
  BY DEF FewArrived
<1>1. ASSUME NEW r \in Requests, Arrive(r) \/ Serve(r) \/ Abort(r) PROVE IsFiniteSet(Arrived')
  <2>1. \A s \in Requests \ {r} : pc'[s] = pc[s]
    <3>1. Quiet(r) \/ CommitLogin(r) \/ CommitRefresh(r) \/ CommitLogout(r)
      BY <1>1 DEF Serve, Quiet
    <3> QED
      BY <3>1, NextType, StepIsOwn DEF OwnStep
  <2>2. Arrived' \in SUBSET (Arrived \cup {r})
    BY <2>1 DEF Arrived
  <2>3. IsFiniteSet(Arrived \cup {r})
    BY FS_AddElement DEF FewArrived
  <2> QED
    BY <2>2, <2>3, FS_Subset
<1>2. CASE Tick \/ UNCHANGED vars
  BY <1>2 DEF Tick, vars, Arrived, FewArrived
<1> QED
  BY <1>1, <1>2 DEF Next, Finished

\* So at any time there are finitely many, however many there will be.
LEMMA ArrivedFinite == Spec => []FewArrived
<1>1. Init => FewArrived
  <2>1. Init => Arrived = {}
    BY DEF Init, Arrived
  <2> QED
    BY <2>1, FS_EmptySet DEF FewArrived
<1> QED
  BY <1>1, ArrivedStays, Inductive, PTL DEF Spec

---------------------------------------------------------------------------
(* Waiting *)

\* Where everyone waits for someone there is a circle: the smallest set in
\* which everyone does, for those waited for in it are such a set too.
LEMMA SomeCircle ==
  ASSUME NEW W, IsFiniteSet(W), W # {}, NEW R,
         \A r \in W : \E s \in W : <<r, s>> \in R
  PROVE  \E C \in SUBSET W :
           C # {} /\ \A r \in C : /\ \E s \in C : <<r, s>> \in R
                                  /\ \E s \in C : <<s, r>> \in R
<1> DEFINE Closed(C) == C # {} /\ \A r \in C : \E s \in C : <<r, s>> \in R
           T == {C \in FiniteSubsetsOf(W) : Closed(C)}
<1>1. W \in T
  BY DEF FiniteSubsetsOf
<1>2. IsWellFoundedOn(StrictSubsetOrdering(W), FiniteSubsetsOf(W))
  BY FS_StrictSubsetOrderingWellFounded
<1>3. PICK C \in T : \A D \in T : <<D, C>> \notin StrictSubsetOrdering(W)
  <2>1. T \subseteq FiniteSubsetsOf(W) /\ T # {}
    BY <1>1
  <2> HIDE DEF T
  <2> QED
    BY <1>2, <2>1, WFMin
<1>4. C \in SUBSET W /\ Closed(C)
  BY DEF FiniteSubsetsOf
<1> DEFINE D == {s \in C : \E r \in C : <<r, s>> \in R}
<1>5. Closed(D)
  BY <1>4
<1>6. D \in FiniteSubsetsOf(W)
  BY <1>4, FS_Subset DEF FiniteSubsetsOf
<1>7. D = C
  BY <1>3, <1>4, <1>5, <1>6 DEF StrictSubsetOrdering
<1>8. \A r \in C : \E s \in C : <<s, r>> \in R
  BY <1>7
<1>9. \A r \in C : \E s \in C : <<r, s>> \in R
  BY <1>4
<1> QED
  BY <1>4, <1>8, <1>9

\* Whoever holds a lock runs: a refresh that has its row, or a logout.
LEMMA HoldersRun ==
  ASSUME IInv, NEW r \in Requests, NEW s \in Requests, Waits(r, s)
  PROVE  pc[r] \in Running /\ pc[s] \in Running /\ pc[s] # "locking"
<1>1. r \in Requests /\ RequestOK(r) /\ RequestOK(s) /\ TypeOK
  BY DEF IInv, RequestInv
<1>2. \E k \in Requests : lock[k] = s
  <2>1. CASE pc[r] = "locking" /\ lock[req[r].token] = s
    BY <1>1, <2>1 DEF RequestOK, AskOK, TypeOK, Request
  <2>2. CASE pc[r] = "waiting" /\ lock[at[r]] = s
    BY <1>1, <2>2 DEF RequestOK, ScanOK, TypeOK
  <2> QED
    BY <2>1, <2>2 DEF Waits
<1>3. pc[s] \in {"checking", "issuing", "committing", "scanning", "waiting"}
  BY <1>1, <1>2 DEF RequestOK, OwnOK, Exchanging
<1> QED
  BY <1>3 DEF Waits, Running

\* No request waits for one that is over, and a circle of waits is made of
\* logouts: a refresh that waits (SELECT ... FOR UPDATE) holds nothing.
THEOREM AuthSomeoneGoesOn == Spec => []SomeoneGoesOn
<1>1. ASSUME IInv, FewArrived, \E r \in Requests : pc[r] \in Running
      PROVE  \E r \in Requests :
               /\ pc[r] \in Running
               /\ \/ \A s \in Requests : ~Waits(r, s)
                  \/ \E circle \in SUBSET Requests :
                       r \in circle /\ Deadlocked(circle) /\ \A s \in circle : req[s].kind = "logout"
  <2> DEFINE W == {r \in Requests : pc[r] \in Running}
             R == {p \in Requests \X Requests : Waits(p[1], p[2])}
  <2>1. IsFiniteSet(W)
    <3>1. W \in SUBSET Arrived
      BY DEF Arrived, Running
    <3> QED
      BY <1>1, <3>1, FS_Subset DEF FewArrived
  <2>2. CASE \E r \in W : \A s \in Requests : ~Waits(r, s)
    BY <2>2
  <2>3. CASE \A r \in W : \E s \in Requests : Waits(r, s)
    <3>1. \A r \in W : \E s \in W : <<r, s>> \in R
      BY <1>1, <2>3, HoldersRun
    <3>2. W # {}
      BY <1>1
    <3>3. PICK C \in SUBSET W :
            C # {} /\ \A r \in C : /\ \E s \in C : <<r, s>> \in R
                                   /\ \E s \in C : <<s, r>> \in R
      <4> HIDE DEF W, R
      <4> QED
        BY <2>1, <3>1, <3>2, SomeCircle
    <3>4. Deadlocked(C) /\ C \in SUBSET Requests
      BY <3>3 DEF Deadlocked
    <3>5. ASSUME NEW r \in C PROVE req[r].kind = "logout"
      <4>1. r \in Requests /\ (\E s \in Requests : Waits(r, s)) /\ (\E s \in Requests : Waits(s, r))
        BY <3>4 DEF Deadlocked
      <4>2. pc[r] # "locking"
        BY <1>1, <4>1, HoldersRun
      <4>3. pc[r] = "waiting"
        BY <4>1, <4>2 DEF Waits
      <4> QED
        BY <1>1, <4>1, <4>3 DEF IInv, RequestInv, RequestOK, AskOK
    <3> QED
      BY <3>3, <3>4, <3>5
  <2> QED
    BY <2>2, <2>3
<1>2. IInv /\ FewArrived => SomeoneGoesOn
  BY <1>1 DEF SomeoneGoesOn
<1> QED
  BY <1>2, Inductive, ArrivedFinite, PTL

---------------------------------------------------------------------------
(* The number of sessions *)

\* One taken out and one put in.
LEMMA SwapKeepsCardinality ==
  ASSUME NEW S, IsFiniteSet(S), NEW x \in S, NEW y, y \notin S
  PROVE  Cardinality((S \ {x}) \cup {y}) = Cardinality(S)
<1> DEFINE T == S \ {x}
<1>1. IsFiniteSet(T) /\ Cardinality(T) = Cardinality(S) - 1
  BY FS_RemoveElement
<1>2. y \notin T /\ Cardinality(S) \in Nat
  BY FS_CardinalityType
<1> HIDE DEF T
<1>3. Cardinality(T \cup {y}) = Cardinality(T) + 1
  BY <1>1, <1>2, FS_AddElement
<1> QED
  BY <1>1, <1>2, <1>3 DEF T

\* A step of the sessions keeps the bound: a login adds one to both sides, an
\* exchange gives one for one, a logout takes away.
LEMMA SessionsStay ==
  IInv /\ SessionInv /\ FewArrived /\ SessionsDoNotMultiply /\ [Next]_vars
    => SessionsDoNotMultiply'
<1> SUFFICES ASSUME IInv, SessionInv, FewArrived, SessionsDoNotMultiply, [Next]_vars,
                    NEW u \in Users
             PROVE  Cardinality(LiveOf(u))' <= Cardinality(OpenedFor(u))'
  BY DEF SessionsDoNotMultiply
<1>1. TypeOK /\ TypeOK'
  BY NextType DEF IInv
<1>2. /\ IsFiniteSet(LiveOf(u)) /\ IsFiniteSet(OpenedFor(u))
      /\ Cardinality(LiveOf(u)) \in Nat /\ Cardinality(OpenedFor(u)) \in Nat
      /\ Cardinality(LiveOf(u)) <= Cardinality(OpenedFor(u))
  <2>1. \A k \in Requests : tokens[k] # None => k \in Arrived
    BY DEF IInv, RequestInv, RequestOK, TokenOK, Arrived
  <2>2. LiveOf(u) \in SUBSET Arrived /\ OpenedFor(u) \in SUBSET Arrived
    BY <2>1 DEF LiveOf, OpenedFor, Live
  <2>3. IsFiniteSet(LiveOf(u)) /\ IsFiniteSet(OpenedFor(u))
    BY <2>2, FS_Subset DEF FewArrived
  <2> QED
    BY <2>3, FS_CardinalityType DEF SessionsDoNotMultiply
<1>3. ASSUME NEW r \in Requests, CommitLogin(r)
      PROVE  Cardinality(LiveOf(u))' <= Cardinality(OpenedFor(u))'
  <2>1. /\ tokens[r] = None /\ tokens' = [tokens EXCEPT ![r] = Issued(r)] /\ req' = req
        /\ Issued(r) # None /\ Issued(r).revoked = None /\ Issued(r).user = req[r].user
        /\ req[r].kind = "login"
    BY <1>3, IssuedType, NotIssued DEF CommitLogin, Issued
  <2>2. \A k \in Requests : tokens'[k] = IF k = r THEN Issued(r) ELSE tokens[k]
    BY <1>1, <2>1 DEF TypeOK
  <2>3. r \notin LiveOf(u) /\ r \notin OpenedFor(u)
    BY <2>1 DEF LiveOf, OpenedFor, Live
  <2>4. CASE req[r].user = u
    <3>1. LiveOf(u)' = LiveOf(u) \cup {r} /\ OpenedFor(u)' = OpenedFor(u) \cup {r}
      BY <2>1, <2>2, <2>4 DEF LiveOf, OpenedFor, Live
    <3>2. /\ Cardinality(LiveOf(u) \cup {r}) = Cardinality(LiveOf(u)) + 1
          /\ Cardinality(OpenedFor(u) \cup {r}) = Cardinality(OpenedFor(u)) + 1
      BY <1>2, <2>3, FS_AddElement
    <3> QED
      BY <1>2, <3>1, <3>2
  <2>5. CASE req[r].user # u
    <3>1. LiveOf(u)' = LiveOf(u) /\ OpenedFor(u)' = OpenedFor(u)
      BY <2>1, <2>2, <2>5 DEF LiveOf, OpenedFor, Live
    <3> QED
      BY <1>2, <3>1
  <2> QED
    BY <2>4, <2>5
<1>4. ASSUME NEW r \in Requests, CommitRefresh(r)
      PROVE  Cardinality(LiveOf(u))' <= Cardinality(OpenedFor(u))'
  <2> DEFINE old == req[r].token
  <2>1. /\ tokens[r] = None /\ Issued(r) # None /\ Issued(r).revoked = None
        /\ Issued(r).user = req[r].user /\ req[r].kind = "refresh"
        /\ old \in Requests /\ Live(old) /\ tokens[old].user = req[r].user /\ stamp[r] \in Nat
    <3>1. RequestOK(r) /\ pc[r] = "committing" /\ req[r].kind = "refresh"
      BY <1>4 DEF CommitRefresh, IInv, RequestInv
    <3>2. req[r] # None /\ req[r] \in Request
      BY <1>1, <3>1 DEF RequestOK, AskOK, TypeOK
    <3>3. Exchanging(r)
      BY <3>1 DEF Exchanging
    <3>4. tokens[r] = None /\ Issued(r) # None /\ Issued(r).revoked = None
      BY <3>1, IssuedType, NotIssued
    <3> QED
      BY <3>1, <3>2, <3>3, <3>4 DEF RequestOK, AskOK, HoldOK, Request, Live, Issued
  <2>2. /\ tokens' = [tokens EXCEPT ![old].revoked = stamp[r], ![r] = Issued(r)] /\ req' = req
        /\ old # r
    BY <1>4, <2>1 DEF CommitRefresh, Live
  <2>3. /\ tokens'[r] = Issued(r)
        /\ tokens'[old] = [tokens[old] EXCEPT !.revoked = stamp[r]]
        /\ \A k \in Requests \ {r, old} : tokens'[k] = tokens[k]
    BY <1>1, <2>1, <2>2 DEF TypeOK
  <2>4. tokens'[old] # None /\ tokens'[old].revoked # None /\ tokens'[old].user = tokens[old].user
    BY <1>1, <2>1, <2>3, TokenFacts DEF Live
  <2>5. OpenedFor(u)' = OpenedFor(u)
    BY <2>1, <2>2, <2>3, <2>4 DEF OpenedFor, Live
  <2>6. CASE req[r].user = u
    <3>1. LiveOf(u)' = (LiveOf(u) \ {old}) \cup {r} /\ old \in LiveOf(u) /\ r \notin LiveOf(u)
      BY <2>1, <2>2, <2>3, <2>4, <2>6 DEF LiveOf, Live
    <3>2. Cardinality((LiveOf(u) \ {old}) \cup {r}) = Cardinality(LiveOf(u))
      BY <1>2, <3>1, SwapKeepsCardinality
    <3> QED
      BY <1>2, <2>5, <3>1, <3>2
  <2>7. CASE req[r].user # u
    <3>1. LiveOf(u)' = LiveOf(u)
      BY <2>1, <2>2, <2>3, <2>4, <2>7 DEF LiveOf, Live
    <3> QED
      BY <1>2, <2>5, <3>1
  <2> QED
    BY <2>6, <2>7
<1>5. ASSUME NEW r \in Requests, CommitLogout(r)
      PROVE  Cardinality(LiveOf(u))' <= Cardinality(OpenedFor(u))'
  <2>1. \A k \in Requests : MayBecome(r, k)
    BY <1>1, <1>5, CommitLogoutKeeps
  <2>2. /\ req' = req /\ tokens[r] = None /\ tokens'[r] = None
    BY <1>5, NotIssued DEF CommitLogout, IInv, RequestInv, RequestOK, OwnOK, Exchanging, Live
  <2>3. \A k \in Requests : tokens[k] = None => tokens'[k] = None
    BY <2>1, <2>2 DEF MayBecome, Live
  <2>4. \A k \in Requests : tokens[k] # None =>
          tokens'[k] # None /\ tokens'[k].user = tokens[k].user /\ (Live(k)' => Live(k))
    BY <1>1, <2>1, TokensLast DEF Live, Revoked
  <2>5. OpenedFor(u)' = OpenedFor(u) /\ LiveOf(u)' \in SUBSET LiveOf(u)
    BY <2>2, <2>3, <2>4 DEF OpenedFor, LiveOf, Live
  <2>6. Cardinality(LiveOf(u))' <= Cardinality(LiveOf(u)) /\ Cardinality(LiveOf(u))' \in Nat
    BY <1>2, <2>5, FS_Subset, FS_CardinalityType
  <2> QED
    BY <1>2, <2>5, <2>6
<1>6. ASSUME tokens' = tokens, \A k \in Requests : tokens[k] # None => req'[k] = req[k]
      PROVE  Cardinality(LiveOf(u))' <= Cardinality(OpenedFor(u))'
  <2>1. LiveOf(u)' = LiveOf(u) /\ OpenedFor(u)' = OpenedFor(u)
    BY <1>6 DEF LiveOf, OpenedFor, Live
  <2> QED
    BY <1>2, <2>1
<1>7. ASSUME NEW r \in Requests, Quiet(r)
      PROVE  tokens' = tokens /\ \A k \in Requests : tokens[k] # None => req'[k] = req[k]
  BY <1>7, QuietLeaves
<1>8. CASE Tick \/ UNCHANGED vars
  BY <1>6, <1>8 DEF Tick, vars
<1> QED
  BY <1>3, <1>4, <1>5, <1>6, <1>7, <1>8 DEF Next, Finished, Serve, Quiet

\* /auth/refresh gives one token for one: a user never has more live sessions
\* than logins, whatever is presented twice, fails or is logged out meanwhile.
THEOREM AuthSessionsDoNotMultiply == Spec => []SessionsDoNotMultiply
<1>1. Spec => []SessionInv
  BY InitOfSessions, SessionInvStays, Inductive, PTL DEF Spec
<1>2. Init => SessionsDoNotMultiply
  <2>1. Init => \A u \in Users : LiveOf(u) = {} /\ OpenedFor(u) = {}
    BY DEF Init, LiveOf, OpenedFor, Live
  <2> QED
    BY <2>1, FS_EmptySet DEF SessionsDoNotMultiply
<1> QED
  BY <1>1, <1>2, SessionsStay, Inductive, ArrivedFinite, PTL DEF Spec
===========================================================================
