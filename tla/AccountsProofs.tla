--------------------------- MODULE AccountsProofs ---------------------------
(***************************************************************************)
(* Proofs about accounts and logins: the answers stay true, an account     *)
(* keeps its password, requests never wait for each other only, and the    *)
(* composed specification is one of the limiter's.                         *)
(***************************************************************************)
EXTENDS Accounts, RateLimiterProofs

---------------------------------------------------------------------------
(* The composition: every step is one of the limiter or leaves it alone *)

\* Every step of Accounts is a step of the limiter or leaves it alone.
LEMMA StepOfLimiter ==
  ASSUME [Next]_vars
  PROVE  [LimiterNext]_<<limiterVars, clock>>
<1>1. ASSUME NEW r \in Requests, Arrive(r)
      PROVE  [LimiterNext]_<<limiterVars, clock>>
  <2>1. ASSUME NEW m \in Mailboxes, NEW p \in Passwords, NEW c \in Costs,
               BeginProvision(r, m, p, c)
        PROVE  UNCHANGED <<limiterVars, clock>>
    BY <2>1 DEF BeginProvision
  <2>2. ASSUME NEW m \in Mailboxes, NEW p \in Passwords, NEW h \in Hosts,
               BeginLogin(r, m, p, h)
        PROVE  LimiterNext
    <3>1. <<m, h>> \in Keys
      BY AccountsAssumption
    <3> QED BY <2>2, <3>1 DEF BeginLogin, LimiterNext
  <2> QED BY <1>1, <2>1, <2>2 DEF Arrive
<1>2. ASSUME NEW r \in Requests, Serve(r) \/ Refuse(r) \/ Abort(r)
      PROVE  UNCHANGED <<limiterVars, clock>>
  BY <1>2 DEF Serve, Abort, Inside, Connect, Reconnect, Refuse, Insert, Conflict,
     CommitUser, Answer, Deny, Verify, Rehash, CommitLogin
<1>3. CASE Crash
  BY <1>3 DEF Crash, LimiterNext
<1>4. CASE Tick
  BY <1>4 DEF Tick, LimiterNext
<1>5. CASE Finished \/ UNCHANGED vars
  BY <1>5 DEF Finished, vars
<1> QED BY <1>1, <1>2, <1>3, <1>4, <1>5 DEF Next

\* The limiter keeps its promise in the program: what it proves of itself
\* holds of the logins.
THEOREM LoginsAreLimited == Spec => []WindowHolds /\ ImplementsWindow
<1>1. Init => LimiterInit
  BY DEF Init
<1>2. [Next]_vars => [LimiterNext]_<<limiterVars, clock>>
  BY StepOfLimiter
<1>3. Spec => LimiterSpec
  BY <1>1, <1>2, PTL DEF Spec, LimiterSpec
<1> QED BY <1>3, LimiterWindowHolds, LimiterImplementsWindow, PTL

---------------------------------------------------------------------------
(* The invariant *)

DbTypeOK ==
  /\ users \in [Mailboxes -> User \cup {None}]
  /\ writer \in [Mailboxes -> Requests \cup {None}]
  /\ pc \in [Requests -> {"idle"} \cup Running \cup Over]
  /\ req \in [Requests -> Request \cup {None}]
  /\ answer \in [Requests -> Answers \cup {None}]

DbInv == DbTypeOK /\ LocksHeld /\ StepsTaken /\ AnswersHold

USE DEF Goto, Box, Inside, dbVars, Unlock, Reply, Running, Waiting, Holding, Over,
        Verified, Answered

\* The invariant holds when the program starts.
LEMMA AccountsStart ==
  ASSUME Init
  PROVE  DbInv
BY AccountsAssumption, AccountsNone DEF Init, DbInv, DbTypeOK, LocksHeld, StepsTaken, AnswersHold

\* An ended request has a mailbox.
LEMMA BoxOfDone ==
  ASSUME DbInv, NEW r \in Requests, pc[r] = "done"
  PROVE  Box(r) \in Mailboxes
BY DEF DbInv, DbTypeOK, StepsTaken, Request

\* Taking a connection writes nothing.
LEMMA ConnectKeepsInv ==
  ASSUME DbInv, NEW r \in Requests, Connect(r)
  PROVE  DbInv'
<1> USE AccountsAssumption, AccountsNone DEF Connect, User, Request, Kinds, Costs
<1>1. DbTypeOK'
  BY DEF DbInv, DbTypeOK, StepsTaken, Answers
<1>2. LocksHeld'
  BY DEF DbInv, DbTypeOK, LocksHeld, StepsTaken
<1>3. StepsTaken'
  BY DEF DbInv, DbTypeOK, LocksHeld, StepsTaken
<1>4. AnswersHold'
  BY DEF DbInv, DbTypeOK, LocksHeld, StepsTaken, AnswersHold
<1> QED BY <1>1, <1>2, <1>3, <1>4 DEF DbInv

\* Nor does taking one again after the commit.
LEMMA ReconnectKeepsInv ==
  ASSUME DbInv, NEW r \in Requests, Reconnect(r)
  PROVE  DbInv'
<1> USE AccountsAssumption, AccountsNone DEF Reconnect, User, Request, Kinds, Costs
<1>1. DbTypeOK'
  BY DEF DbInv, DbTypeOK, StepsTaken, Answers
<1>2. LocksHeld'
  BY DEF DbInv, DbTypeOK, LocksHeld, StepsTaken
<1>3. StepsTaken'
  BY DEF DbInv, DbTypeOK, LocksHeld, StepsTaken
<1>4. AnswersHold'
  BY DEF DbInv, DbTypeOK, LocksHeld, StepsTaken, AnswersHold
<1> QED BY <1>1, <1>2, <1>3, <1>4 DEF DbInv

\* A refused request had no lock.
LEMMA RefuseKeepsInv ==
  ASSUME DbInv, NEW r \in Requests, Refuse(r)
  PROVE  DbInv'
<1> USE AccountsAssumption, AccountsNone DEF Refuse, User, Request, Kinds, Costs
<1>1. DbTypeOK'
  BY DEF DbInv, DbTypeOK, StepsTaken, Answers
<1>2. LocksHeld'
  BY DEF DbInv, DbTypeOK, LocksHeld, StepsTaken
<1>3. StepsTaken'
  BY DEF DbInv, DbTypeOK, LocksHeld, StepsTaken
<1>4. AnswersHold'
  BY DEF DbInv, DbTypeOK, LocksHeld, StepsTaken, AnswersHold
<1> QED BY <1>1, <1>2, <1>3, <1>4 DEF DbInv

\* The lock of an INSERT is taken only where no account is.
LEMMA InsertKeepsInv ==
  ASSUME DbInv, NEW r \in Requests, Insert(r)
  PROVE  DbInv'
<1> USE AccountsAssumption, AccountsNone DEF Insert, User, Request, Kinds, Costs
<1>1. DbTypeOK'
  BY DEF DbInv, DbTypeOK, StepsTaken, Answers
<1>2. LocksHeld'
  BY DEF DbInv, DbTypeOK, LocksHeld, StepsTaken
<1>3. StepsTaken'
  BY DEF DbInv, DbTypeOK, LocksHeld, StepsTaken
<1>4. AnswersHold'
  BY DEF DbInv, DbTypeOK, LocksHeld, StepsTaken, AnswersHold
<1> QED BY <1>1, <1>2, <1>3, <1>4 DEF DbInv

\* A 409 is given for a committed account of someone else.
LEMMA ConflictKeepsInv ==
  ASSUME DbInv, NEW r \in Requests, Conflict(r)
  PROVE  DbInv'
<1> USE AccountsAssumption, AccountsNone DEF Conflict, User, Request, Kinds, Costs
<1>1. DbTypeOK'
  BY DEF DbInv, DbTypeOK, StepsTaken, Answers
<1>2. LocksHeld'
  BY DEF DbInv, DbTypeOK, LocksHeld, StepsTaken
<1>3. StepsTaken'
  BY DEF DbInv, DbTypeOK, LocksHeld, StepsTaken
<1>4. AnswersHold'
  BY DEF DbInv, DbTypeOK, LocksHeld, StepsTaken, AnswersHold
<1> QED BY <1>1, <1>2, <1>3, <1>4 DEF DbInv

\* The committed account is that of the one request that held the mailbox.
LEMMA CommitUserKeepsInv ==
  ASSUME DbInv, NEW r \in Requests, CommitUser(r)
  PROVE  DbInv'
<1> USE AccountsAssumption, AccountsNone DEF CommitUser, User, Request, Kinds, Costs
<1>1. DbTypeOK'
  BY DEF DbInv, DbTypeOK, StepsTaken, Answers
<1>2. LocksHeld'
  BY DEF DbInv, DbTypeOK, LocksHeld, StepsTaken
<1>3. StepsTaken'
  BY DEF DbInv, DbTypeOK, LocksHeld, StepsTaken
<1>4. AnswersHold'
  BY DEF DbInv, DbTypeOK, LocksHeld, StepsTaken, AnswersHold
<1> QED BY <1>1, <1>2, <1>3, <1>4 DEF DbInv

\* A 201 is given for an account that is there.
LEMMA AnswerKeepsInv ==
  ASSUME DbInv, NEW r \in Requests, Answer(r)
  PROVE  DbInv'
<1> USE AccountsAssumption, AccountsNone DEF Answer, User, Request, Kinds, Costs
<1>1. DbTypeOK'
  BY DEF DbInv, DbTypeOK, StepsTaken, Answers
<1>2. LocksHeld'
  BY DEF DbInv, DbTypeOK, LocksHeld, StepsTaken
<1>3. StepsTaken'
  BY DEF DbInv, DbTypeOK, LocksHeld, StepsTaken
<1>4. AnswersHold'
  BY DEF DbInv, DbTypeOK, LocksHeld, StepsTaken, AnswersHold
<1> QED BY <1>1, <1>2, <1>3, <1>4 DEF DbInv

\* A 401 is given for what the committed row says.
LEMMA DenyKeepsInv ==
  ASSUME DbInv, NEW r \in Requests, Deny(r)
  PROVE  DbInv'
<1> USE AccountsAssumption, AccountsNone DEF Deny, User, Request, Kinds, Costs
<1>1. DbTypeOK'
  BY DEF DbInv, DbTypeOK, StepsTaken, Answers
<1>2. LocksHeld'
  BY DEF DbInv, DbTypeOK, LocksHeld, StepsTaken
<1>3. StepsTaken'
  BY DEF DbInv, DbTypeOK, LocksHeld, StepsTaken
<1>4. AnswersHold'
  BY DEF DbInv, DbTypeOK, LocksHeld, StepsTaken, AnswersHold
<1> QED BY <1>1, <1>2, <1>3, <1>4 DEF DbInv

\* A login goes on only with the password of the account.
LEMMA VerifyKeepsInv ==
  ASSUME DbInv, NEW r \in Requests, Verify(r)
  PROVE  DbInv'
<1> USE AccountsAssumption, AccountsNone DEF Verify, User, Request, Kinds, Costs
<1>1. DbTypeOK'
  BY DEF DbInv, DbTypeOK, StepsTaken, Answers
<1>2. LocksHeld'
  BY DEF DbInv, DbTypeOK, LocksHeld, StepsTaken
<1>3. StepsTaken'
  BY DEF DbInv, DbTypeOK, LocksHeld, StepsTaken
<1>4. AnswersHold'
  BY DEF DbInv, DbTypeOK, LocksHeld, StepsTaken, AnswersHold
<1> QED BY <1>1, <1>2, <1>3, <1>4 DEF DbInv

\* The lock of an UPDATE is taken by a login that has been verified.
LEMMA RehashKeepsInv ==
  ASSUME DbInv, NEW r \in Requests, Rehash(r)
  PROVE  DbInv'
<1> USE AccountsAssumption, AccountsNone DEF Rehash, User, Request, Kinds, Costs
<1>1. DbTypeOK'
  BY DEF DbInv, DbTypeOK, StepsTaken, Answers
<1>2. LocksHeld'
  BY DEF DbInv, DbTypeOK, LocksHeld, StepsTaken
<1>3. StepsTaken'
  BY DEF DbInv, DbTypeOK, LocksHeld, StepsTaken
<1>4. AnswersHold'
  BY DEF DbInv, DbTypeOK, LocksHeld, StepsTaken, AnswersHold
<1> QED BY <1>1, <1>2, <1>3, <1>4 DEF DbInv

\* A committed rehash keeps the account and its password.
LEMMA CommitLoginKeepsAccounts ==
  ASSUME DbInv, NEW r \in Requests, CommitLogin(r), NEW m \in Mailboxes
  PROVE  /\ users[m] # None <=> users'[m] # None
         /\ users[m] # None =>
              /\ users'[m].password = users[m].password /\ users'[m].by = users[m].by
              /\ users[m].cost = "strong" => users'[m].cost = "strong"
<1>1. Box(r) \in Mailboxes /\ users \in [Mailboxes -> User \cup {None}]
      /\ users[Box(r)] \in User /\ users[Box(r)].password = req[r].password
  BY AccountsNone DEF CommitLogin, DbInv, DbTypeOK, StepsTaken, Request
<1>2. users' = IF writer[Box(r)] = r
                 THEN [users EXCEPT ![Box(r)].password = req[r].password,
                                    ![Box(r)].cost = "strong"]
                 ELSE users
  BY DEF CommitLogin
<1> HIDE DEF Box
<1>3. CASE m = Box(r)
  BY <1>3, <1>1, <1>2, AccountsNone DEF User, Costs
<1>4. CASE m # Box(r)
  BY <1>4, <1>1, <1>2
<1> QED BY <1>3, <1>4

\* No earlier answer is made wrong by the commit of a login.
LEMMA CommitLoginKeepsAnswers ==
  ASSUME DbInv, NEW r \in Requests, CommitLogin(r)
  PROVE  AnswersHold'
<1>0. Box(r) \in Mailboxes /\ users \in [Mailboxes -> User \cup {None}]
      /\ users[Box(r)] \in User /\ users[Box(r)].password = req[r].password
      /\ (writer[Box(r)] # r => users[Box(r)].cost = "strong")
  BY AccountsNone DEF CommitLogin, DbInv, DbTypeOK, StepsTaken, Request
<1>1. /\ req' = req /\ answer' = [answer EXCEPT ![r] = "200"] /\ pc' = [pc EXCEPT ![r] = "done"]
      /\ users' = IF writer[Box(r)] = r
                     THEN [users EXCEPT ![Box(r)].password = req[r].password,
                                        ![Box(r)].cost = "strong"]
                     ELSE users
  BY DEF CommitLogin
<1>2. pc \in [Requests -> {"idle"} \cup Running \cup Over] /\ answer \in [Requests -> Answers \cup {None}]
  BY DEF DbInv, DbTypeOK
<1> HIDE DEF Box
<1>3. ASSUME NEW m \in Mailboxes
      PROVE  /\ users[m] # None <=> users'[m] # None
             /\ users[m] # None =>
                  /\ users'[m].password = users[m].password /\ users'[m].by = users[m].by
                  /\ users[m].cost = "strong" => users'[m].cost = "strong"
  BY CommitLoginKeepsAccounts
<1>4. users'[Box(r)] # None /\ users'[Box(r)].cost = "strong"
      /\ users'[Box(r)].password = req[r].password
  BY <1>0, <1>1, <1>3, AccountsNone DEF User
<1>5. ASSUME NEW s \in Requests, s # r, pc'[s] = "done"
      PROVE  pc[s] = "done" /\ answer'[s] = answer[s] /\ Box(s) \in Mailboxes
  <2>1. pc[s] = "done" /\ answer'[s] = answer[s]
    BY <1>1, <1>2, <1>5
  <2> QED BY <2>1, BoxOfDone
<1>6. answer'[r] = "200" /\ \A s \in Requests : Box(s)' = Box(s)
  BY <1>1, <1>2 DEF Box
<1>7. AnswersHold
  BY DEF DbInv
<1>8. ASSUME NEW s \in Requests, pc'[s] = "done"
      PROVE  LET u == users'[Box(s)] IN
               /\ answer'[s] = "201" => u # None /\ u.by = s
               /\ answer'[s] = "409" => u # None /\ u.by # s
               /\ answer'[s] = "200" =>
                    u # None /\ u.password = req[s].password /\ u.cost = "strong"
               /\ answer'[s] = "401" /\ u # None =>
                    u.by # None \/ u.password # req[s].password
  <2>1. CASE s = r
    BY <2>1, <1>4, <1>6
  <2>2. CASE s # r
    BY <2>2, <1>3, <1>5, <1>7, <1>8 DEF AnswersHold
  <2> QED BY <2>1, <2>2
<1>9. req' = req
  BY <1>1
<1> QED BY <1>8, <1>9 DEF AnswersHold, Box

\* Both together.
LEMMA CommitLoginKeepsInv ==
  ASSUME DbInv, NEW r \in Requests, CommitLogin(r)
  PROVE  DbInv'
<1> USE AccountsAssumption, AccountsNone DEF CommitLogin, User, Request, Kinds, Costs
<1>1. DbTypeOK'
  BY DEF DbInv, DbTypeOK, StepsTaken, Answers
<1>2. LocksHeld'
  BY DEF DbInv, DbTypeOK, LocksHeld, StepsTaken
<1>3. StepsTaken'
  BY DEF DbInv, DbTypeOK, LocksHeld, StepsTaken
<1>4. AnswersHold'
  BY CommitLoginKeepsAnswers
<1> QED BY <1>1, <1>2, <1>3, <1>4 DEF DbInv

\* An abort gives its locks back and keeps what was committed.
LEMMA AbortKeepsInv ==
  ASSUME DbInv, NEW r \in Requests, Abort(r)
  PROVE  DbInv'
<1> USE AccountsAssumption, AccountsNone DEF Abort, User, Request, Kinds, Costs
<1>1. DbTypeOK'
  BY DEF DbInv, DbTypeOK, StepsTaken, Answers
<1>2. LocksHeld'
  BY DEF DbInv, DbTypeOK, LocksHeld, StepsTaken
<1>3. StepsTaken'
  BY DEF DbInv, DbTypeOK, LocksHeld, StepsTaken
<1>4. AnswersHold'
  BY DEF DbInv, DbTypeOK, LocksHeld, StepsTaken, AnswersHold
<1> QED BY <1>1, <1>2, <1>3, <1>4 DEF DbInv

\* An arriving request has no effect on the others.
LEMMA ArriveKeepsInv ==
  ASSUME DbInv, NEW r \in Requests, Arrive(r)
  PROVE  DbInv'
<1> USE AccountsAssumption, AccountsNone DEF User, Request, Kinds, Costs
<1>1. PICK m \in Mailboxes, p \in Passwords, c \in Costs, k \in Kinds, to \in {"connecting", "done"} :
        /\ pc[r] = "idle"
        /\ req' = [req EXCEPT ![r] = [kind |-> k, mailbox |-> m, password |-> p, cost |-> c]]
        /\ pc' = [pc EXCEPT ![r] = to]
        /\ answer' = IF to = "done" THEN [answer EXCEPT ![r] = "429"] ELSE answer
        /\ UNCHANGED dbVars
  BY DEF Arrive, BeginProvision, BeginLogin, Kinds, Costs
<1>2. DbTypeOK'
  BY <1>1 DEF DbInv, DbTypeOK, Answers
<1>3. LocksHeld'
  BY <1>1 DEF DbInv, DbTypeOK, LocksHeld
<1>4. StepsTaken'
  BY <1>1 DEF DbInv, DbTypeOK, LocksHeld, StepsTaken
<1>5. AnswersHold'
  BY <1>1 DEF DbInv, DbTypeOK, AnswersHold
<1> QED BY <1>2, <1>3, <1>4, <1>5 DEF DbInv

\* A crash ends every request and keeps what was committed.
LEMMA CrashKeepsInv ==
  ASSUME DbInv, Crash
  PROVE  DbInv'
<1> USE AccountsAssumption, AccountsNone DEF Crash, User, Request, Kinds, Costs
<1>1. DbTypeOK'
  BY DEF DbInv, DbTypeOK
<1>2. LocksHeld'
  BY DEF LocksHeld
<1>3. StepsTaken'
  BY DEF DbInv, DbTypeOK, StepsTaken
<1>4. AnswersHold'
  BY DEF DbInv, DbTypeOK, AnswersHold
<1> QED BY <1>1, <1>2, <1>3, <1>4 DEF DbInv

\* Every step keeps the invariant.
LEMMA AccountsStepKeepsInv ==
  ASSUME DbInv, [Next]_vars
  PROVE  DbInv'
<1>1. ASSUME NEW r \in Requests, Arrive(r) \/ Serve(r) \/ Refuse(r) \/ Abort(r)
      PROVE  DbInv'
  BY <1>1, ArriveKeepsInv, ConnectKeepsInv, ReconnectKeepsInv, RefuseKeepsInv, InsertKeepsInv,
     ConflictKeepsInv, CommitUserKeepsInv, AnswerKeepsInv, DenyKeepsInv, VerifyKeepsInv,
     RehashKeepsInv, CommitLoginKeepsInv, AbortKeepsInv DEF Serve
<1>2. CASE Crash
  BY <1>2, CrashKeepsInv
<1>3. CASE Tick \/ Finished \/ UNCHANGED vars
  BY <1>3 DEF Tick, Finished, vars, DbInv, DbTypeOK, LocksHeld, StepsTaken, AnswersHold
<1> QED BY <1>1, <1>2, <1>3 DEF Next

\* The invariant of the composition: the limiter's and the one of the rows,
\* the locks and the answers.
THEOREM AccountsConsistent == Spec => []Consistent
<1>1. Init => DbInv
  BY AccountsStart
<1>2. DbInv /\ [Next]_vars => DbInv'
  BY AccountsStepKeepsInv
<1>3. Init /\ [][Next]_vars => []LimiterInv
  <2>1. Init => LimiterInit
    BY DEF Init
  <2>2. [Next]_vars => [LimiterNext]_<<limiterVars, clock>>
    BY StepOfLimiter
  <2> QED BY <2>1, <2>2, LimiterInvariant, PTL DEF LimiterSpec
<1>4. DbInv /\ LimiterInv => Consistent
  BY DEF DbInv, DbTypeOK, LimiterInv, Consistent, TypeOK
<1> QED BY <1>1, <1>2, <1>3, <1>4, PTL DEF Spec

\* What a request was told is true for good.
THEOREM AccountsAnswersHold == Spec => []AnswersHold
<1>1. Consistent => AnswersHold
  BY DEF Consistent
<1> QED BY <1>1, AccountsConsistent, PTL

\* No account is taken away, and none changes its password or gets weaker.
THEOREM AccountsPasswordKept == Spec => PasswordKept
<1> DEFINE Kept(m) == users[m] # None =>
             /\ users'[m] # None
             /\ users'[m].password = users[m].password /\ users'[m].by = users[m].by
             /\ users[m].cost = "strong" => users'[m].cost = "strong"
<1>1. DbInv /\ [Next]_vars => [\A m \in Mailboxes : Kept(m)]_vars
  <2> SUFFICES ASSUME DbInv, [Next]_vars, NEW m \in Mailboxes
               PROVE  Kept(m)
    OBVIOUS
  <2>1. ASSUME NEW r \in Requests, CommitUser(r)
        PROVE  Kept(m)
    <3>1. users[Box(r)] = None
      BY <2>1, AccountsAssumption, AccountsNone
         DEF CommitUser, DbInv, DbTypeOK, LocksHeld, StepsTaken, Request
    <3>2. m # Box(r) => users'[m] = users[m]
      BY <2>1 DEF CommitUser, DbInv, DbTypeOK
    <3> QED BY <3>1, <3>2
  <2>2. ASSUME NEW r \in Requests, CommitLogin(r)
        PROVE  Kept(m)
    BY <2>2, CommitLoginKeepsAccounts
  <2>3. CASE UNCHANGED users
    BY <2>3
  <2>4. ASSUME NEW r \in Requests, Arrive(r)
        PROVE  UNCHANGED users
    BY <2>4 DEF Arrive, BeginProvision, BeginLogin
  <2>5. ASSUME NEW r \in Requests, Serve(r) \/ Refuse(r) \/ Abort(r), ~CommitUser(r), ~CommitLogin(r)
        PROVE  UNCHANGED users
    BY <2>5 DEF Serve, Connect, Reconnect, Refuse, Insert, Conflict, Answer, Deny, Verify,
       Rehash, Abort
  <2>6. CASE Crash \/ Tick \/ Finished \/ UNCHANGED vars
    BY <2>6 DEF Crash, Tick, Finished, vars
  <2> QED BY <2>1, <2>2, <2>3, <2>4, <2>5, <2>6 DEF Next
<1>2. Init => DbInv
  BY AccountsStart
<1>3. DbInv /\ [Next]_vars => DbInv'
  BY AccountsStepKeepsInv
<1> QED BY <1>1, <1>2, <1>3, PTL DEF Spec, PasswordKept

\* With one connection or more, the requests never wait for each other only.
THEOREM AccountsSomeoneGoesOn == Spec => []SomeoneGoesOn
<1>1. DbInv => SomeoneGoesOn
  <2> SUFFICES ASSUME DbInv, NEW r \in Requests, pc[r] \in Running
               PROVE  \E s \in Requests : pc[s] \in Running /\ ~Blocked(s)
    BY DEF SomeoneGoesOn
  <2>1. CASE Connected = {}
    <3>1. Cardinality(Connected) = 0
      BY <2>1, FS_EmptySet
    <3>2. pc[r] \in Waiting
      BY <2>1 DEF Connected
    <3> QED BY <3>1, <3>2, AccountsAssumption DEF Blocked
  <2>2. ASSUME NEW s \in Connected, ~(pc[s] \in {"inserting", "updating"})
        PROVE  \E t \in Requests : pc[t] \in Running /\ ~Blocked(t)
    BY <2>2 DEF Connected, Blocked
  <2>3. ASSUME NEW s \in Connected, pc[s] \in {"inserting", "updating"}
        PROVE  \E t \in Requests : pc[t] \in Running /\ ~Blocked(t)
    <3>1. CASE writer[Box(s)] = None
      BY <2>3, <3>1 DEF Connected, Blocked
    <3>2. CASE writer[Box(s)] # None
      <4>1. Box(s) \in Mailboxes
        BY <2>3 DEF Connected, DbInv, DbTypeOK, StepsTaken, Request
      <4>2. writer[Box(s)] \in Requests /\ pc[writer[Box(s)]] = "committing"
        BY <3>2, <4>1 DEF DbInv, DbTypeOK, LocksHeld
      <4> QED BY <4>2 DEF Blocked
    <3> QED BY <3>1, <3>2
  <2> QED BY <2>1, <2>2, <2>3
<1>2. Init => DbInv
  BY AccountsStart
<1>3. DbInv /\ [Next]_vars => DbInv'
  BY AccountsStepKeepsInv
<1> QED BY <1>1, <1>2, <1>3, PTL DEF Spec
===========================================================================
