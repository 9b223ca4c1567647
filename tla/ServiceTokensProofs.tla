------------------------- MODULE ServiceTokensProofs -------------------------
(***************************************************************************)
(* Proofs about ServiceTokens, for any products, rotations, batches and    *)
(* callers.                                                                *)
(***************************************************************************)
EXTENDS ServiceTokens, TLAPS

Working == {"updating", "committing", "showing"}

\* A rotation or batch at work has a product, which a batch has taken from
\* its list for good.
WorkOK(a) ==
  /\ pc[a] \in Working => at[a] \in Products
  /\ a \in Batches /\ pc[a] \in Working => at[a] \notin found[a]
  /\ a \in Admins => pc[a] # "listed"
  /\ pc[a] \notin {"checking", "inside"}

\* Whoever has shown a token is past building it.
ShownOK(k) ==
  k.by \in Actors =>
    /\ pc[k.by] # "idle"
    /\ k.by \in Admins => pc[k.by] \in Over
    /\ k.by \in Batches =>
         /\ k.of \notin found[k.by]
         /\ pc[k.by] \in Working => at[k.by] # k.of

\* A caller presents a token it was shown; one out of force stays so.
CallerOK(c) ==
  /\ pc[c] \notin Working \cup {"listed"}
  /\ pc[c] = "checking" =>
       /\ token[c] \in shown
       /\ late[c] => hash[token[c].of] # token[c]

\* The hash of a product is of a token built for it.
HashOK == \A x \in Products : hash[x] # None => hash[x].of = x

\* The types, the four facts above, and the properties.
IInv ==
  /\ TypeOK
  /\ HashOK
  /\ \A a \in Actors : WorkOK(a)
  /\ \A k \in shown : ShownOK(k)
  /\ \A c \in Callers : CallerOK(c)
  /\ OldTokensRefused
  /\ NoTokenLost

---------------------------------------------------------------------------
(* Steps *)

\* Tokens are told apart by their builder and their product.
LEMMA TokenFacts ==
  ASSUME NEW a \in Actors, NEW x \in Products
  PROVE  /\ [by |-> a, of |-> x] \in Token /\ [by |-> a, of |-> x] # None
         /\ [by |-> a, of |-> x].by = a /\ [by |-> a, of |-> x].of = x
         /\ \A k \in Token : k.by = a /\ k.of = x => k = [by |-> a, of |-> x]
<1>1. [by |-> a, of |-> x] \in Token
  BY DEF Token
<1> QED
  BY <1>1, TokensAssumption DEF Token

\* Steps that change where one actor is, and neither hashes nor tokens shown.
LEMMA QuietKeeps ==
  ASSUME IInv, TypeOK', NEW a \in Actors,
         \A b \in Actors \ {a} : at'[b] = at[b] /\ pc'[b] = pc[b],
         \A b \in Batches \ {a} : found'[b] = found[b],
         \A c \in Callers : pc'[c] = pc[c],
         UNCHANGED <<hash, shown, token, late>>,
         WorkOK(a)',
         \A k \in shown : k.by = a => ShownOK(k)',
         \A x \in Products : hash[x] # None /\ hash[x].by = a =>
           hash[x] \in shown \/ (at'[a] = x /\ pc'[a] \in {"showing", "aborted"})
  PROVE  IInv'
<1>1. \A b \in Actors : WorkOK(b)'
  BY DEF IInv, WorkOK, Actors
<1>2. ASSUME NEW k \in shown PROVE ShownOK(k)'
  <2>1. CASE k.by = a
    BY <2>1
  <2>2. CASE k.by # a
    BY <2>2 DEF IInv, ShownOK, Actors
  <2> QED
    BY <2>1, <2>2
<1>3. \A c \in Callers : CallerOK(c)'
  BY DEF IInv, CallerOK
<1>4. OldTokensRefused'
  BY DEF IInv, OldTokensRefused
<1>5. HashOK' /\ NoTokenLost'
  BY DEF IInv, HashOK, NoTokenLost
<1> QED
  BY <1>1, <1>2, <1>3, <1>4, <1>5 DEF IInv

\* The uncommitted token changes no row.
LEMMA UpdateRowKeeps ==
  ASSUME IInv, NEW a \in Actors, UpdateRow(a)
  PROVE  IInv'
<1>1. /\ pc[a] = "updating" /\ pc' = [pc EXCEPT ![a] = "committing"]
      /\ lock' = [lock EXCEPT ![at[a]] = a]
      /\ UNCHANGED <<hash, at, found, shown, file, token, late>>
  BY DEF UpdateRow, Goto
<1>2. TypeOK' /\ pc'[a] = "committing"
  BY <1>1 DEF IInv, TypeOK, Running
<1>3. \A b \in Actors \cup Callers : b # a => pc'[b] = pc[b]
  BY <1>1 DEF IInv, TypeOK
<1>4. WorkOK(a)'
  BY <1>1, <1>2 DEF IInv, WorkOK, Working
<1>5. \A k \in shown : k.by = a => ShownOK(k)'
  BY <1>1, <1>2 DEF IInv, ShownOK, Working, Over, Actors
<1>6. \A x \in Products : hash[x] # None /\ hash[x].by = a => hash[x] \in shown
  BY <1>1 DEF IInv, NoTokenLost
<1>7. \A c \in Callers : pc'[c] = pc[c]
  BY <1>3, TokensAssumption
<1> QED
  BY <1>1, <1>2, <1>3, <1>4, <1>5, <1>6, <1>7, QuietKeeps

\* A rotation that begins names its product and changes no row.
LEMMA BeginRotateKeeps ==
  ASSUME IInv, NEW a \in Admins, NEW p \in Products, BeginRotate(a, p)
  PROVE  IInv'
<1>0. a \in Actors /\ a \notin Batches
  BY TokensAssumption DEF Actors
<1>1. /\ pc[a] = "idle" /\ pc' = [pc EXCEPT ![a] = "updating"]
      /\ at' = [at EXCEPT ![a] = p]
      /\ UNCHANGED <<hash, lock, found, shown, file, token, late>>
  BY DEF BeginRotate, Goto
<1>2. TypeOK' /\ pc'[a] = "updating" /\ at'[a] = p
  BY <1>0, <1>1 DEF IInv, TypeOK, Running
<1>3. \A b \in Actors : b # a => pc'[b] = pc[b] /\ at'[b] = at[b]
  BY <1>1 DEF IInv, TypeOK
<1>4. WorkOK(a)'
  BY <1>0, <1>1, <1>2 DEF WorkOK, Working
<1>5. \A k \in shown : k.by = a => ShownOK(k)'
  BY <1>0, <1>1 DEF IInv, ShownOK
<1>6. \A x \in Products : hash[x] # None /\ hash[x].by = a => hash[x] \in shown
  BY <1>1 DEF IInv, NoTokenLost
<1>7. \A c \in Callers : pc'[c] = pc[c]
  BY <1>0, <1>1, TokensAssumption DEF IInv, TypeOK
<1> QED
  BY <1>0, <1>1, <1>2, <1>3, <1>4, <1>5, <1>6, <1>7, QuietKeeps

\* A batch begins with the rows of that moment.
LEMMA BeginBatchKeeps ==
  ASSUME IInv, NEW b \in Actors, BeginBatch(b)
  PROVE  IInv'
<1>0. b \in Batches /\ b \notin Admins
  BY TokensAssumption DEF BeginBatch
<1>1. /\ pc[b] = "idle" /\ pc' = [pc EXCEPT ![b] = "listed"]
      /\ found' = [found EXCEPT ![b] = {x \in Products : hash[x] = None}]
      /\ file' = TRUE
      /\ UNCHANGED <<hash, lock, at, shown, token, late>>
  BY DEF BeginBatch, Goto
<1>2. TypeOK' /\ pc'[b] = "listed"
  BY <1>0, <1>1 DEF IInv, TypeOK, Running
<1>3. /\ \A a \in Actors : a # b => pc'[a] = pc[a]
      /\ \A a \in Batches : a # b => found'[a] = found[a]
  BY <1>1 DEF IInv, TypeOK
<1>4. WorkOK(b)'
  BY <1>0, <1>2 DEF WorkOK, Working
<1>5. \A k \in shown : k.by = b => ShownOK(k)'
  BY <1>0, <1>1 DEF IInv, ShownOK
<1>6. \A x \in Products : hash[x] # None /\ hash[x].by = b => hash[x] \in shown
  BY <1>1 DEF IInv, NoTokenLost
<1>7. \A c \in Callers : pc'[c] = pc[c]
  BY <1>1, TokensAssumption DEF IInv, TypeOK
<1> QED
  BY <1>1, <1>2, <1>3, <1>4, <1>5, <1>6, <1>7, QuietKeeps

\* A batch goes on to one of the products it found.
LEMMA NextProductKeeps ==
  ASSUME IInv, NEW b \in Actors, NEW p \in Products, NextProduct(b, p)
  PROVE  IInv'
<1>0. b \in Batches /\ b \notin Admins
  BY TokensAssumption DEF NextProduct
<1>1. /\ pc[b] = "listed" /\ pc' = [pc EXCEPT ![b] = "updating"]
      /\ p \in found[b]
      /\ found' = [found EXCEPT ![b] = @ \ {p}] /\ at' = [at EXCEPT ![b] = p]
      /\ UNCHANGED <<hash, lock, shown, file, token, late>>
  BY DEF NextProduct, Goto
<1>2. TypeOK'
  BY <1>0, <1>1 DEF IInv, TypeOK, Running
<1>3. /\ \A a \in Actors : a # b => pc'[a] = pc[a] /\ at'[a] = at[a]
      /\ \A a \in Batches : a # b => found'[a] = found[a]
      /\ pc'[b] = "updating" /\ at'[b] = p /\ found'[b] = found[b] \ {p}
  BY <1>0, <1>1 DEF IInv, TypeOK
<1>4. WorkOK(b)'
  BY <1>0, <1>3 DEF WorkOK, Working
<1>5. \A k \in shown : k.by = b => ShownOK(k)'
  BY <1>0, <1>1, <1>3 DEF IInv, ShownOK, Actors
<1>6. \A x \in Products : hash[x] # None /\ hash[x].by = b => hash[x] \in shown
  BY <1>1 DEF IInv, NoTokenLost
<1>7. \A c \in Callers : pc'[c] = pc[c]
  BY <1>1, TokensAssumption DEF IInv, TypeOK
<1> QED
  BY <1>1, <1>2, <1>3, <1>4, <1>5, <1>6, <1>7, QuietKeeps

\* A batch that ends says what becomes of the file.
LEMMA EndBatchKeeps ==
  ASSUME IInv, NEW b \in Actors, EndBatch(b)
  PROVE  IInv'
<1>0. b \in Batches /\ b \notin Admins
  BY TokensAssumption DEF EndBatch
<1>1. /\ pc[b] = "listed" /\ pc' = [pc EXCEPT ![b] = "done"] /\ file' \in BOOLEAN
      /\ UNCHANGED <<hash, lock, at, found, shown, token, late>>
  <2>1. file \in BOOLEAN
    BY DEF IInv, TypeOK
  <2> QED
    BY <2>1 DEF EndBatch, Goto
<1>2. TypeOK' /\ pc'[b] = "done"
  BY <1>1 DEF IInv, TypeOK, Over
<1>3. \A a \in Actors \cup Callers : a # b => pc'[a] = pc[a]
  BY <1>1 DEF IInv, TypeOK
<1>4. WorkOK(b)'
  BY <1>0, <1>2 DEF WorkOK, Working
<1>5. \A k \in shown : k.by = b => ShownOK(k)'
  BY <1>0, <1>1, <1>2 DEF IInv, ShownOK, Working
<1>6. \A x \in Products : hash[x] # None /\ hash[x].by = b => hash[x] \in shown
  BY <1>1 DEF IInv, NoTokenLost
<1>7. \A c \in Callers : pc'[c] = pc[c]
  BY <1>3, TokensAssumption
<1> QED
  BY <1>1, <1>2, <1>3, <1>4, <1>5, <1>6, <1>7, QuietKeeps

\* An abort keeps what was committed.
LEMMA AbortKeeps ==
  ASSUME IInv, NEW a \in Actors, Abort(a)
  PROVE  IInv'
<1>1. /\ pc[a] \in Running /\ pc' = [pc EXCEPT ![a] = "aborted"]
      /\ lock' = [x \in Products |-> IF lock[x] = a THEN None ELSE lock[x]]
      /\ UNCHANGED <<hash, at, found, shown, file, token, late>>
  BY DEF Abort, Goto
<1>2. TypeOK' /\ pc'[a] = "aborted"
  BY <1>1 DEF IInv, TypeOK, Over
<1>3. \A b \in Actors \cup Callers : b # a => pc'[b] = pc[b]
  BY <1>1 DEF IInv, TypeOK
<1>4. WorkOK(a)'
  BY <1>2 DEF WorkOK, Working
<1>5. \A k \in shown : k.by = a => ShownOK(k)'
  BY <1>1, <1>2 DEF IInv, ShownOK, Working, Over
<1>6. \A x \in Products : hash[x] # None /\ hash[x].by = a =>
        hash[x] \in shown \/ (at[a] = x /\ pc'[a] \in {"showing", "aborted"})
  BY <1>2 DEF IInv, NoTokenLost
<1>7. \A c \in Callers : pc'[c] = pc[c]
  BY <1>3, TokensAssumption
<1> QED
  BY <1>1, <1>2, <1>3, <1>4, <1>5, <1>6, <1>7, QuietKeeps

\* A token is shown by its maker, once its work on the product is over.
LEMMA ShowKeeps ==
  ASSUME IInv, NEW a \in Actors, ShowToken(a) \/ PrintToken(a)
  PROVE  IInv'
<1> DEFINE k0 == Built(a)
           to == IF a \in Admins THEN "done" ELSE "listed"
<1>1. /\ pc[a] = "showing" /\ pc' = [pc EXCEPT ![a] = to] /\ shown' = shown \cup {k0}
      /\ UNCHANGED <<hash, lock, at, found, file, token, late>>
  BY TokensAssumption DEF ShowToken, PrintToken, Goto
<1>2. at[a] \in Products /\ WorkOK(a)
  BY <1>1 DEF IInv, WorkOK, Working
<1>3. k0 \in Token /\ k0.by = a /\ k0.of = at[a]
  BY <1>2, TokenFacts DEF Built
<1> HIDE DEF k0
<1>4. TypeOK' /\ pc'[a] = to
  BY <1>1, <1>3 DEF IInv, TypeOK, Over, Running
<1>5. \A b \in Actors \cup Callers : b # a => pc'[b] = pc[b]
  BY <1>1 DEF IInv, TypeOK
<1>6. \A b \in Actors : WorkOK(b)'
  BY <1>1, <1>2, <1>4, <1>5, TokensAssumption DEF IInv, WorkOK, Working
<1>7. ASSUME NEW k \in shown' PROVE ShownOK(k)'
  <2>1. CASE k = k0
    BY <1>1, <1>2, <1>3, <1>4, <2>1, TokensAssumption DEF ShownOK, WorkOK, Working, Over
  <2>2. CASE k # k0 /\ k.by = a
    <3>1. ShownOK(k) /\ k \in shown
      BY <1>1, <1>7, <2>2 DEF IInv
    <3> QED
      BY <1>1, <1>4, <2>2, <3>1, TokensAssumption DEF ShownOK, Working, Over
  <2>3. CASE k # k0 /\ k.by # a
    <3>1. ShownOK(k) /\ k \in shown
      BY <1>1, <1>7, <2>3 DEF IInv
    <3> QED
      BY <1>1, <1>5, <2>3, <3>1 DEF ShownOK, Actors
  <2> QED
    BY <2>1, <2>2, <2>3
<1>8. \A c \in Callers : pc'[c] = pc[c]
  BY <1>5, TokensAssumption
<1>9. (\A c \in Callers : CallerOK(c)') /\ OldTokensRefused'
  BY <1>1, <1>8 DEF IInv, CallerOK, OldTokensRefused
<1>11. HashOK'
  BY <1>1 DEF IInv, HashOK
<1>10. NoTokenLost'
  <2>1. SUFFICES ASSUME NEW x \in Products, hash[x] # None
                 PROVE  \/ hash[x] \in shown \cup {k0}
                        \/ /\ hash[x].by \in Actors /\ at[hash[x].by] = x
                           /\ pc'[hash[x].by] \in {"showing", "aborted"}
    BY <1>1 DEF NoTokenLost
  <2>2. CASE hash[x].by = a /\ at[a] = x
    <3>1. hash[x] \in Token /\ hash[x].of = x
      BY <2>1 DEF IInv, TypeOK, HashOK
    <3>2. hash[x] = [by |-> a, of |-> x]
      BY <2>2, <3>1, TokenFacts
    <3>3. k0 = [by |-> a, of |-> x]
      BY <2>2 DEF k0, Built
    <3> QED
      BY <3>2, <3>3
  <2>3. CASE ~(hash[x].by = a /\ at[a] = x)
    BY <1>5, <2>1, <2>3 DEF IInv, NoTokenLost
  <2> QED
    BY <2>2, <2>3
<1> QED
  BY <1>4, <1>6, <1>7, <1>9, <1>10, <1>11 DEF IInv

\* The commit puts a token in force that has not been shown, so no caller
\* presents it; a token it replaces was there before, so it had been shown.
LEMMA CommitTokenKeeps ==
  ASSUME IInv, NEW a \in Actors, CommitToken(a)
  PROVE  IInv'
<1> DEFINE k0 == Built(a)
<1>1. /\ pc[a] = "committing" /\ pc' = [pc EXCEPT ![a] = "showing"]
      /\ hash' = [hash EXCEPT ![at[a]] = k0]
      /\ lock' = [lock EXCEPT ![at[a]] = None]
      /\ UNCHANGED <<at, found, shown, file, token, late>>
  BY DEF CommitToken, Goto
<1>2. at[a] \in Products /\ WorkOK(a)
  BY <1>1 DEF IInv, WorkOK, Working
<1>3. k0 \in Token /\ k0.by = a /\ k0.of = at[a] /\ k0 # None
  BY <1>2, TokenFacts DEF Built
<1> HIDE DEF k0
<1>4. TypeOK' /\ pc'[a] = "showing"
  BY <1>1, <1>2, <1>3 DEF IInv, TypeOK, Running
<1>5. \A b \in Actors \cup Callers : b # a => pc'[b] = pc[b]
  BY <1>1 DEF IInv, TypeOK
<1>6. \A x \in Products : hash'[x] = IF x = at[a] THEN k0 ELSE hash[x]
  BY <1>1 DEF IInv, TypeOK
<1>7. k0 \notin shown
  BY <1>1, <1>3 DEF IInv, ShownOK, Working, Over, Actors
<1>8. \A b \in Actors : WorkOK(b)'
  BY <1>1, <1>2, <1>4, <1>5 DEF IInv, WorkOK, Working
<1>9. ASSUME NEW k \in shown PROVE ShownOK(k)'
  BY <1>1, <1>4, <1>5 DEF IInv, ShownOK, Working, Over, Actors
<1>10. \A c \in Callers : pc'[c] = pc[c]
  BY <1>5, TokensAssumption
<1>11. ASSUME NEW c \in Callers PROVE CallerOK(c)'
  <2>1. CASE pc[c] = "checking"
    <3>1. /\ token[c] \in shown /\ token[c].of \in Products
          /\ late[c] => hash[token[c].of] # token[c]
      BY <2>1 DEF IInv, CallerOK, TypeOK, Token
    <3> QED
      BY <1>1, <1>6, <1>7, <1>10, <2>1, <3>1 DEF CallerOK, Working
  <2>2. CASE pc[c] # "checking"
    BY <1>1, <1>10, <2>2 DEF IInv, CallerOK
  <2> QED
    BY <2>1, <2>2
<1>12. OldTokensRefused'
  BY <1>1, <1>10 DEF IInv, OldTokensRefused
<1>13. HashOK'
  BY <1>3, <1>6 DEF IInv, HashOK
<1>14. NoTokenLost'
  BY <1>1, <1>3, <1>4, <1>5, <1>6 DEF IInv, NoTokenLost
<1> QED
  BY <1>1, <1>4, <1>8, <1>9, <1>11, <1>12, <1>13, <1>14 DEF IInv

\* Steps of callers, and the file: rotations and batches are where they were.
LEMMA CallerKeeps ==
  ASSUME IInv, TypeOK', UNCHANGED <<hash, at, found, shown>>,
         \A a \in Actors : pc'[a] = pc[a],
         \A c \in Callers : CallerOK(c)',
         OldTokensRefused'
  PROVE  IInv'
<1>1. \A a \in Actors : WorkOK(a)'
  BY DEF IInv, WorkOK, Actors
<1>2. \A k \in shown' : ShownOK(k)'
  BY DEF IInv, ShownOK, Actors
<1>3. HashOK' /\ NoTokenLost'
  BY DEF IInv, HashOK, NoTokenLost
<1> QED
  BY <1>1, <1>2, <1>3 DEF IInv

\* An arriving request presents a token and changes none.
LEMMA ArriveKeeps ==
  ASSUME IInv, NEW c \in Callers, NEW k \in shown, Arrive(c, k)
  PROVE  IInv'
<1>1. /\ pc' = [pc EXCEPT ![c] = "checking"] /\ pc[c] = "idle"
      /\ token' = [token EXCEPT ![c] = k]
      /\ late' = [late EXCEPT ![c] = hash[k.of] # k]
      /\ UNCHANGED <<hash, lock, at, found, shown, file>>
  BY DEF Arrive, Goto
<1>2. k \in Token
  BY DEF IInv, TypeOK
<1>3. token' \in [Callers -> Token \cup {None}] /\ late' \in [Callers -> BOOLEAN]
  BY <1>1, <1>2 DEF IInv, TypeOK
<1>4. TypeOK'
  BY <1>1, <1>3 DEF IInv, TypeOK, Running
<1>5. /\ pc'[c] = "checking" /\ token'[c] = k /\ late'[c] = (hash[k.of] # k)
      /\ \A d \in Callers \ {c} : pc'[d] = pc[d] /\ token'[d] = token[d] /\ late'[d] = late[d]
      /\ \A a \in Actors : pc'[a] = pc[a]
  BY <1>1, TokensAssumption DEF IInv, TypeOK
<1>6. ASSUME NEW d \in Callers PROVE CallerOK(d)'
  <2>1. CASE d = c
    <3>1. late'[c] => hash[k.of] # k
      BY <1>5, Zenon
    <3> QED
      BY <1>1, <1>5, <2>1, <3>1 DEF CallerOK, Working
  <2>2. CASE d # c
    BY <1>1, <1>5, <2>2 DEF IInv, CallerOK, Working
  <2> QED
    BY <2>1, <2>2
<1>7. OldTokensRefused'
  BY <1>5 DEF IInv, OldTokensRefused
<1> QED
  BY <1>1, <1>4, <1>5, <1>6, <1>7, CallerKeeps

\* Only a token in force gets past the check.
LEMMA ServeCallerKeeps ==
  ASSUME IInv, NEW c \in Callers, ServeCaller(c)
  PROVE  IInv'
<1>1. /\ UNCHANGED <<hash, lock, at, found, shown, file, token, late>>
      /\ \/ /\ pc' = [pc EXCEPT ![c] = "inside"] /\ pc[c] = "checking"
            /\ hash[token[c].of] = token[c]
         \/ pc' = [pc EXCEPT ![c] = "refused"]
         \/ pc' = [pc EXCEPT ![c] = "done"] /\ pc[c] = "inside"
  BY DEF ServeCaller, Admit, Refuse, Answer, Goto
<1>2. TypeOK'
  BY <1>1 DEF IInv, TypeOK, Running, Over
<1>3. /\ \A d \in Callers \ {c} : pc'[d] = pc[d]
      /\ \A a \in Actors : pc'[a] = pc[a]
      /\ pc'[c] \in {"inside", "refused", "done"}
      /\ pc'[c] = "inside" => pc[c] = "checking" /\ hash[token[c].of] = token[c]
      /\ pc'[c] = "done" => pc[c] = "inside"
  BY <1>1, TokensAssumption DEF IInv, TypeOK
<1>4. ASSUME NEW d \in Callers PROVE CallerOK(d)'
  BY <1>1, <1>3 DEF IInv, CallerOK, Working
<1>5. OldTokensRefused'
  BY <1>1, <1>3 DEF IInv, OldTokensRefused, CallerOK
<1> QED
  BY <1>1, <1>2, <1>3, <1>4, <1>5, CallerKeeps

\* The tokens of the file stay known when it is moved.
LEMMA MoveFileKeeps ==
  ASSUME IInv, MoveFile
  PROVE  IInv'
<1>1. TypeOK' /\ UNCHANGED <<hash, pc, at, found, shown, token, late>>
  BY DEF IInv, TypeOK, MoveFile
<1>2. (\A c \in Callers : CallerOK(c)') /\ OldTokensRefused'
  BY <1>1 DEF IInv, CallerOK, OldTokensRefused
<1> QED
  BY <1>1, <1>2, CallerKeeps

---------------------------------------------------------------------------
(* Theorems *)

\* At the start nobody is at work, and the tokens in force have been shown.
LEMMA InitHolds == Init => IInv
<1> SUFFICES ASSUME Init PROVE IInv
  OBVIOUS
<1>1. TypeOK
  <2>1. hash \in [Products -> Token \cup {None}]
    BY TokensAssumption DEF Init
  <2>2. InForce \subseteq Token
    BY <2>1 DEF InForce
  <2> QED
    BY <2>1, <2>2 DEF Init, TypeOK
<1>2. HashOK
  <2>1. \A x \in Products : hash[x] # None => hash[x] = [by |-> None, of |-> x]
    BY TokensAssumption DEF Init
  <2> QED
    <3>1. \A x \in Products : [by |-> None, of |-> x].of = x
      OBVIOUS
    <3> QED
      BY <2>1, <3>1, Zenon DEF HashOK
<1>3. NoTokenLost
  BY DEF Init, NoTokenLost, InForce
<1>4. ASSUME NEW a \in Actors PROVE WorkOK(a)
  BY DEF Init, WorkOK, Working
<1>5. ASSUME NEW k \in shown PROVE ShownOK(k)
  <2>1. k.by = None
    BY TokensAssumption DEF Init, InForce
  <2> QED
    BY <2>1, TokensAssumption DEF ShownOK
<1>6. (\A c \in Callers : CallerOK(c)) /\ OldTokensRefused
  BY DEF Init, CallerOK, OldTokensRefused, Working
<1> QED
  BY <1>1, <1>2, <1>3, <1>4, <1>5, <1>6 DEF IInv

\* Every step of rotate_token's callers, of the batch, of the requests that
\* present a token and of the failures keeps IInv.
THEOREM Inductive == IInv /\ [Next]_vars => IInv'
<1> SUFFICES ASSUME IInv, [Next]_vars PROVE IInv'
  OBVIOUS
<1>1. ASSUME NEW a \in Actors, Serve(a) PROVE IInv'
  BY <1>1, UpdateRowKeeps, CommitTokenKeeps, ShowKeeps, NextProductKeeps, EndBatchKeeps
     DEF Serve
<1>2. ASSUME NEW a \in Actors, BeginBatch(a) \/ Abort(a) PROVE IInv'
  BY <1>2, BeginBatchKeeps, AbortKeeps
<1>3. ASSUME NEW a \in Admins, NEW x \in Products, BeginRotate(a, x) PROVE IInv'
  BY <1>3, BeginRotateKeeps
<1>4. ASSUME NEW c \in Callers, ServeCaller(c) PROVE IInv'
  BY <1>4, ServeCallerKeeps
<1>5. ASSUME NEW c \in Callers, NEW k \in shown, Arrive(c, k) PROVE IInv'
  BY <1>5, ArriveKeeps
<1>6. CASE MoveFile
  BY <1>6, MoveFileKeeps
<1>7. CASE UNCHANGED vars
  BY <1>7 DEF vars, IInv, TypeOK, HashOK, WorkOK, ShownOK, CallerOK, OldTokensRefused, NoTokenLost
<1> QED
  BY <1>1, <1>2, <1>3, <1>4, <1>5, <1>6, <1>7 DEF Next, Finished

\* The invariant holds in every reachable state.
LEMMA Always == Spec => []IInv
<1> QED
  BY InitHolds, Inductive, PTL DEF Spec

\* The hashes, locks, lists and requests of the service tokens keep their types.
THEOREM TypeCorrect == Spec => []TypeOK
<1>1. IInv => TypeOK
  BY DEF IInv
<1> QED
  BY <1>1, Always, PTL

\* A token that a rotation or a batch replaced (rotate_token) does not get
\* past require_service_token again, however many rotations, batches and
\* callers there are and wherever they fail.
THEOREM OldTokensStayOut == Spec => []OldTokensRefused
<1>1. IInv => OldTokensRefused
  BY DEF IInv
<1> QED
  BY <1>1, Always, PTL

\* The token in force of every product has been shown, unless its maker is
\* about to show it or failed between commit and answer.
THEOREM TokensAreKnown == Spec => []NoTokenLost
<1>1. IInv => NoTokenLost
  BY DEF IInv
<1> QED
  BY <1>1, Always, PTL

===========================================================================
