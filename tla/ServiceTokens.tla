--------------------------- MODULE ServiceTokens ---------------------------
(***************************************************************************)
(* The service token of each product: rotated by administrators            *)
(* (/admin/products/{id}/rotate-token), issued in batch where it is        *)
(* missing (publish.sh tokens, scripts/issue_product_tokens.py), checked   *)
(* when a product calls (app/dependencies.py).  The database keeps one     *)
(* hash per product; the token itself exists only where it has been shown. *)
(*                                                                         *)
(* A batch commits once per product, with the list of products it read     *)
(* first, and prints each token after its commit.  Its order (by slug) is  *)
(* left open.  A hash stands for the token it is the hash of.              *)
(***************************************************************************)

CONSTANTS
  Products,
  Admins,      \* rotations asked for, one transaction each
  Batches,     \* runs of publish.sh tokens
  Callers,     \* requests that show a service token
  InitialHash, \* service_token_hash at the start; None after migration 04
  None

Actors == Admins \cup Batches

\* A token is named by who built it and for which product; None built those
\* there are at the start.
Token == [by: Actors \cup {None}, of: Products]

ASSUME TokensAssumption ==
  /\ None \notin Actors \cup Token \cup Products
  /\ Admins \cap Batches = {} /\ Actors \cap Callers = {}
  /\ InitialHash \in [Products -> Token \cup {None}]
  /\ \A x \in Products : InitialHash[x] # None => InitialHash[x] = [by |-> None, of |-> x]

VARIABLES
  hash,    \* products.service_token_hash, as committed
  lock,    \* the actor that has updated the row and not committed, or None
  pc,      \* where each rotation, batch and caller is
  at,      \* the product a rotation or a batch is working on
  found,   \* the products a batch has read without a token and not reached
  shown,   \* tokens that have been shown to an administrator or printed
  file,    \* .product-service-tokens is there
  token,   \* what a caller presents
  late     \* history: that token was not in force when the caller arrived

vars == <<hash, lock, pc, at, found, shown, file, token, late>>

---------------------------------------------------------------------------
Over    == {"done", "refused", "aborted"}
Running == {"listed", "updating", "committing", "showing", "checking", "inside"}

TypeOK ==
  /\ hash \in [Products -> Token \cup {None}]
  /\ lock \in [Products -> Actors \cup {None}]
  /\ pc \in [Actors \cup Callers -> {"idle"} \cup Running \cup Over]
  /\ at \in [Actors -> Products \cup {None}]
  /\ found \in [Batches -> SUBSET Products]
  /\ shown \subseteq Token
  /\ file \in BOOLEAN
  /\ token \in [Callers -> Token \cup {None}]
  /\ late \in [Callers -> BOOLEAN]

InForce == {hash[x] : x \in Products} \ {None}

Init ==
  /\ hash = InitialHash
  /\ lock = [x \in Products |-> None]
  /\ pc = [a \in Actors \cup Callers |-> "idle"]
  /\ at = [a \in Actors |-> None]
  /\ found = [b \in Batches |-> {}]
  /\ shown = InForce
  /\ file = FALSE
  /\ token = [c \in Callers |-> None]
  /\ late = [c \in Callers |-> FALSE]

Goto(a, to) == pc' = [pc EXCEPT ![a] = to]

Built(a) == [by |-> a, of |-> at[a]]

---------------------------------------------------------------------------
(* rotate_token, the same for a rotation and for a batch *)

\* A slip in UpdateRow: the token is shown before it is committed.
UpdateRowAndShow(a) ==
  /\ pc[a] = "updating"
  /\ lock[at[a]] = None
  /\ lock' = [lock EXCEPT ![at[a]] = a]
  /\ shown' = shown \cup {Built(a)}
  /\ Goto(a, "committing")
  /\ UNCHANGED <<hash, at, found, file, token, late>>

\* The UPDATE waits for the row.
UpdateRow(a) ==
  /\ pc[a] = "updating"
  /\ lock[at[a]] = None
  /\ lock' = [lock EXCEPT ![at[a]] = a]
  /\ Goto(a, "committing")
  /\ UNCHANGED <<hash, at, found, shown, file, token, late>>

CommitToken(a) ==
  /\ pc[a] = "committing"
  /\ hash' = [hash EXCEPT ![at[a]] = Built(a)]
  /\ lock' = [lock EXCEPT ![at[a]] = None]
  /\ Goto(a, "showing")
  /\ UNCHANGED <<at, found, shown, file, token, late>>

---------------------------------------------------------------------------
(* POST /admin/products/{id}/rotate-token *)

\* session.get finds the product; what its row says is not looked at.
BeginRotate(a, x) ==
  /\ a \in Admins /\ pc[a] = "idle"
  /\ at' = [at EXCEPT ![a] = x]
  /\ Goto(a, "updating")
  /\ UNCHANGED <<hash, lock, found, shown, file, token, late>>

\* The page with the token, after refresh().
ShowToken(a) ==
  /\ a \in Admins /\ pc[a] = "showing"
  /\ shown' = shown \cup {Built(a)}
  /\ Goto(a, "done")
  /\ UNCHANGED <<hash, lock, at, found, file, token, late>>

---------------------------------------------------------------------------
(* publish.sh tokens *)

\* The file of an earlier run must be out of the way.  The list of products
\* is read once; no row is read again but the one just written.
BeginBatch(b) ==
  /\ b \in Batches /\ pc[b] = "idle"
  /\ ~file
  /\ file' = TRUE
  /\ found' = [found EXCEPT ![b] = {x \in Products : hash[x] = None}]
  /\ Goto(b, "listed")
  /\ UNCHANGED <<hash, lock, at, shown, token, late>>

\* A slip in NextProduct: the list does not shrink.
SameProduct(b, x) ==
  /\ b \in Batches /\ pc[b] = "listed"
  /\ x \in found[b]
  /\ at' = [at EXCEPT ![b] = x]
  /\ Goto(b, "updating")
  /\ UNCHANGED <<hash, lock, found, shown, file, token, late>>

\* The next product of the list that had no token when the list was read.
NextProduct(b, x) ==
  /\ b \in Batches /\ pc[b] = "listed"
  /\ x \in found[b]
  /\ found' = [found EXCEPT ![b] = @ \ {x}]
  /\ at' = [at EXCEPT ![b] = x]
  /\ Goto(b, "updating")
  /\ UNCHANGED <<hash, lock, shown, file, token, late>>

\* A slip in PrintToken: the tokens are printed when the last one is there.
PrintAtEnd(b) ==
  /\ b \in Batches /\ pc[b] = "showing"
  /\ shown' = IF found[b] = {} THEN shown \cup {k \in InForce : k.by = b} ELSE shown
  /\ Goto(b, "listed")
  /\ UNCHANGED <<hash, lock, at, found, file, token, late>>

PrintToken(b) ==
  /\ b \in Batches /\ pc[b] = "showing"
  /\ shown' = shown \cup {Built(b)}
  /\ Goto(b, "listed")
  /\ UNCHANGED <<hash, lock, at, found, file, token, late>>

\* An empty file is removed.
EndBatch(b) ==
  /\ b \in Batches /\ pc[b] = "listed"
  /\ found[b] = {}
  /\ file' = (file /\ \E k \in shown : k.by = b)
  /\ Goto(b, "done")
  /\ UNCHANGED <<hash, lock, at, found, shown, token, late>>

\* The operator keeps the tokens and puts the file out of the way.
MoveFile ==
  /\ file
  /\ \A b \in Batches : pc[b] \in {"idle"} \cup Over
  /\ file' = FALSE
  /\ UNCHANGED <<hash, lock, pc, at, found, shown, token, late>>

---------------------------------------------------------------------------
(* Requests with X-Service-Token *)

\* A caller presents a token it has been given, in force or not.
Arrive(c, k) ==
  /\ c \in Callers /\ pc[c] = "idle"
  /\ token' = [token EXCEPT ![c] = k]
  /\ late' = [late EXCEPT ![c] = hash[k.of] # k]
  /\ Goto(c, "checking")
  /\ UNCHANGED <<hash, lock, at, found, shown, file>>

\* require_service_token reads the committed row of the product in the token.
Admit(c) ==
  /\ c \in Callers /\ pc[c] = "checking"
  /\ hash[token[c].of] = token[c]
  /\ Goto(c, "inside")
  /\ UNCHANGED <<hash, lock, at, found, shown, file, token, late>>

Refuse(c) ==
  /\ c \in Callers /\ pc[c] = "checking"
  /\ hash[token[c].of] # token[c]
  /\ Goto(c, "refused")
  /\ UNCHANGED <<hash, lock, at, found, shown, file, token, late>>

\* The handler goes on with the product it has been given; no second look.
Answer(c) ==
  /\ c \in Callers /\ pc[c] = "inside"
  /\ Goto(c, "done")
  /\ UNCHANGED <<hash, lock, at, found, shown, file, token, late>>

---------------------------------------------------------------------------
(* Failures *)

\* Before the commit the row is rolled back; after it the token is lost.  A
\* batch leaves its file behind.
Abort(a) ==
  /\ a \in Actors /\ pc[a] \in Running
  /\ lock' = [x \in Products |-> IF lock[x] = a THEN None ELSE lock[x]]
  /\ Goto(a, "aborted")
  /\ UNCHANGED <<hash, at, found, shown, file, token, late>>

\* Nothing is left to do; a caller may never come.
Finished ==
  /\ \A a \in Actors : pc[a] \in Over
  /\ \A c \in Callers : pc[c] \in {"idle"} \cup Over
  /\ UNCHANGED vars

\* The steps that the server, the script and the database take by themselves.
Serve(a) ==
  \/ UpdateRow(a) \/ CommitToken(a) \/ ShowToken(a)
  \/ (\E x \in Products : NextProduct(a, x)) \/ PrintToken(a) \/ EndBatch(a)

ServeCaller(c) == Admit(c) \/ Refuse(c) \/ Answer(c)

Next ==
  \/ \E a \in Actors : Serve(a) \/ BeginBatch(a) \/ Abort(a)
  \/ \E a \in Admins, x \in Products : BeginRotate(a, x)
  \/ \E c \in Callers : ServeCaller(c)
  \/ \E c \in Callers, k \in shown : Arrive(c, k)
  \/ MoveFile
  \/ Finished

Spec == Init /\ [][Next]_vars

\* The event loop, the script and the database go on with what they have begun.
FairSpec == Spec /\ \A a \in Actors : WF_vars(Serve(a))

---------------------------------------------------------------------------
(* Properties *)

\* A rotation invalidates the token before it: a request that arrives when its
\* token is not in force is refused, whatever rotations and batches do, or
\* fail to do, between its arrival and the check.  A token that is shown has
\* been committed, and one that is replaced does not come back.
OldTokensRefused == \A c \in Callers : pc[c] \in {"inside", "done"} => ~late[c]

\* The database keeps no token, so the one in force must have been shown: it
\* has, or its maker is about to, or has failed between commit and answer.
NoTokenLost ==
  \A x \in Products : hash[x] # None =>
    \/ hash[x] \in shown
    \/ /\ hash[x].by \in Actors /\ at[hash[x].by] = x
       /\ pc[hash[x].by] \in {"showing", "aborted"}

\* Every rotation and every batch ends, those included that wait for a row.
IssuesEnd == \A a \in Actors : (pc[a] \in Running) ~> (pc[a] \in Over)

\* README and publish.sh: the batch issues the tokens that are missing, so it
\* never replaces one that is in force.
BatchIssuesMissing ==
  [][\A x \in Products : hash'[x] # hash[x] /\ hash'[x].by \in Batches => hash[x] = None]_vars

===========================================================================
