------------------------------ MODULE Sessions ------------------------------
(***************************************************************************)
(* What the refresh tokens promise: a login opens a session with a token;  *)
(* an exchange ends a live token and gives its user the next one, at once; *)
(* a logout ends tokens of one user.  Nothing else ever happens to one.    *)
(***************************************************************************)
CONSTANTS Tokens, Users, None

VARIABLES
  state,  \* new, live or dead
  user,   \* whose it is, None as long as it is new
  from    \* the token it was got for, None for that of a login

vars == <<state, user, from>>

Init ==
  /\ state = [k \in Tokens |-> "new"]
  /\ user = [k \in Tokens |-> None]
  /\ from = [k \in Tokens |-> None]

Open(u, n) ==
  /\ state[n] = "new"
  /\ state' = [state EXCEPT ![n] = "live"]
  /\ user' = [user EXCEPT ![n] = u]
  /\ from' = from

Exchange(k, n) ==
  /\ state[k] = "live" /\ state[n] = "new"
  /\ state' = [state EXCEPT ![k] = "dead", ![n] = "live"]
  /\ user' = [user EXCEPT ![n] = user[k]]
  /\ from' = [from EXCEPT ![n] = k]

End(u) ==
  \E K \in SUBSET {k \in Tokens : state[k] = "live" /\ user[k] = u} :
    /\ state' = [k \in Tokens |-> IF k \in K THEN "dead" ELSE state[k]]
    /\ UNCHANGED <<user, from>>

Next ==
  \/ \E u \in Users, n \in Tokens : Open(u, n)
  \/ \E k, n \in Tokens : Exchange(k, n)
  \/ \E u \in Users : End(u)

Spec == Init /\ [][Next]_vars
=============================================================================
