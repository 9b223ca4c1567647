---------------------------- MODULE MCAuthTokens ----------------------------
(***************************************************************************)
(* Instances of AuthTokens for TLC.                                        *)
(***************************************************************************)
EXTENDS AuthTokensProofs, TLC

First == 1 .. 4

\* Requests are named in the order of their arrival.  Only the names differ in
\* the behaviours that this leaves out, and no fairness is about arrivals.
NamedInOrder ==
  \A r, s \in Requests :
    r < s /\ pc[s] = "idle" /\ pc'[s] # "idle" => pc[r] # "idle"
===========================================================================
