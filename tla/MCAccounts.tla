---------------------------- MODULE MCAccounts ----------------------------
(***************************************************************************)
(* An instance of Accounts for TLC: requests for one mailbox from one      *)
(* address, with two passwords, over a pool that can be full.              *)
(***************************************************************************)
EXTENDS Accounts

CONSTANTS m1, p1, p2, h1

First == 1 .. 3

MCMailboxes == {m1}
MCPasswords == {p1, p2}
MCHosts == {h1}
MCKeys == MCMailboxes \X MCHosts

\* Requests are named in the order of their arrival.  Only the names differ in
\* the behaviours that this leaves out, and no fairness is about arrivals.
NamedInOrder ==
  \A r, s \in Requests :
    r < s /\ pc[s] = "idle" /\ pc'[s] # "idle" => pc[r] # "idle"
===========================================================================
