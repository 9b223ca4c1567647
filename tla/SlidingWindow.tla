--------------------------- MODULE SlidingWindow ---------------------------
(***************************************************************************)
(* What a limit of so many attempts per window promises: an attempt is     *)
(* admitted exactly when fewer than Limit were admitted in the window that *)
(* ends now.  The whole history of each key is kept and counted.           *)
(***************************************************************************)
EXTENDS Naturals, Sequences, FiniteSets

CONSTANTS Keys, Limit, Window

VARIABLES
  admitted,  \* the times at which each key was admitted, in order
  verdict,   \* what each key was told last
  now

vars == <<admitted, verdict, now>>

Init ==
  /\ admitted = [k \in Keys |-> <<>>]
  /\ verdict = [k \in Keys |-> TRUE]
  /\ now = 0

\* The admissions of the window (now - Window, now].
Recent(k) == {i \in DOMAIN admitted[k] : admitted[k][i] + Window > now}

Attempt(k) ==
  /\ verdict' = [verdict EXCEPT ![k] = Cardinality(Recent(k)) < Limit]
  /\ admitted' = IF verdict'[k] THEN [admitted EXCEPT ![k] = Append(@, now)] ELSE admitted
  /\ now' = now

\* The history is lost, and with it what the limit was to be held against.
Forget ==
  /\ admitted' = [k \in Keys |-> <<>>]
  /\ UNCHANGED <<verdict, now>>

Pass ==
  /\ now' > now
  /\ UNCHANGED <<admitted, verdict>>

Next == (\E k \in Keys : Attempt(k)) \/ Forget \/ Pass

Spec == Init /\ [][Next]_vars
===========================================================================
