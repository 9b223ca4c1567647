---------------------------- MODULE RateLimiter ----------------------------
(***************************************************************************)
(* FixedWindowRateLimiter (app/security.py), which POST /auth/token asks   *)
(* before anything else.  Despite its name it keeps a sliding window: the  *)
(* times of the admitted attempts of each key, the oldest at the left,     *)
(* from where they are dropped when the next attempt finds them too old.   *)
(*                                                                         *)
(* The route is a coroutine and allow has no await, so that a call is one  *)
(* step.  The table lives in the process: it is empty after a restart.     *)
(***************************************************************************)
EXTENDS Naturals, Sequences

CONSTANTS
  Keys,     \* the digests of product, e-mail and client address
  Limit,    \* login_rate_limit
  Window,   \* login_rate_window_seconds
  MaxTime   \* bound: the clock stops here

ASSUME LimiterAssumption ==
  Limit \in Nat \ {0} /\ Window \in Nat \ {0} /\ MaxTime \in Nat

VARIABLES
  attempts,  \* _attempts: a queue of times for each key
  admitted,  \* every admission of the running process, for the properties
  verdict,   \* what allow last returned for each key
  clock      \* time.monotonic()

limiterVars == <<attempts, admitted, verdict>>

LimiterTypeOK ==
  /\ attempts \in [Keys -> Seq(Nat)]
  /\ admitted \in [Keys -> Seq(Nat)]
  /\ verdict \in [Keys -> BOOLEAN]
  /\ clock \in Nat

LimiterInit ==
  /\ attempts = [k \in Keys |-> <<>>]
  /\ admitted = [k \in Keys |-> <<>>]
  /\ verdict = [k \in Keys |-> TRUE]
  /\ clock = 0

---------------------------------------------------------------------------
\* Slips in Old: a window one instant short, and one that never ends.
OldEarly(t) == t + Window <= clock + 1
OldNever(t) == FALSE

Old(t) == t + Window <= clock

\* popleft as long as the leftmost time is old.
Prune(q) ==
  LET popped == CHOOSE n \in 0..Len(q) :
                  /\ \A i \in 1..n : Old(q[i])
                  /\ n < Len(q) => ~Old(q[n + 1])
  IN SubSeq(q, popped + 1, Len(q))

\* A refused attempt is not recorded: only the admitted ones count.
Allow(k) ==
  LET kept == Prune(attempts[k]) IN
  /\ verdict' = [verdict EXCEPT ![k] = Len(kept) < Limit]
  /\ attempts' = [attempts EXCEPT ![k] = IF verdict'[k] THEN Append(kept, clock) ELSE kept]
  /\ admitted' = IF verdict'[k] THEN [admitted EXCEPT ![k] = Append(@, clock)] ELSE admitted

\* A new process starts with an empty table.
Restart ==
  /\ attempts' = [k \in Keys |-> <<>>]
  /\ admitted' = [k \in Keys |-> <<>>]
  /\ UNCHANGED verdict

Elapse == clock < MaxTime /\ clock' = clock + 1

LimiterNext ==
  \/ ((\E k \in Keys : Allow(k)) \/ Restart) /\ UNCHANGED clock
  \/ Elapse /\ UNCHANGED limiterVars

LimiterSpec == LimiterInit /\ [][LimiterNext]_<<limiterVars, clock>>

---------------------------------------------------------------------------
(* Properties *)

Ideal == INSTANCE SlidingWindow WITH now <- clock

\* The queue that forgets from the left decides every attempt as the whole
\* history would: it refuses exactly when Limit attempts were admitted in the
\* window that ends with this one.
ImplementsWindow == Ideal!Spec

\* As many attempts as the limit span at least the window: however they are
\* spread, an interval shorter than the window holds no more than Limit.
WindowHolds ==
  \A k \in Keys : \A i \in DOMAIN admitted[k] :
    i + Limit \in DOMAIN admitted[k] => admitted[k][i] + Window <= admitted[k][i + Limit]

\* However often a client tries, its queue holds no more times than the limit:
\* neither the memory of a key nor the loop of a call grows with the attempts.
QueueBounded == \A k \in Keys : Len(attempts[k]) <= Limit
===========================================================================
