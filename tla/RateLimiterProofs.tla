------------------------- MODULE RateLimiterProofs -------------------------
(***************************************************************************)
(* Proofs about the login limiter: the queue of recent times decides as    *)
(* the whole history would, for every limit, window and set of keys.       *)
(***************************************************************************)
EXTENDS RateLimiter, FiniteSetTheorems, WellFoundedInduction, TLAPS

\* The queue q is the part of the history h that can still count: what was
\* dropped is older than the window, and stays so as time goes on.
Keeps(q, h) ==
  /\ Len(q) <= Len(h)
  /\ \A i \in 1..Len(q) : q[i] = h[Len(h) - Len(q) + i]
  /\ \A i \in 1..(Len(h) - Len(q)) : Old(h[i])

InOrder(h) ==
  /\ \A i, j \in 1..Len(h) : i <= j => h[i] <= h[j]
  /\ \A i \in 1..Len(h) : h[i] <= clock

LimiterInv ==
  /\ LimiterTypeOK
  /\ \A k \in Keys : Keeps(attempts[k], admitted[k]) /\ InOrder(admitted[k])
  /\ WindowHolds

---------------------------------------------------------------------------
\* A non-empty set of numbers has a least member.
LEMMA LeastNumber ==
  ASSUME NEW T \in SUBSET Nat, T # {}
  PROVE  \E n \in T : \A m \in T : ~(m < n)
<1> DEFINE R == {ss \in Nat \X Nat : ss[1] < ss[2]}
<1>1. IsWellFoundedOn(R, Nat)
  BY NatLessThanWellFounded DEF OpToRel
<1>2. \E n \in T : \A m \in T : ~(<<m, n>> \in R)
  <2> HIDE DEF R
  <2> QED BY <1>1, WFMin
<1> QED BY <1>2

\* The loop of allow stops at the first time that still counts.
LEMMA PruneStops ==
  ASSUME NEW q \in Seq(Nat), clock \in Nat
  PROVE  \E n \in 0..Len(q) : /\ Prune(q) = SubSeq(q, n + 1, Len(q))
                              /\ \A i \in 1..n : Old(q[i])
                              /\ n < Len(q) => ~Old(q[n + 1])
<1> DEFINE Stop(n) == (\A i \in 1..n : Old(q[i])) /\ (n < Len(q) => ~Old(q[n + 1]))
           T == {n \in 0..Len(q) : n < Len(q) => ~Old(q[n + 1])}
<1>1. \E n \in 0..Len(q) : Stop(n)
  <2>1. T \in SUBSET Nat /\ Len(q) \in T
    OBVIOUS
  <2>2. PICK n \in T : \A m \in T : ~(m < n)
    BY <2>1, LeastNumber
  <2>3. ASSUME NEW i \in 1..n
        PROVE  Old(q[i])
    <3>1. i - 1 \in 0..Len(q) /\ i - 1 < n /\ (i - 1) + 1 = i
      BY <2>1, <2>2
    <3>2. i - 1 \notin T
      BY <3>1, <2>2
    <3> QED BY <3>1, <3>2
  <2> QED BY <2>2, <2>3
<1>2. DEFINE p == CHOOSE n \in 0..Len(q) : Stop(n)
<1>3. p \in 0..Len(q) /\ Stop(p)
  BY <1>1
<1>4. Prune(q) = SubSeq(q, p + 1, Len(q))
  BY DEF Prune
<1> QED BY <1>3, <1>4

\* A time that is not older than one that counts, counts.
LEMMA OldestFirst ==
  ASSUME clock \in Nat, NEW s \in Nat, NEW t \in Nat, s <= t, ~Old(s)
  PROVE  ~Old(t)
BY LimiterAssumption DEF Old

\* What the loop drops is old, and what it keeps still counts.
LEMMA PruneKeeps ==
  ASSUME clock \in Nat,
         NEW q \in Seq(Nat), NEW h \in Seq(Nat), Keeps(q, h), InOrder(h)
  PROVE  /\ Prune(q) \in Seq(Nat)
         /\ Keeps(Prune(q), h)
         /\ \A i \in (Len(h) - Len(Prune(q)) + 1)..Len(h) : ~Old(h[i])
<1> USE LimiterAssumption
<1>1. PICK n \in 0..Len(q) : /\ Prune(q) = SubSeq(q, n + 1, Len(q))
                             /\ \A i \in 1..n : Old(q[i])
                             /\ n < Len(q) => ~Old(q[n + 1])
  BY PruneStops
<1> DEFINE p == Prune(q)
<1>2. p \in Seq(Nat) /\ Len(p) = Len(q) - n /\ \A i \in 1..Len(p) : p[i] = q[n + i]
  BY <1>1
<1> HIDE DEF p
<1>3. Len(q) <= Len(h) /\ Len(q) \in Nat /\ Len(h) \in Nat /\ Len(p) \in Nat
  BY <1>2 DEF Keeps
<1>4. ASSUME NEW i \in 1..Len(p)
      PROVE  p[i] = h[Len(h) - Len(p) + i]
  <2>1. n + i \in 1..Len(q)
    BY <1>2, <1>3
  <2>2. q[n + i] = h[Len(h) - Len(q) + (n + i)]
    BY <2>1 DEF Keeps
  <2>3. Len(h) - Len(q) + (n + i) = Len(h) - Len(p) + i
    BY <1>2, <1>3
  <2> QED BY <1>2, <2>2, <2>3
<1>5. ASSUME NEW i \in 1..(Len(h) - Len(p))
      PROVE  Old(h[i])
  <2>1. CASE i <= Len(h) - Len(q)
    <3>1. i \in 1..(Len(h) - Len(q))
      BY <2>1, <1>3
    <3> QED BY <3>1 DEF Keeps
  <2>2. CASE i > Len(h) - Len(q)
    <3> DEFINE j == i - (Len(h) - Len(q))
    <3>1. j \in 1..n /\ j \in 1..Len(q) /\ Len(h) - Len(q) + j = i
      BY <2>2, <1>2, <1>3
    <3>2. q[j] = h[i]
      BY <3>1 DEF Keeps
    <3> QED BY <3>1, <3>2, <1>1
  <2> QED BY <2>1, <2>2, <1>3
<1>6. ASSUME NEW i \in (Len(h) - Len(p) + 1)..Len(h)
      PROVE  ~Old(h[i])
  <2>1. Len(p) = Len(q) - n /\ Len(p) <= Len(h)
    BY <1>2, <1>3
  <2>2. i \in Int /\ Len(h) - Len(p) + 1 <= i /\ i <= Len(h)
    BY <1>3
  <2>3. n < Len(q) /\ Len(h) - Len(p) + 1 \in 1..Len(h) /\ i \in 1..Len(h) /\ 1 \in 1..Len(p)
    BY <1>3, <2>1, <2>2
  <2>4. p[1] = h[Len(h) - Len(p) + 1] /\ p[1] = q[n + 1]
    BY <1>2, <1>4, <2>3
  <2>5. h[Len(h) - Len(p) + 1] <= h[i]
    BY <2>2, <2>3 DEF InOrder
  <2>6. h[i] \in Nat /\ h[Len(h) - Len(p) + 1] \in Nat
    BY <2>3
  <2>7. ~Old(h[Len(h) - Len(p) + 1])
    BY <1>1, <2>3, <2>4
  <2> QED BY <2>5, <2>6, <2>7, OldestFirst
<1> QED BY <1>2, <1>3, <1>4, <1>5, <1>6 DEF Keeps, p

\* An admission is recorded in both.
LEMMA AppendKeeps ==
  ASSUME clock \in Nat, NEW q \in Seq(Nat), NEW h \in Seq(Nat), Keeps(q, h), InOrder(h)
  PROVE  Keeps(Append(q, clock), Append(h, clock)) /\ InOrder(Append(h, clock))
<1> DEFINE q2 == Append(q, clock)
           h2 == Append(h, clock)
<1>1. /\ Len(q2) = Len(q) + 1 /\ Len(h2) = Len(h) + 1
      /\ \A i \in 1..Len(q2) : q2[i] = IF i = Len(q) + 1 THEN clock ELSE q[i]
      /\ \A i \in 1..Len(h2) : h2[i] = IF i = Len(h) + 1 THEN clock ELSE h[i]
  OBVIOUS
<1> HIDE DEF q2, h2
<1>2. Len(q) \in Nat /\ Len(h) \in Nat /\ \A i \in 1..Len(h) : h[i] \in Nat
  OBVIOUS
<1>3. Keeps(q2, h2)
  <2>1. Len(q) <= Len(h)
    BY DEF Keeps
  <2>2. ASSUME NEW i \in 1..Len(q2)
        PROVE  q2[i] = h2[Len(h2) - Len(q2) + i]
    <3>1. CASE i = Len(q) + 1
      BY <3>1, <1>1, <1>2
    <3>2. CASE i \in 1..Len(q)
      <4>1. q[i] = h[Len(h) - Len(q) + i] /\ Len(h) - Len(q) + i \in 1..Len(h)
        BY <3>2, <2>1, <1>2 DEF Keeps
      <4>2. /\ Len(h2) - Len(q2) + i = Len(h) - Len(q) + i
            /\ Len(h) - Len(q) + i # Len(h) + 1
            /\ Len(h) - Len(q) + i \in 1..Len(h2)
            /\ i # Len(q) + 1
        BY <4>1, <3>2, <1>1, <1>2
      <4>3. h2[Len(h) - Len(q) + i] = h[Len(h) - Len(q) + i]
        BY <4>2, <1>1
      <4>4. q2[i] = q[i]
        BY <4>2, <1>1
      <4> QED BY <4>1, <4>2, <4>3, <4>4
    <3> QED BY <3>1, <3>2, <1>1, <1>2
  <2>3. ASSUME NEW i \in 1..(Len(h2) - Len(q2))
        PROVE  Old(h2[i])
    <3>1. i \in 1..(Len(h) - Len(q)) /\ h2[i] = h[i]
      BY <1>1, <1>2
    <3> QED BY <3>1 DEF Keeps
  <2> QED BY <1>1, <1>2, <2>1, <2>2, <2>3 DEF Keeps
<1>4. InOrder(h2)
  <2>1. ASSUME NEW i \in 1..Len(h2)
        PROVE  h2[i] \in Nat /\ h2[i] <= clock
    <3>1. CASE i = Len(h) + 1
      BY <3>1, <1>1, <1>2
    <3>2. CASE i \in 1..Len(h)
      <4>1. h2[i] = h[i]
        BY <3>2, <1>1, <1>2
      <4> QED BY <4>1, <3>2, <1>2 DEF InOrder
    <3> QED BY <3>1, <3>2, <1>1, <1>2
  <2>2. ASSUME NEW i \in 1..Len(h2), NEW j \in 1..Len(h2), i <= j
        PROVE  h2[i] <= h2[j]
    <3>1. CASE j = Len(h) + 1
      BY <3>1, <2>1, <1>1, <1>2
    <3>2. CASE j \in 1..Len(h)
      <4>1. i \in 1..Len(h) /\ h2[i] = h[i] /\ h2[j] = h[j]
        BY <3>2, <2>2, <1>1, <1>2
      <4> QED BY <4>1, <3>2, <2>2 DEF InOrder
    <3> QED BY <3>1, <3>2, <1>1, <1>2
  <2> QED BY <2>1, <2>2 DEF InOrder
<1> QED BY <1>3, <1>4 DEF q2, h2

---------------------------------------------------------------------------
\* The empty table satisfies the invariant.
LEMMA LimiterStarts ==
  ASSUME LimiterInit
  PROVE  LimiterInv
BY LimiterAssumption DEF LimiterInit, LimiterInv, LimiterTypeOK, Keeps, InOrder, WindowHolds

\* A call of allow keeps the invariant.
LEMMA AllowKeepsInv ==
  ASSUME LimiterInv, NEW k \in Keys, Allow(k), UNCHANGED clock
  PROVE  LimiterInv'
<1> USE LimiterAssumption
<1> DEFINE h == admitted[k]
           p == Prune(attempts[k])
<1>1. clock \in Nat /\ h \in Seq(Nat) /\ attempts[k] \in Seq(Nat)
  BY DEF LimiterInv, LimiterTypeOK
<1>2. p \in Seq(Nat) /\ Keeps(p, h) /\ InOrder(h)
  BY <1>1, PruneKeeps DEF LimiterInv
<1>3. WindowHolds
  BY DEF LimiterInv
<1>6. /\ verdict' = [verdict EXCEPT ![k] = Len(p) < Limit]
      /\ verdict'[k] = (Len(p) < Limit)
      /\ attempts' = [attempts EXCEPT ![k] = IF verdict'[k] THEN Append(p, clock) ELSE p]
      /\ admitted' = IF verdict'[k] THEN [admitted EXCEPT ![k] = Append(h, clock)] ELSE admitted
  <2>1. verdict' = [verdict EXCEPT ![k] = Len(p) < Limit]
    BY Zenon DEF Allow
  <2>2. verdict'[k] = (Len(p) < Limit)
    BY <2>1, Zenon DEF LimiterInv, LimiterTypeOK
  <2> QED BY <2>1, <2>2, Zenon DEF Allow
<1>7. /\ attempts \in [Keys -> Seq(Nat)]
      /\ admitted \in [Keys -> Seq(Nat)]
      /\ verdict \in [Keys -> BOOLEAN]
  BY DEF LimiterInv, LimiterTypeOK
<1> HIDE DEF p
<1>4. CASE Len(p) < Limit
  <2>1. /\ attempts' = [attempts EXCEPT ![k] = Append(p, clock)]
        /\ admitted' = [admitted EXCEPT ![k] = Append(h, clock)]
        /\ verdict' = [verdict EXCEPT ![k] = TRUE]
    BY <1>4, <1>6 DEF p
  <2>2. LimiterTypeOK'
    BY <2>1, <1>1, <1>2 DEF LimiterInv, LimiterTypeOK
  <2>3. attempts'[k] = Append(p, clock) /\ admitted'[k] = Append(h, clock)
    BY <2>1 DEF LimiterInv, LimiterTypeOK
  <2>4. ASSUME NEW j \in Keys, j # k
        PROVE  attempts'[j] = attempts[j] /\ admitted'[j] = admitted[j]
    BY <2>1, <2>4 DEF LimiterInv, LimiterTypeOK
  <2>5. Keeps(Append(p, clock), Append(h, clock)) /\ InOrder(Append(h, clock))
    BY <1>1, <1>2, AppendKeeps
  <2>7. ASSUME NEW j \in Keys
        PROVE  (Keeps(attempts[j], admitted[j]) /\ InOrder(admitted[j]))'
    <3>1. Keeps(attempts'[j], admitted'[j]) /\ InOrder(admitted'[j])
      BY <2>3, <2>4, <2>5 DEF LimiterInv
    <3> QED BY <3>1 DEF Keeps, InOrder, Old
  <2>8. ASSUME NEW j \in Keys, NEW i \in DOMAIN admitted'[j],
               i + Limit \in DOMAIN admitted'[j]
        PROVE  admitted'[j][i] + Window <= admitted'[j][i + Limit]
    <3>1. CASE j # k
      BY <3>1, <2>4, <2>8, <1>3 DEF WindowHolds
    <3>2. CASE j = k /\ i + Limit <= Len(h)
      <4>1. i \in 1..Len(h) /\ i + Limit \in 1..Len(h)
        BY <3>2, <2>3, <2>8, <1>1
      <4>2. i \in DOMAIN admitted[k] /\ i + Limit \in DOMAIN admitted[k]
        BY <4>1, <1>1
      <4>4. h[i] + Window <= h[i + Limit]
        BY <4>2, <1>3 DEF WindowHolds
      <4>3. Append(h, clock)[i] = h[i] /\ Append(h, clock)[i + Limit] = h[i + Limit]
        BY <4>1, <1>1
      <4> QED BY <4>3, <4>4, <3>2, <2>3
    <3>3. CASE j = k /\ i + Limit = Len(h) + 1
      <4>1. i \in 1..(Len(h) - Len(p))
        BY <3>3, <2>3, <2>8, <1>1, <1>2, <1>4
      <4>2. Old(h[i])
        BY <4>1, <1>2 DEF Keeps
      <4>3. Append(h, clock)[i] = h[i] /\ Append(h, clock)[i + Limit] = clock
        BY <4>1, <3>3, <1>1, <1>2
      <4> QED BY <4>2, <4>3, <3>3, <2>3 DEF Old
    <3> QED BY <3>1, <3>2, <3>3, <2>3, <2>8, <1>1
  <2> QED BY <2>2, <2>7, <2>8 DEF LimiterInv, WindowHolds
<1>5. CASE ~(Len(p) < Limit)
  <2>1. /\ attempts' = [attempts EXCEPT ![k] = p]
        /\ admitted' = admitted
        /\ verdict' \in [Keys -> BOOLEAN]
    <3>1. ~verdict'[k]
      BY <1>5, <1>6, Zenon
    <3>2. verdict' \in [Keys -> BOOLEAN]
      <4>1. (Len(p) < Limit) \in BOOLEAN
        OBVIOUS
      <4> QED BY <4>1, <1>6, <1>7, Zenon
    <3> QED BY <3>1, <3>2, <1>6
  <2>2. LimiterTypeOK'
    BY <2>1, <1>1, <1>2 DEF LimiterInv, LimiterTypeOK
  <2>3. ASSUME NEW j \in Keys
        PROVE  (Keeps(attempts[j], admitted[j]) /\ InOrder(admitted[j]))'
    <3>1. attempts'[j] = IF j = k THEN p ELSE attempts[j]
      BY <2>1 DEF LimiterInv, LimiterTypeOK
    <3>2. Keeps(attempts'[j], admitted'[j]) /\ InOrder(admitted'[j])
      BY <3>1, <2>1, <1>2 DEF LimiterInv
    <3> QED BY <3>2 DEF Keeps, InOrder, Old
  <2> QED BY <2>1, <2>2, <2>3, <1>3 DEF LimiterInv, WindowHolds
<1> QED BY <1>4, <1>5

\* Every step keeps the invariant.
LEMMA LimiterStepKeepsInv ==
  ASSUME LimiterInv, [LimiterNext]_<<limiterVars, clock>>
  PROVE  LimiterInv'
<1> USE LimiterAssumption
<1>1. ASSUME NEW k \in Keys, Allow(k), UNCHANGED clock
      PROVE  LimiterInv'
  BY <1>1, AllowKeepsInv
<1>2. CASE Restart /\ UNCHANGED clock
  BY <1>2 DEF Restart, LimiterInv, LimiterTypeOK, Keeps, InOrder, WindowHolds
<1>3. CASE Elapse /\ UNCHANGED limiterVars
  <2>1. /\ attempts' = attempts /\ admitted' = admitted /\ verdict' = verdict
        /\ clock \in Nat /\ clock' = clock + 1
    BY <1>3 DEF Elapse, limiterVars, LimiterInv, LimiterTypeOK
  <2>2. ASSUME NEW j \in Keys
        PROVE  (Keeps(attempts[j], admitted[j]) /\ InOrder(admitted[j]))'
    <3>1. admitted[j] \in Seq(Nat) /\ attempts[j] \in Seq(Nat)
      BY DEF LimiterInv, LimiterTypeOK
    <3>2. Keeps(attempts[j], admitted[j]) /\ InOrder(admitted[j])
      BY DEF LimiterInv
    <3>4. Len(admitted[j]) \in Nat /\ Len(attempts[j]) \in Nat
      BY <3>1
    <3>5. \A i \in 1..(Len(admitted[j]) - Len(attempts[j])) :
          Old(admitted[j][i])'
      <4>1. \A i \in 1..(Len(admitted[j]) - Len(attempts[j])) :
              admitted[j][i] \in Nat /\ Old(admitted[j][i])
        BY <3>1, <3>2, <3>4 DEF Keeps
      <4> QED BY <4>1, <2>1 DEF Old
    <3>6. \A i \in 1..Len(admitted[j]) : admitted[j][i] <= clock'
      <4>1. \A i \in 1..Len(admitted[j]) : admitted[j][i] \in Nat /\ admitted[j][i] <= clock
        BY <3>1, <3>2 DEF InOrder
      <4> QED BY <4>1, <2>1
    <3> QED BY <2>1, <3>2, <3>5, <3>6 DEF Keeps, InOrder
  <2> QED BY <2>1, <2>2 DEF LimiterInv, LimiterTypeOK, WindowHolds
<1>4. CASE UNCHANGED <<limiterVars, clock>>
  BY <1>4 DEF limiterVars, LimiterInv, LimiterTypeOK, Keeps, InOrder, Old, WindowHolds
<1> QED BY <1>1, <1>2, <1>3, <1>4 DEF LimiterNext

\* The invariant: the queue is the tail of the history, and the history is
\* in order.
THEOREM LimiterInvariant == LimiterSpec => []LimiterInv
<1>1. LimiterInit => LimiterInv
  BY LimiterStarts
<1>2. LimiterInv /\ [LimiterNext]_<<limiterVars, clock>> => LimiterInv'
  BY LimiterStepKeepsInv
<1> QED BY <1>1, <1>2, PTL DEF LimiterSpec

\* Whatever the order and the times of the attempts, as many admissions of a
\* key as the limit span the window.
THEOREM LimiterWindowHolds == LimiterSpec => []WindowHolds
<1>1. LimiterInv => WindowHolds
  BY DEF LimiterInv
<1> QED BY <1>1, LimiterInvariant, PTL

\* The queue of a key never outgrows the limit, however often it is asked: what
\* the loop leaves is no longer than what it found, and an attempt is recorded
\* only below the limit.
THEOREM LimiterQueueBounded == LimiterSpec => []QueueBounded
<1>1. LimiterInit => QueueBounded
  <2>1. Len(<<>>) = 0 /\ 0 <= Limit
    BY LimiterAssumption
  <2> QED
    BY <2>1, Zenon DEF LimiterInit, QueueBounded
<1>2. LimiterInv /\ QueueBounded /\ [LimiterNext]_<<limiterVars, clock>> => QueueBounded'
  <2> SUFFICES ASSUME LimiterInv, QueueBounded, [LimiterNext]_<<limiterVars, clock>>
               PROVE  QueueBounded'
    OBVIOUS
  <2>1. ASSUME NEW k \in Keys, Allow(k)
        PROVE  QueueBounded'
    <3> DEFINE p == Prune(attempts[k])
    <3>1. attempts[k] \in Seq(Nat) /\ clock \in Nat
      BY DEF LimiterInv, LimiterTypeOK
    <3>2. p \in Seq(Nat) /\ Len(p) <= Len(attempts[k])
      <4>1. PICK n \in 0 .. Len(attempts[k]) :
              p = SubSeq(attempts[k], n + 1, Len(attempts[k]))
        BY <3>1, PruneStops
      <4> QED
        BY <3>1, <4>1
    <3>3. /\ verdict'[k] = (Len(p) < Limit)
          /\ attempts' = [attempts EXCEPT ![k] = IF verdict'[k] THEN Append(p, clock) ELSE p]
      BY <2>1, Zenon DEF Allow, LimiterInv, LimiterTypeOK
    <3> HIDE DEF p
    <3>4. Len(attempts'[k]) <= Limit
      <4>1. Len(p) <= Limit /\ Len(p) \in Nat /\ Limit \in Nat
        BY <3>1, <3>2, LimiterAssumption DEF QueueBounded
      <4>2. attempts'[k] = IF verdict'[k] THEN Append(p, clock) ELSE p
        BY <3>3 DEF LimiterInv, LimiterTypeOK
      <4>3. Len(Append(p, clock)) = Len(p) + 1
        BY <3>1, <3>2
      <4>4. CASE Len(p) < Limit
        <5>1. attempts'[k] = Append(p, clock)
          BY <3>3, <4>2, <4>4, Zenon
        <5>2. Len(attempts'[k]) = Len(p) + 1
          BY <4>3, <5>1, Zenon
        <5> QED
          BY <4>1, <4>4, <5>2
      <4>5. CASE ~(Len(p) < Limit)
        <5>1. attempts'[k] = p
          BY <3>3, <4>2, <4>5, Zenon
        <5> QED
          BY <4>1, <5>1
      <4> QED
        BY <4>4, <4>5
    <3>5. \A j \in Keys \ {k} : attempts'[j] = attempts[j]
      BY <3>3 DEF LimiterInv, LimiterTypeOK
    <3> QED
      BY <3>4, <3>5 DEF QueueBounded
  <2>2. CASE Restart
    BY <2>2, LimiterAssumption DEF Restart, QueueBounded
  <2>3. CASE UNCHANGED attempts
    BY <2>3 DEF QueueBounded
  <2> QED
    BY <2>1, <2>2, <2>3 DEF LimiterNext, limiterVars
<1> QED
  BY <1>1, <1>2, LimiterInvariant, PTL DEF LimiterSpec

---------------------------------------------------------------------------
\* The queue, once pruned, is as long as the recent part of the history.
LEMMA QueueCountsRecent ==
  ASSUME LimiterInv, NEW k \in Keys
  PROVE  Cardinality(Ideal!Recent(k)) = Len(Prune(attempts[k]))
<1> DEFINE h == admitted[k]
           p == Prune(attempts[k])
<1>1. clock \in Nat /\ h \in Seq(Nat) /\ attempts[k] \in Seq(Nat) /\ DOMAIN h = 1..Len(h)
  BY DEF LimiterInv, LimiterTypeOK
<1>2. /\ p \in Seq(Nat)
      /\ Keeps(p, h)
      /\ \A i \in (Len(h) - Len(p) + 1)..Len(h) : ~Old(h[i])
  BY <1>1, PruneKeeps DEF LimiterInv
<1> HIDE DEF p
<1>3. Len(p) \in Nat /\ Len(h) \in Nat /\ Len(p) <= Len(h)
  BY <1>1, <1>2 DEF Keeps
<1>4. Ideal!Recent(k) = {i \in 1..Len(h) : h[i] + Window > clock}
  BY <1>1 DEF Ideal!Recent
<1>5. ASSUME NEW i \in 1..Len(h)
      PROVE  h[i] + Window > clock <=> i >= Len(h) - Len(p) + 1
  <2>1. h[i] \in Nat
    BY <1>1
  <2>2. CASE i >= Len(h) - Len(p) + 1
    <3>1. i \in (Len(h) - Len(p) + 1)..Len(h)
      BY <2>2, <1>3
    <3> QED BY <3>1, <2>1, <2>2, <1>1, <1>2, LimiterAssumption DEF Old
  <2>3. CASE ~(i >= Len(h) - Len(p) + 1)
    <3>1. i \in 1..(Len(h) - Len(p))
      BY <2>3, <1>3
    <3> QED BY <3>1, <2>1, <2>3, <1>1, <1>2, LimiterAssumption DEF Keeps, Old
  <2> QED BY <2>2, <2>3
<1>6. Ideal!Recent(k) = (Len(h) - Len(p) + 1)..Len(h)
  BY <1>3, <1>4, <1>5
<1> DEFINE a == Len(h) - Len(p) + 1
<1>7. a \in Int /\ Len(h) \in Int /\ (IF a > Len(h) THEN 0 ELSE Len(h) - a + 1) = Len(p)
  BY <1>3
<1>8. Cardinality(a..Len(h)) = IF a > Len(h) THEN 0 ELSE Len(h) - a + 1
  <2> HIDE DEF a
  <2> QED BY <1>7, FS_Interval
<1> QED BY <1>6, <1>7, <1>8 DEF p

\* A call of allow is an attempt of the sliding window.
LEMMA AllowIsAttempt ==
  ASSUME LimiterInv, NEW k \in Keys, Allow(k), UNCHANGED clock
  PROVE  Ideal!Attempt(k)
<1>1. Cardinality(Ideal!Recent(k)) = Len(Prune(attempts[k]))
  BY QueueCountsRecent
<1>2. Ideal!Cardinality(Ideal!Recent(k)) = Cardinality(Ideal!Recent(k))
  BY DEF Cardinality, Ideal!Cardinality
<1> QED BY <1>1, <1>2, Zenon DEF Allow, Ideal!Attempt

\* The queue implements the window that the history defines.
THEOREM LimiterImplementsWindow == LimiterSpec => ImplementsWindow
<1>1. LimiterInit => Ideal!Init
  BY DEF LimiterInit, Ideal!Init
<1>2. LimiterInv /\ [LimiterNext]_<<limiterVars, clock>> => [Ideal!Next]_Ideal!vars
  <2> SUFFICES ASSUME LimiterInv, [LimiterNext]_<<limiterVars, clock>>
               PROVE  [Ideal!Next]_Ideal!vars
    OBVIOUS
  <2>1. ASSUME NEW k \in Keys, Allow(k), UNCHANGED clock
        PROVE  Ideal!Next
    BY <2>1, AllowIsAttempt DEF Ideal!Next
  <2>2. CASE Restart /\ UNCHANGED clock
    BY <2>2 DEF Restart, Ideal!Next, Ideal!Forget
  <2>3. CASE Elapse /\ UNCHANGED limiterVars
    BY <2>3 DEF Elapse, limiterVars, Ideal!Next, Ideal!Pass, LimiterInv, LimiterTypeOK
  <2>4. CASE UNCHANGED <<limiterVars, clock>>
    BY <2>4 DEF limiterVars, Ideal!vars
  <2> QED BY <2>1, <2>2, <2>3, <2>4 DEF LimiterNext
<1> QED BY <1>1, <1>2, LimiterInvariant, PTL DEF LimiterSpec, ImplementsWindow, Ideal!Spec
===========================================================================
