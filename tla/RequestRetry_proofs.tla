------------------------- MODULE RequestRetry_proofs -------------------------
(***************************************************************************)
(* What _request guarantees for any number of retries, statuses and        *)
(* headers, and however late the service executes what it was sent.        *)
(*                                                                         *)
(* CountInv ties the requests sent to the loop variable, MutationInv says  *)
(* how much of a mutation can have reached the service at each place of    *)
(* the loop.  PauseInv is about the pauses, whose length takes no part in  *)
(* the other two; that 2**attempt is a natural number is an induction.     *)
(***************************************************************************)
EXTENDS RequestRetry, TLAPS, WellFoundedInduction

CountInv ==
    /\ kind \in {"read", "keyed", "mutation"}
    /\ state \in {"sending", "waiting", "pausing"} \cup Ended
    /\ attempt \in 0..MaxRetries
    /\ sends = IF state = "sending" THEN attempt ELSE attempt + 1
    /\ state = "pausing" => kind # "mutation" /\ attempt < MaxRetries
    /\ effects \in Nat /\ pending \in Nat

MutationInv ==
    kind = "mutation" =>
        /\ attempt = 0
        /\ state \in {"sending", "waiting"} => effects + pending = 0
        /\ effects + pending <= 1

IInv == CountInv /\ MutationInv /\ AttemptsSpent

LEMMA Initial == Init => IInv
BY RequestAssumption
DEF Init, IInv, CountInv, MutationInv, AttemptsSpent, Ended

LEMMA OneAtMost ==
  ASSUME NEW n, NEW m, n = 0, m \in {0, 1}
  PROVE  n + m <= 1
<1>1. n + m \in {0, 1}
  OBVIOUS
<1> QED BY <1>1

\* An answer either makes the call pause, with an attempt left, or ends it.
LEMMA AnsweredEffect ==
  ASSUME IInv, NEW s \in Statuses, NEW h \in Headers, Answered(s, h)
  PROVE  /\ state = "waiting" /\ UNCHANGED <<kind, attempt, sends>> /\ status' = s
         /\ effects' \in {effects, Executed} /\ pending' \in {pending, pending + 1}
         /\ effects' = effects \/ pending' = pending
         /\ \/ state' = "pausing" /\ Retryable /\ AttemptsLeft
            \/ /\ state' \in Ended
               /\ ~(Retryable /\ s \in RETRYABLE_STATUS_CODES /\ AttemptsLeft)
<1>1. s \in 200..599
  BY RequestAssumption
<1>2. /\ state = "waiting" /\ UNCHANGED <<kind, attempt, sends>> /\ status' = s
      /\ Handled(s)
  BY DEF Answered
<1>3. \/ state' = "pausing" /\ Retryable /\ AttemptsLeft
      \/ /\ state' \in Ended
         /\ ~(Retryable /\ s \in RETRYABLE_STATUS_CODES /\ AttemptsLeft)
  BY DEF Answered, Deferred, Final, Ended
<1>4. /\ effects' \in {effects, Executed} /\ pending' \in {pending, pending + 1}
      /\ effects' = effects \/ pending' = pending
  BY <1>1, <1>2 DEF Handled
<1> QED BY <1>2, <1>3, <1>4

LEMMA Inductive == IInv /\ [Next]_vars => IInv'
<1> SUFFICES ASSUME IInv, [Next]_vars PROVE IInv'
  OBVIOUS
<1> USE RequestAssumption DEF IInv, CountInv, MutationInv, AttemptsSpent, Ended
<1>1. CASE Send
  BY <1>1 DEF Send
<1>2. CASE TransportError
  <2>1. /\ state = "waiting" /\ UNCHANGED <<kind, attempt, sends, effects>> /\ status' = 0
        /\ pending' \in {pending, pending + 1}
    BY <1>2 DEF TransportError
  <2>2. \/ state' = "pausing" /\ Retryable /\ AttemptsLeft
        \/ state' = "raised" /\ ~(Retryable /\ AttemptsLeft)
    BY <1>2 DEF TransportError
  <2>3. CountInv'
    BY <2>1, <2>2 DEF Retryable, AttemptsLeft
  <2>4. MutationInv'
    <3> SUFFICES ASSUME kind' = "mutation" PROVE MutationInv'
      OBVIOUS
    <3>1. /\ kind = "mutation" /\ attempt = 0 /\ effects + pending = 0
          /\ effects \in Nat /\ pending \in Nat
      BY <2>1
    <3>2. effects' + pending' <= 1
      <4>1. effects' = 0 /\ pending' \in {0, 1}
        BY <2>1, <3>1
      <4> QED BY <4>1, OneAtMost
    <3>3. state' = "raised"
      BY <2>2, <3>1 DEF Retryable
    <3> QED BY <2>1, <3>1, <3>2, <3>3
  <2>5. AttemptsSpent'
    BY <2>1, <2>2 DEF Retryable, AttemptsLeft
  <2> QED BY <2>3, <2>4, <2>5
<1>3. CASE NextAttempt
  BY <1>3 DEF NextAttempt
<1>4. CASE LateExecution
  BY <1>4 DEF LateExecution, Executed
<1>5. ASSUME NEW s \in Statuses, NEW h \in Headers, Answered(s, h)
      PROVE  IInv'
  BY <1>5, AnsweredEffect DEF Executed, Retryable, AttemptsLeft
<1>6. CASE UNCHANGED vars
  BY <1>6 DEF vars
<1> QED BY <1>1, <1>2, <1>3, <1>4, <1>5, <1>6 DEF Next, AllOver

LEMMA Invariant == Spec => []IInv
BY Initial, Inductive, PTL DEF Spec

\* A mutation without a key is sent once, and neither now nor later executed
\* twice, whatever is lost (client.py 241-256).
THEOREM MutationsRunOnce == Spec => []MutationAtMostOnce
<1>1. IInv => MutationAtMostOnce
  BY DEF IInv, CountInv, MutationInv, MutationAtMostOnce
<1> QED BY <1>1, Invariant, PTL

\* Every attempt is spent before a transient failure reaches the caller of a
\* read or a keyed mutation (client.py 241-256).
THEOREM AttemptsAreSpent == Spec => []AttemptsSpent
<1>1. IInv => AttemptsSpent
  BY DEF IInv
<1> QED BY <1>1, Invariant, PTL

-----------------------------------------------------------------------------
\* The pauses.  A set of the naturals that satisfy it stands for the predicate
\* of an induction: a set of naturals that is not empty has a least member.

LEMMA LeastNatural ==
  ASSUME NEW T, T \subseteq Nat, T # {}
  PROVE  \E m \in T : \A n \in T : m <= n
<1> DEFINE R == {p \in Nat \X Nat : p[1] < p[2]}
<1>1. IsWellFoundedOn(R, Nat)
  <2>1. OpToRel(<, Nat) = R
    BY Zenon DEF OpToRel
  <2> QED BY <2>1, NatLessThanWellFounded, Zenon
<1>2. PICK m \in T : \A n \in T : <<n, m>> \notin R
  BY <1>1, WFMin
<1>3. ASSUME NEW n \in T PROVE m <= n
  <2>1. m \in Nat /\ n \in Nat /\ <<n, m>> \notin R
    BY <1>2
  <2> QED BY <2>1
<1> QED BY <1>3

LEMMA NatInduced ==
  ASSUME NEW C, 0 \in C, \A n \in Nat : n \in C => n + 1 \in C
  PROVE  \A n \in Nat : n \in C
<1> DEFINE T == {n \in Nat : n \notin C}
<1>1. SUFFICES ASSUME T # {} PROVE FALSE
  OBVIOUS
<1>2. PICK m \in T : \A n \in T : m <= n
  BY <1>1, LeastNatural
<1>3. m # 0 /\ m - 1 \in Nat /\ m - 1 \notin T
  BY <1>2
<1>4. (m - 1) + 1 = m
  BY <1>2
<1> QED BY <1>3, <1>4

\* What the recursion makes of the powers known so far.
Doubled(h, n) == IF n = 0 THEN 1 ELSE 2 * h[n - 1]

\* The recursion has a solution: one up to n makes one up to n + 1.
LEMMA PowersExist ==
  PowerOfTwo = [n \in 0..MaxRetries |-> Doubled(PowerOfTwo, n)]
<1> DEFINE Solves(h, n) == \A k \in 0..n : h[k] = Doubled(h, k)
           C == {n \in Nat : \E h : Solves(h, n)}
<1>1. 0 \in C
  <2> DEFINE h == [k \in 0..0 |-> 1]
  <2>1. Solves(h, 0)
    BY DEF Doubled
  <2> QED BY <2>1
<1>2. ASSUME NEW n \in Nat, n \in C PROVE n + 1 \in C
  <2>1. PICK h : Solves(h, n)
    BY <1>2
  <2> DEFINE g == [k \in 0..(n + 1) |-> Doubled(h, k)]
  <2>2. ASSUME NEW k \in 0..(n + 1) PROVE g[k] = Doubled(g, k)
    <3>1. CASE k = 0
      BY <3>1 DEF Doubled
    <3>2. CASE k # 0
      <4>1. k - 1 \in 0..n /\ k - 1 \in 0..(n + 1)
        BY <3>2
      <4>2. g[k - 1] = h[k - 1]
        BY <2>1, <4>1
      <4> HIDE DEF Solves
      <4> QED BY <3>2, <4>2 DEF Doubled
    <3> QED BY <3>1, <3>2
  <2> HIDE DEF g
  <2>3. Solves(g, n + 1)
    BY <2>2
  <2> QED BY <2>3
<1>3. \A n \in Nat : n \in C
  <2> HIDE DEF C
  <2> QED BY <1>1, <1>2, NatInduced
<1>4. PICK h : Solves(h, MaxRetries)
  BY <1>3, RequestAssumption
<1> DEFINE f == [n \in 0..MaxRetries |-> h[n]]
<1>5. ASSUME NEW n \in 0..MaxRetries PROVE f[n] = Doubled(f, n)
  <2>1. h[n] = Doubled(h, n) /\ (n # 0 => n - 1 \in 0..MaxRetries)
    BY <1>4, RequestAssumption
  <2> QED BY <2>1 DEF Doubled
<1>6. f = [n \in 0..MaxRetries |-> Doubled(f, n)]
  <2>1. f = [n \in 0..MaxRetries |-> f[n]]
    OBVIOUS
  <2> HIDE DEF f
  <2> QED BY <1>5, <2>1
<1> HIDE DEF f
<1> QED BY <1>6 DEF PowerOfTwo, Doubled

LEMMA PowersAreNatural == \A n \in 0..MaxRetries : PowerOfTwo[n] \in Nat
<1> DEFINE C == {n \in Nat : n <= MaxRetries => PowerOfTwo[n] \in Nat}
<1>0. \A n \in 0..MaxRetries : PowerOfTwo[n] = Doubled(PowerOfTwo, n)
  BY PowersExist
<1>1. 0 \in C
  BY <1>0, RequestAssumption DEF Doubled
<1>2. ASSUME NEW n \in Nat, n \in C PROVE n + 1 \in C
  <2> SUFFICES ASSUME n + 1 <= MaxRetries PROVE PowerOfTwo[n + 1] \in Nat
    OBVIOUS
  <2>1. n + 1 \in 0..MaxRetries /\ n + 1 # 0 /\ (n + 1) - 1 = n
    BY RequestAssumption
  <2>2. PowerOfTwo[n + 1] = 2 * PowerOfTwo[n]
    BY <1>0, <2>1 DEF Doubled
  <2>3. PowerOfTwo[n] \in Nat
    BY <1>2, RequestAssumption
  <2> QED BY <2>2, <2>3
<1>3. \A n \in Nat : n \in C
  <2> HIDE DEF C
  <2> QED BY <1>1, <1>2, NatInduced
<1> QED BY <1>3, RequestAssumption

LEMMA BackoffRange ==
  ASSUME NEW n \in 0..MaxRetries
  PROVE  BackoffSeconds(n) \subseteq 0..MaxPause
BY PowersAreNatural, RequestAssumption DEF BackoffSeconds

\* The pause a header asks for lies within the cap, and is not shorter than a
\* number in it as far as the cap allows.
LEMMA RetryAfterRange ==
  ASSUME NEW h \in Headers, NEW n \in 0..MaxRetries, NEW seconds \in RetryAfterSeconds(h, n)
  PROVE  /\ seconds \in 0..MaxPause /\ h.value \in Int
         /\ h.form = "number" =>
               seconds >= IF h.value < MaxPause THEN h.value ELSE MaxPause
<1>1. h \in HeaderForms /\ MaxPause \in Nat
  BY RequestAssumption
<1>2. h.value \in Int /\ h.form \in {"number", "nan", "date", "absent"}
  BY <1>1 DEF HeaderForms
<1>3. CASE h.form = "number"
  <2>1. seconds = Clamped(h.value)
    BY <1>3 DEF RetryAfterSeconds
  <2> QED BY <1>1, <1>2, <2>1 DEF Clamped
<1>4. CASE h.form = "nan"
  <2>1. seconds = 0
    BY <1>4 DEF RetryAfterSeconds
  <2> QED BY <1>1, <1>2, <1>4, <2>1
<1>5. CASE h.form \in {"date", "absent"}
  <2>1. seconds \in BackoffSeconds(n) /\ h.form # "number"
    BY <1>5 DEF RetryAfterSeconds
  <2> QED BY <1>2, <2>1, BackoffRange
<1> QED BY <1>2, <1>3, <1>4, <1>5

PauseInv ==
    /\ status \in {0} \cup 200..599
    /\ asked \in Int /\ pause \in 0..MaxPause
    /\ PauseLongEnough

LEMMA PauseInductive == IInv /\ PauseInv /\ [Next]_vars => PauseInv'
<1> SUFFICES ASSUME IInv, PauseInv, [Next]_vars PROVE PauseInv'
  OBVIOUS
<1> USE DEF PauseInv, PauseLongEnough
<1>0. attempt \in 0..MaxRetries /\ MaxPause \in Nat
  BY RequestAssumption DEF IInv, CountInv
<1>1. CASE Send \/ NextAttempt
  BY <1>1 DEF Send, NextAttempt
<1>2. CASE TransportError
  <2>1. status' = 0 /\ asked' = 0 /\ (pause' \in BackoffSeconds(attempt) \/ pause' = pause)
    BY <1>2 DEF TransportError
  <2>2. pause' \in 0..MaxPause
    BY <1>0, <2>1, BackoffRange
  <2> QED BY <1>0, <2>1, <2>2
<1>3. CASE LateExecution \/ AllOver \/ UNCHANGED vars
  BY <1>3 DEF LateExecution, AllOver, vars
<1>4. ASSUME NEW s \in Statuses, NEW h \in Headers, Answered(s, h)
      PROVE  PauseInv'
  <2>1. status' \in 200..599
    BY <1>4, RequestAssumption DEF Answered
  <2>2. CASE Deferred(s, h)
    <3>1. /\ pause' \in RetryAfterSeconds(h, attempt)
          /\ asked' = IF h.form = "number" THEN h.value ELSE 0
      BY <2>2 DEF Deferred
    <3>2. /\ pause' \in 0..MaxPause /\ h.value \in Int
          /\ h.form = "number" =>
                pause' >= IF h.value < MaxPause THEN h.value ELSE MaxPause
      BY <1>0, <3>1, RetryAfterRange
    <3> QED BY <1>0, <2>1, <3>1, <3>2
  <2>3. CASE Final(s) /\ UNCHANGED <<pause, asked>>
    <3>1. state' # "pausing"
      BY <2>3 DEF Final
    <3> QED BY <2>1, <2>3, <3>1
  <2> QED BY <1>4, <2>2, <2>3 DEF Answered
<1> QED BY <1>1, <1>2, <1>3, <1>4 DEF Next

LEMMA PauseInvariant == Spec => []PauseInv
<1>1. Init => PauseInv
  BY RequestAssumption DEF Init, PauseInv, PauseLongEnough
<1> QED BY <1>1, Invariant, PauseInductive, PTL DEF Spec

\* The variables keep their shape: an attempt more than MAX_RATE_LIMIT_RETRIES
\* is never begun, and no pause exceeds the cap (client.py 241-269).
THEOREM TypeCorrect == Spec => []TypeOK
<1>1. IInv /\ PauseInv => TypeOK
  BY RequestAssumption DEF IInv, CountInv, PauseInv, TypeOK
<1> QED BY <1>1, Invariant, PauseInvariant, PTL

\* A retry waits at least as long as the server asked for, within the cap
\* (client.py 30-31, 259-269).
THEOREM PausesAreLongEnough == Spec => []PauseLongEnough
<1>1. PauseInv => PauseLongEnough
  BY DEF PauseInv
<1> QED BY <1>1, PauseInvariant, PTL
=============================================================================
