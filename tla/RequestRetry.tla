---------------------------- MODULE RequestRetry ----------------------------
(***************************************************************************)
(* Kanopy._request (client.py 233-275): one API call, sent up to           *)
(* MaxRetries + 1 times over a connection that may lose the request, the   *)
(* answer, or neither but only the patience of the client.                 *)
(*                                                                         *)
(* What the service did is kept beside what the client knows: a request    *)
(* without a clear answer stays pending and may be executed at any later   *)
(* time.  Times are in half seconds, the grain of the backoff's jitter.    *)
(*                                                                         *)
(* A definition marked "fault" is a wrong variant of the one that follows  *)
(* it; nothing uses it (README, "Faults").                                 *)
(***************************************************************************)
EXTENDS Integers

CONSTANTS
    MaxRetries,   \* MAX_RATE_LIMIT_RETRIES
    MaxPause,     \* MAX_RETRY_AFTER_SECONDS
    Statuses,     \* the statuses the service answers with
    Headers       \* the Retry-After headers it sends

\* How float() reads a Retry-After header: a number, "nan", or not at all (an
\* HTTP date); "absent" is no header.
HeaderForms == [form : {"number", "nan", "date", "absent"}, value : Int]

ASSUME RequestAssumption ==
    /\ MaxRetries \in Nat /\ MaxPause \in Nat
    /\ Statuses \subseteq 200..599
    /\ Headers \subseteq HeaderForms

VARIABLES
    kind,      \* "read": a GET, HEAD or OPTIONS; "keyed": with an
               \* Idempotency-Key; "mutation": anything else
    state,     \* of the call: "sending", "waiting", "pausing", or how it ended
    attempt,   \* the loop variable
    sends,     \* how often the request has been sent
    status,    \* of the last answer, 0 for a transport error
    asked,     \* the pause that answer asked for, 0 when it named none
    pause,     \* the pause before the next attempt
    effects,   \* how often the service has executed the request
    pending    \* sent requests whose execution is still open

vars == <<kind, state, attempt, sends, status, asked, pause, effects, pending>>

Ended == {"returned", "raised"}
RETRYABLE_STATUS_CODES == {408, 425, 429, 500, 502, 503, 504}

RetryableAlways == TRUE                             \* fault
Retryable == kind \in {"read", "keyed"}

IsError(s) == s >= 400

\* 2**attempt; the proof system knows nothing of the operator ^
PowerOfTwo[n \in 0..MaxRetries] == IF n = 0 THEN 1 ELSE 2 * PowerOfTwo[n - 1]

\* min(MAX_RETRY_AFTER_SECONDS, 2**attempt + uniform(0, 0.5))
BackoffSeconds(n) ==
    LET seconds == 2 * PowerOfTwo[n] IN
    {IF seconds + jitter <= MaxPause THEN seconds + jitter ELSE MaxPause :
        jitter \in {0, 1}}

\* max(0, min(seconds, MAX_RETRY_AFTER_SECONDS)), where min and max keep their
\* first argument when a nan is compared: min gives nan and max then 0.
Clamped(v) == IF v < 0 THEN 0 ELSE IF v > MaxPause THEN MaxPause ELSE v
RetryAfterUnclamped(h, n) ==                        \* fault
    IF h.form = "number" THEN {h.value} ELSE BackoffSeconds(n)
RetryAfterIgnored(h, n) == BackoffSeconds(n)        \* fault
RetryAfterSeconds(h, n) ==
    CASE h.form = "number" -> {Clamped(h.value)}
      [] h.form = "nan" -> {0}
      [] h.form \in {"date", "absent"} -> BackoffSeconds(n)

Init ==
    /\ kind \in {"read", "keyed", "mutation"}
    /\ state = "sending" /\ attempt = 0 /\ sends = 0
    /\ status = 0 /\ asked = 0 /\ pause = 0
    /\ effects = 0 /\ pending = 0

Send ==
    /\ state = "sending"
    /\ state' = "waiting" /\ sends' = sends + 1
    /\ UNCHANGED <<kind, attempt, status, asked, pause, effects, pending>>

AttemptsLeftOneFewer == attempt + 1 < MaxRetries    \* fault
AttemptsLeft == attempt < MaxRetries

\* External: a keyed request is executed once, whatever its copies.
Executed == IF kind = "keyed" THEN 1 ELSE effects + 1

\* What the answer says of the execution: a success has executed the request,
\* a 5xx may have or may still, any other answer has not.
Handled(s) ==
    /\ effects' = IF s < 300 THEN Executed ELSE effects
    /\ pending' = IF s >= 500 THEN pending + 1 ELSE pending

\* An answer to try again after: the pause the server asked for, or backoff.
Deferred(s, h) ==
    /\ Retryable /\ s \in RETRYABLE_STATUS_CODES /\ AttemptsLeft
    /\ state' = "pausing"
    /\ pause' \in RetryAfterSeconds(h, attempt)
    /\ asked' = IF h.form = "number" THEN h.value ELSE 0

\* An answer that ends the call.
Final(s) == state' = IF IsError(s) THEN "raised" ELSE "returned"

Answered(s, h) ==
    /\ state = "waiting"
    /\ status' = s /\ Handled(s)
    /\ \/ Deferred(s, h)
       \/ /\ ~(Retryable /\ s \in RETRYABLE_STATUS_CODES /\ AttemptsLeft)
          /\ Final(s) /\ UNCHANGED <<pause, asked>>
    /\ UNCHANGED <<kind, attempt, sends>>

\* httpx.TransportError: refused, timed out or cut off.
TransportError ==
    /\ state = "waiting"
    /\ status' = 0 /\ asked' = 0
    /\ IF Retryable /\ AttemptsLeft
         THEN state' = "pausing" /\ pause' \in BackoffSeconds(attempt)
         ELSE state' = "raised" /\ UNCHANGED pause
    /\ pending' \in {pending, pending + 1}
    /\ UNCHANGED <<kind, attempt, sends, effects>>

\* time.sleep is over
NextAttempt ==
    /\ state = "pausing"
    /\ state' = "sending" /\ attempt' = attempt + 1
    /\ UNCHANGED <<kind, sends, status, asked, pause, effects, pending>>

\* External: the service executes a request nobody waits for any more.
LateExecution ==
    /\ pending > 0
    /\ pending' = pending - 1 /\ effects' = Executed
    /\ UNCHANGED <<kind, state, attempt, sends, status, asked, pause>>

AllOver == state \in Ended /\ UNCHANGED vars

Next ==
    \/ Send \/ TransportError \/ NextAttempt \/ LateExecution \/ AllOver
    \/ \E s \in Statuses, h \in Headers : Answered(s, h)

Spec == Init /\ [][Next]_vars

-----------------------------------------------------------------------------
\* Every variable has the shape the code gives it.
TypeOK ==
    /\ kind \in {"read", "keyed", "mutation"}
    /\ state \in {"sending", "waiting", "pausing"} \cup Ended
    /\ attempt \in 0..MaxRetries
    /\ sends \in 0..(MaxRetries + 1)
    /\ status \in {0} \cup 200..599
    /\ asked \in Int
    /\ pause \in 0..MaxPause
    /\ effects \in Nat /\ pending \in Nat

\* README 86-87, "Mutating requests are never retried unless they carry an
\* idempotency key": neither now nor later does the service execute one twice.
MutationAtMostOnce ==
    kind = "mutation" => effects + pending <= 1 /\ sends <= 1

\* A failure that the code takes for transient, a transport error or one of
\* RETRYABLE_STATUS_CODES, reaches the caller of a read or of a keyed request only
\* after every attempt has been spent (client.py 41, 239-253).  The SDK's README
\* (85-86) promises it for every 5xx; a 501, for example, is not in the list and is
\* raised after one attempt.
AttemptsSpent ==
    /\ state = "raised" /\ kind # "mutation"
    /\ status \in {0} \cup RETRYABLE_STATUS_CODES
    => sends = MaxRetries + 1

\* The pause before a retry is at least the Retry-After the server asked for,
\* as far as the cap allows (client.py 30-31, 259-269).
PauseLongEnough ==
    state = "pausing" => pause >= IF asked < MaxPause THEN asked ELSE MaxPause
=============================================================================
