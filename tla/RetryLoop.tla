----------------------------- MODULE RetryLoop -----------------------------
(***************************************************************************)
(* When the poll loop or the report loop runs next: the circuit breaker of *)
(* agent/src/utils/retry-policy.ts and the backoff of sync.ts, with time.  *)
(* One iteration is one step; time is kept relative to it, in milliseconds. *)
(***************************************************************************)
EXTENDS Naturals

CONSTANTS
  Interval,      \* pollInterval or reportInterval
  BaseDelay,     \* 15 s
  Multiplier,    \* 2
  MaxDelay,      \* 15 min
  ErrorCap,      \* the cap on pollErrors and reportErrors
  maxFailures,   \* of the circuit breaker
  cooldownMs,    \* of the circuit breaker
  Jitter         \* bound: tenths of the capped delay that the jitter can leave

ASSUME RetryAssumption ==
  /\ {Interval, BaseDelay, Multiplier, MaxDelay, cooldownMs} \subseteq Nat \ {0}
  /\ {ErrorCap, maxFailures} \subseteq Nat \ {0}
  /\ Jitter \subseteq 7 .. 13

Min2(a, b) == IF a <= b THEN a ELSE b

VARIABLES
  errors,        \* pollErrors or reportErrors
  failureCount,  \* of the circuit breaker
  openFor,       \* how long after this iteration the circuit stays open
  wait,          \* delay of the timer that starts the next iteration
  last,          \* what this iteration did
  silent         \* history: time from the last attempt to this iteration

retryVars == <<errors, failureCount, openFor, wait, last, silent>>

\* baseDelay * multiplier ^ (attempt - 1)
Exponential[attempt \in 1 .. ErrorCap] ==
  IF attempt = 1 THEN BaseDelay ELSE Multiplier * Exponential[attempt - 1]

\* The delays double at least, by a millisecond or more in every tenth, and the
\* last of them is past the maximum.
ASSUME BackoffAssumption ==
  BaseDelay >= 10 /\ Multiplier >= 2 /\ Exponential[ErrorCap] >= MaxDelay

\* Defect: the delays do not grow.
CappedConstant(attempt) == Min2(BaseDelay, MaxDelay)

\* Defect: no maximum.
CappedNot(attempt) == Exponential[attempt]

\* The exponential delay, cut at maxDelay.
Capped(attempt) == Min2(Exponential[attempt], MaxDelay)

\* jitterPercent 0.3 applied to the capped delay.
Backoff(attempt) == {(Capped(attempt) * tenths) \div 10 : tenths \in Jitter}

RetryTypeOK ==
  /\ errors \in 0 .. ErrorCap
  /\ failureCount \in 0 .. maxFailures
  /\ openFor \in 0 .. cooldownMs
  /\ wait \in Nat
  /\ last \in {"start", "success", "failure", "skipped"}
  /\ silent \in Nat

RetryInit ==
  /\ errors = 0 /\ failureCount = 0 /\ openFor = 0
  /\ wait = 0 /\ last = "start" /\ silent = 0

\* openUntil > 0 && Date.now() < openUntil when the timer has run down.
Cooling == openFor > wait

\* Defect: isOpen() says closed but leaves the count.
CountKept == failureCount

\* isOpen() resets a circuit whose cooldown is over.
CountNow == IF openFor > 0 THEN 0 ELSE failureCount

Skip ==
  /\ Cooling
  /\ openFor' = openFor - wait
  /\ wait' = openFor' + 1000
  /\ last' = "skipped" /\ silent' = silent + wait
  /\ UNCHANGED <<errors, failureCount>>

Succeed ==
  /\ ~Cooling
  /\ errors' = 0 /\ failureCount' = 0 /\ openFor' = 0
  /\ wait' = Interval
  /\ last' = "success" /\ silent' = 0

Fail ==
  /\ ~Cooling
  /\ errors' = Min2(errors + 1, ErrorCap)
  /\ failureCount' = CountNow + 1
  /\ openFor' = IF failureCount' >= maxFailures THEN cooldownMs ELSE 0
  /\ wait' \in Backoff(errors')
  /\ last' = "failure" /\ silent' = 0

RetryNext == Skip \/ Succeed \/ Fail

RetrySpec == RetryInit /\ [][RetryNext]_retryVars
-----------------------------------------------------------------------------
(* Until the cap, each failure in a row waits longer than the one before,  *)
(* whatever the jitter: the loop really backs off.                         *)
BacksOff ==
  [][last = "failure" /\ last' = "failure" /\ Capped(errors') < MaxDelay
       => wait' > wait]_retryVars

(* The skip, the cooldown and the backoff together never leave the device  *)
(* silent for longer than the larger of the jittered cap and the cooldown. *)
SilenceBounded ==
  \/ silent + wait <= Interval
  \/ (silent + wait) * 10 <= MaxDelay * 13
  \/ silent + wait <= cooldownMs + 1000
=============================================================================
