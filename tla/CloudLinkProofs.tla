-------------------------- MODULE CloudLinkProofs ---------------------------
(***************************************************************************)
(* Proofs about CloudLink and the modules it joins, for any thresholds,    *)
(* delays and bounds: types, the monitor, the length of a silence and the  *)
(* growth of the delays.                                                   *)
(***************************************************************************)
EXTENDS CloudLink, WellFoundedInduction, TLAPS

LEMMA LeastNumber ==
  ASSUME NEW S \in SUBSET Nat, S # {}
  PROVE  \E least \in S : \A n \in S : least <= n
<1>1. PICK x \in S : \A y \in S : ~(<<y, x>> \in OpToRel(<, Nat))
  BY NatLessThanWellFounded, WFMin
<1>2. \A y \in S : ~(y < x)
  BY <1>1 DEF OpToRel
<1>. QED
  BY <1>2

LEMMA Product ==
  ASSUME NEW m \in Nat \ {0}, NEW n \in Nat \ {0}
  PROVE  m * n \in Nat \ {0} /\ n <= m * n /\ (m >= 2 => m * n >= 2 * n)
<1>1. m * n = n + (m - 1) * n /\ (m >= 2 => m * n = 2 * n + (m - 2) * n)
  OBVIOUS
<1>2. (m - 1) * n >= 0 /\ (m >= 2 => (m - 2) * n >= 0)
  OBVIOUS
<1>3. m * n \in Int /\ (m - 1) * n \in Int /\ (m - 2) * n \in Int
  OBVIOUS
<1>. QED
  BY <1>1, <1>2, <1>3
-----------------------------------------------------------------------------
(* Exponential is a function: its recursion has a solution.                *)
Solves(f, m) ==
  f = [n \in 1 .. m |-> IF n = 1 THEN BaseDelay ELSE Multiplier * f[n - 1]]

LEMMA Solvable == \A m \in Nat : \E f : Solves(f, m)
<1> DEFINE Bad == {m \in Nat : ~ \E f : Solves(f, m)}
<1> SUFFICES ASSUME Bad # {} PROVE FALSE
  OBVIOUS
<1>1. PICK m \in Bad : \A n \in Bad : m <= n
  BY LeastNumber
<1>2. CASE m = 0
  <2> DEFINE f == [n \in 1 .. 0 |-> 0]
  <2>1. Solves(f, 0)
    BY DEF Solves
  <2>. QED
    BY <2>1, <1>2
<1>3. CASE m # 0
  <2>1. m \in Nat /\ m - 1 \in Nat /\ m - 1 \notin Bad
    BY <1>1, <1>3
  <2>2. PICK f : Solves(f, m - 1)
    BY <2>1
  <2> DEFINE last1 == IF m = 1 THEN BaseDelay ELSE Multiplier * f[m - 1]
             g == [n \in 1 .. m |-> IF n = m THEN last1 ELSE f[n]]
  <2>3. ASSUME NEW n \in 1 .. m
        PROVE  g[n] = IF n = 1 THEN BaseDelay ELSE Multiplier * g[n - 1]
    <3>1. CASE n = m
      BY <3>1, <2>1
    <3>2. CASE n # m
      <4>1. n \in 1 .. m - 1 /\ (n # 1 => n - 1 \in 1 .. m - 1 /\ n - 1 # m)
        BY <3>2, <2>1
      <4>2. f[n] = IF n = 1 THEN BaseDelay ELSE Multiplier * f[n - 1]
        BY <4>1, <2>2 DEF Solves
      <4>3. g[n] = f[n] /\ (n # 1 => g[n - 1] = f[n - 1])
        BY <4>1, <3>2, <2>1
      <4>. QED
        BY <4>2, <4>3
    <3>. QED
      BY <3>1, <3>2
  <2>4. Solves(g, m)
    BY <2>3 DEF Solves
  <2>. QED
    BY <2>4, <1>1
<1>. QED
  BY <1>2, <1>3

LEMMA ExponentialAt ==
  ASSUME NEW n \in 1 .. ErrorCap
  PROVE  Exponential[n] = IF n = 1 THEN BaseDelay ELSE Multiplier * Exponential[n - 1]
<1>1. \E f : Solves(f, ErrorCap)
  BY Solvable, RetryAssumption
<1>2. Solves(Exponential, ErrorCap)
  BY <1>1 DEF Exponential, Solves
<1>. QED
  BY <1>2 DEF Solves

\* The delays are positive, and each is at least twice the one before.
LEMMA ExponentialGrows ==
  ASSUME NEW n \in 1 .. ErrorCap
  PROVE  /\ Exponential[n] \in Nat /\ Exponential[n] >= 10
         /\ n > 1 => /\ Exponential[n - 1] \in Nat
                     /\ Exponential[n] >= 2 * Exponential[n - 1]
<1> DEFINE Fine(k) == Exponential[k] \in Nat /\ Exponential[k] >= 10
           Bad == {k \in 1 .. ErrorCap : ~Fine(k)}
<1>1. ASSUME NEW k \in 1 .. ErrorCap, k > 1, Fine(k - 1)
      PROVE  Fine(k) /\ Exponential[k] >= 2 * Exponential[k - 1]
  <2>1. Exponential[k] = Multiplier * Exponential[k - 1]
    BY <1>1, ExponentialAt
  <2>2. Multiplier \in Nat \ {0} /\ Exponential[k - 1] \in Nat \ {0} /\ Multiplier >= 2
    BY <1>1, RetryAssumption, BackoffAssumption
  <2> HIDE DEF Fine
  <2>3. /\ Multiplier * Exponential[k - 1] \in Nat
        /\ Multiplier * Exponential[k - 1] >= 2 * Exponential[k - 1]
    BY <2>2, Product
  <2>. QED
    BY <2>1, <2>3, <1>1 DEF Fine
<1>2. Bad = {}
  <2> SUFFICES ASSUME Bad # {} PROVE FALSE
    OBVIOUS
  <2>0. Bad \in SUBSET Nat
    BY RetryAssumption
  <2>1. PICK k \in Bad : \A j \in Bad : k <= j
    <3> HIDE DEF Bad
    <3>. QED
      BY <2>0, LeastNumber
  <2>2. CASE k = 1
    BY <2>1, <2>2, ExponentialAt, RetryAssumption, BackoffAssumption
  <2>3. CASE k > 1
    <3>1. k - 1 \in 1 .. ErrorCap /\ k - 1 \notin Bad
      BY <2>1, <2>3, RetryAssumption
    <3>. QED
      BY <3>1, <2>3, <2>1, <1>1
  <2>. QED
    BY <2>1, <2>2, <2>3
<1>. QED
  <2>1. Fine(n) /\ (n > 1 => n - 1 \in 1 .. ErrorCap /\ Fine(n - 1))
    BY <1>2, RetryAssumption
  <2>. QED
    BY <2>1, <1>1

LEMMA CappedBounds ==
  ASSUME NEW n \in 1 .. ErrorCap
  PROVE  /\ Capped(n) \in Nat /\ Capped(n) <= MaxDelay
         /\ Capped(n) <= Exponential[n]
         /\ Capped(n) < MaxDelay => Capped(n) = Exponential[n]
BY ExponentialGrows, RetryAssumption DEF Capped, Min2

\* What the jitter leaves of a delay.
LEMMA JitterBounds ==
  ASSUME NEW attempt \in 1 .. ErrorCap, NEW delay \in Backoff(attempt)
  PROVE  /\ delay \in Nat
         /\ delay * 10 <= Capped(attempt) * 13
         /\ Capped(attempt) * 7 <= delay * 10 + 9
<1>1. PICK tenths \in 7 .. 13 : delay = (Capped(attempt) * tenths) \div 10
  BY RetryAssumption DEF Backoff
<1> DEFINE c == Capped(attempt)
<1>2. c \in Nat
  BY CappedBounds
<1> HIDE DEF c
<1>3. ASSUME NEW t \in 7 .. 13
      PROVE  /\ (c * t) \div 10 \in Nat
             /\ ((c * t) \div 10) * 10 <= c * 13
             /\ c * 7 <= ((c * t) \div 10) * 10 + 9
  <2>1. /\ t \in {7, 8, 9, 10, 11, 12, 13}
        /\ c * t \in Nat /\ c * 7 <= c * t /\ c * t <= c * 13
    BY <1>2
  <2> DEFINE p == c * t
  <2> HIDE DEF p
  <2>2. ASSUME NEW q \in Nat
        PROVE  q \div 10 \in Nat /\ (q \div 10) * 10 <= q /\ q <= (q \div 10) * 10 + 9
    OBVIOUS
  <2>3. p \div 10 \in Nat /\ (p \div 10) * 10 <= p /\ p <= (p \div 10) * 10 + 9
    BY <2>1, <2>2 DEF p
  <2>4. p \in Nat /\ c * 7 <= p /\ p <= c * 13
    BY <2>1 DEF p
  <2>5. /\ p \div 10 \in Nat /\ (p \div 10) * 10 <= c * 13
        /\ c * 7 <= (p \div 10) * 10 + 9
    BY <2>3, <2>4, <1>2
  <2>. QED
    BY <2>5 DEF p
<1>. QED
  BY <1>1, <1>3 DEF c
-----------------------------------------------------------------------------
\* A closed circuit has not counted to its limit.
CountBelow == openFor = 0 => failureCount < maxFailures

\* The silence and what is left of the cooldown fit into the cooldown.
CooldownLeft == openFor > 0 => silent + openFor <= cooldownMs

\* The delay of the timer comes from what the last iteration did.
WaitExplained ==
  /\ last = "start" => wait = 0 /\ silent = 0
  /\ last = "success" => wait = Interval /\ silent = 0
  /\ last = "failure" => errors \in 1 .. ErrorCap /\ wait \in Backoff(errors) /\ silent = 0
  /\ last = "skipped" => openFor > 0 /\ wait = openFor + 1000

RetryInv == RetryTypeOK /\ CountBelow /\ CooldownLeft /\ WaitExplained

LEMMA RetryInvInit == RetryInit => RetryInv
BY RetryAssumption
DEF RetryInit, RetryInv, RetryTypeOK, CountBelow, CooldownLeft, WaitExplained

LEMMA SkipKeeps == RetryInv /\ Skip => RetryInv'
<1> SUFFICES ASSUME RetryInv, Skip PROVE RetryInv'
  OBVIOUS
<1>1. /\ openFor \in Nat /\ openFor <= cooldownMs /\ wait \in Nat /\ silent \in Nat
      /\ openFor > wait /\ openFor' = openFor - wait /\ silent' = silent + wait
      /\ wait' = openFor' + 1000 /\ last' = "skipped" /\ cooldownMs \in Nat
      /\ errors' = errors /\ failureCount' = failureCount
  BY RetryAssumption DEF RetryInv, RetryTypeOK, Skip, Cooling
<1>2. openFor' \in Nat /\ openFor' > 0 /\ openFor' <= cooldownMs /\ silent' \in Nat
  BY <1>1
<1>3. RetryTypeOK'
  BY <1>1, <1>2 DEF RetryInv, RetryTypeOK
<1>4. CountBelow' /\ WaitExplained'
  BY <1>1, <1>2 DEF CountBelow, WaitExplained
<1>5. CooldownLeft'
  BY <1>1 DEF RetryInv, CooldownLeft
<1>. QED
  BY <1>3, <1>4, <1>5 DEF RetryInv

LEMMA SucceedKeeps == RetryInv /\ Succeed => RetryInv'
BY RetryAssumption
DEF RetryInv, RetryTypeOK, CountBelow, CooldownLeft, WaitExplained, Succeed

\* A closed circuit counts one more, one whose cooldown is over counts from one.
LEMMA FailKeeps == RetryInv /\ Fail => RetryInv'
<1> SUFFICES ASSUME RetryInv, Fail PROVE RetryInv'
  OBVIOUS
<1>1. /\ errors \in Nat /\ failureCount \in Nat /\ openFor \in Nat
      /\ {ErrorCap, maxFailures, cooldownMs} \subseteq Nat \ {0}
      /\ openFor = 0 => failureCount < maxFailures
  BY RetryAssumption DEF RetryInv, RetryTypeOK, CountBelow
<1>2. errors' \in 1 .. ErrorCap
  BY <1>1 DEF Fail, Min2
<1>3. failureCount' \in 0 .. maxFailures
  BY <1>1 DEF Fail, CountNow
<1>4. openFor' \in 0 .. cooldownMs /\ (openFor' = 0 => failureCount' < maxFailures)
  BY <1>1, <1>3 DEF Fail
<1>5. wait' \in Backoff(errors') /\ last' = "failure" /\ silent' = 0
  BY DEF Fail
<1>6. wait' \in Nat
  BY <1>2, <1>5, JitterBounds
<1>7. RetryTypeOK'
  BY <1>2, <1>3, <1>4, <1>5, <1>6 DEF RetryTypeOK
<1>8. CountBelow' /\ CooldownLeft'
  BY <1>4, <1>5, <1>1 DEF CountBelow, CooldownLeft
<1>9. WaitExplained'
  BY <1>2, <1>5 DEF WaitExplained, Backoff, Capped
<1>. QED
  BY <1>7, <1>8, <1>9 DEF RetryInv
-----------------------------------------------------------------------------
MonitorInv == MonitorTypeOK /\ MonitorConsistent

\* What the two handlers leave in the counts.
LEMMA CountsAfterSuccess ==
  ASSUME NEW op \in Operations, failures \in [Operations -> 0 .. MaxFailures],
         MarkSuccess(op)
  PROVE  /\ failures' \in [Operations -> 0 .. MaxFailures] /\ failures'[op] = 0
         /\ \A o \in Operations \ {op} : failures'[o] = failures[o]
BY MonitorAssumption DEF MarkSuccess

LEMMA CountsAfterFailure ==
  ASSUME NEW op \in Operations, failures \in [Operations -> 0 .. MaxFailures],
         MarkFailure(op)
  PROVE  /\ failures' \in [Operations -> 0 .. MaxFailures]
         /\ failures'[op] = OneMore(failures[op]) /\ failures'[op] > 0
         /\ \A o \in Operations \ {op} : failures'[o] = failures[o]
<1>1. OneMore(failures[op]) \in 0 .. MaxFailures /\ OneMore(failures[op]) > 0
  BY MonitorAssumption DEF OneMore
<1>2. failures' = [failures EXCEPT ![op] = OneMore(failures[op])]
  BY DEF MarkFailure
<1>. QED
  BY <1>1, <1>2

LEMMA MarkSuccessKeeps ==
  ASSUME MonitorInv, NEW op \in Operations, MarkSuccess(op)
  PROVE  MonitorInv'
<1>1. /\ failures \in [Operations -> 0 .. MaxFailures] /\ isOnline \in BOOLEAN
      /\ failures' \in [Operations -> 0 .. MaxFailures] /\ failures'[op] = 0
      /\ \A o \in Operations \ {op} : failures'[o] = failures[o]
  BY CountsAfterSuccess DEF MonitorInv, MonitorTypeOK
<1>2. MonitorTypeOK'
  BY <1>1 DEF MarkSuccess, MonitorTypeOK, Events
<1>3. ASSUME isOnline'
      PROVE  \A o \in Operations : failures'[o] < FAILURE_THRESHOLD
  <2>1. 0 < FAILURE_THRESHOLD
    BY MonitorAssumption
  <2>2. isOnline \/ \A o \in Operations : failures'[o] = 0
    BY <1>3 DEF MarkSuccess
  <2>. QED
    BY <1>1, <2>1, <2>2 DEF MonitorInv, MonitorConsistent
<1>4. ASSUME ~isOnline'
      PROVE  \E o \in Operations : failures'[o] > 0
  <2>1. PICK o \in Operations : failures'[o] # 0
    BY <1>4, <1>1 DEF MarkSuccess
  <2>. QED
    BY <1>1, <2>1
<1>. QED
  BY <1>2, <1>3, <1>4 DEF MonitorInv, MonitorConsistent

LEMMA MarkFailureKeeps ==
  ASSUME MonitorInv, NEW op \in Operations, MarkFailure(op)
  PROVE  MonitorInv'
<1>1. /\ failures \in [Operations -> 0 .. MaxFailures] /\ isOnline \in BOOLEAN
      /\ failures' \in [Operations -> 0 .. MaxFailures] /\ failures'[op] > 0
      /\ \A o \in Operations \ {op} : failures'[o] = failures[o]
  BY CountsAfterFailure DEF MonitorInv, MonitorTypeOK
<1>2. MonitorTypeOK'
  BY <1>1 DEF MarkFailure, MonitorTypeOK, Events
<1>3. ASSUME isOnline'
      PROVE  \A o \in Operations : failures'[o] < FAILURE_THRESHOLD
  <2>1. \A o \in Operations : ~(failures'[o] >= FAILURE_THRESHOLD)
    BY <1>3 DEF MarkFailure
  <2>. QED
    BY <1>1, <2>1, MonitorAssumption
<1>. QED
  BY <1>1, <1>2, <1>3 DEF MonitorInv, MonitorConsistent
-----------------------------------------------------------------------------
\* Polls the cloud did not answer are exactly the failures the monitor counts.
PollsCounted ==
  /\ refused \in [Operations -> 0 .. MaxFailures]
  /\ refused["poll"] = failures["poll"]

Flags == {reachable, changed, metricsDue, reportedOnline, ownFlush} \subseteq BOOLEAN

LinkTypeOK == Flags /\ queued \in 0 .. MaxQueued /\ eventFlushes \in 0 .. MaxFlushes

LinkInv == RetryInv /\ MonitorInv /\ PollsCounted /\ LinkTypeOK

LEMMA LinkInvInit == Init => LinkInv
<1> SUFFICES ASSUME Init PROVE LinkInv
  OBVIOUS
<1>1. RetryInv
  BY RetryInvInit DEF Init
<1>2. MonitorInv
  BY MonitorAssumption
  DEF Init, MonitorInit, MonitorInv, MonitorTypeOK, MonitorConsistent, Events, Operations
<1>3. PollsCounted
  BY MonitorAssumption DEF Init, MonitorInit, PollsCounted, Operations
<1>4. LinkTypeOK
  <2>1. Flags
    BY DEF Init, Flags
  <2>. QED
    BY <2>1, LinkAssumption DEF Init, LinkTypeOK
<1>. QED
  BY <1>1, <1>2, <1>3, <1>4 DEF LinkInv

LEMMA StartKeepsCount ==
  ASSUME eventFlushes \in 0 .. MaxFlushes, eventFlushes < MaxFlushes, StartEventFlush
  PROVE  eventFlushes' \in 0 .. MaxFlushes
BY LinkAssumption DEF StartEventFlush

LEMMA PollKeeps == LinkInv /\ Poll => LinkInv'
<1> SUFFICES ASSUME LinkInv, Poll PROVE LinkInv'
  OBVIOUS
<1>0. /\ failures \in [Operations -> 0 .. MaxFailures]
      /\ refused \in [Operations -> 0 .. MaxFailures] /\ "poll" \in Operations
      /\ refused["poll"] = failures["poll"] /\ MaxFailures \in Nat
  BY MonitorAssumption DEF LinkInv, PollsCounted, MonitorInv, MonitorTypeOK, Operations
<1>1. CASE PollSkips
  BY <1>1, SkipKeeps
  DEF PollSkips, LinkInv, MonitorInv, MonitorTypeOK, MonitorConsistent, PollsCounted,
      LinkTypeOK, Flags, monitorVars, linkVars
<1>2. CASE PollSucceeds
  <2>1. RetryInv' /\ MonitorInv'
    BY <1>0, <1>2, SucceedKeeps, MarkSuccessKeeps DEF PollSucceeds, LinkInv
  <2>2. PollsCounted'
    BY <1>0, <1>2, CountsAfterSuccess DEF PollSucceeds, PollsCounted
  <2>3. LinkTypeOK'
    BY <1>2, StartKeepsCount DEF PollSucceeds, LinkInv, LinkTypeOK, Flags
  <2>. QED
    BY <2>1, <2>2, <2>3 DEF LinkInv
<1>3. CASE PollFails
  <2>1. RetryInv' /\ MonitorInv'
    BY <1>0, <1>3, FailKeeps, MarkFailureKeeps DEF PollFails, LinkInv
  <2>2. /\ failures'["poll"] = OneMore(failures["poll"])
        /\ OneMore(refused["poll"]) \in 0 .. MaxFailures
    BY <1>0, <1>3, CountsAfterFailure DEF PollFails, OneMore
  <2>3. refused' = [refused EXCEPT !["poll"] = OneMore(refused["poll"])]
    BY <1>3 DEF PollFails
  <2>4. PollsCounted'
    BY <1>0, <2>2, <2>3 DEF PollsCounted
  <2>5. LinkTypeOK'
    BY <1>3 DEF PollFails, LinkInv, LinkTypeOK, Flags
  <2>. QED
    BY <2>1, <2>4, <2>5 DEF LinkInv
<1>. QED
  BY <1>1, <1>2, <1>3 DEF Poll

LEMMA RetrySame == RetryInv /\ UNCHANGED retryVars => RetryInv'
BY DEF RetryInv, RetryTypeOK, CountBelow, CooldownLeft, WaitExplained, retryVars,
       Backoff, Capped

LEMMA MonitorSame == MonitorInv /\ UNCHANGED monitorVars => MonitorInv'
BY DEF MonitorInv, MonitorTypeOK, MonitorConsistent, monitorVars

LEMMA ReportKeeps == LinkInv /\ Report => LinkInv'
<1> SUFFICES ASSUME LinkInv, Report PROVE LinkInv'
  OBVIOUS
<1>0. /\ failures \in [Operations -> 0 .. MaxFailures]
      /\ refused \in [Operations -> 0 .. MaxFailures]
      /\ "poll" \in Operations /\ "report" \in Operations
      /\ refused["poll"] = failures["poll"] /\ MaxFailures \in Nat
  BY MonitorAssumption DEF LinkInv, PollsCounted, MonitorInv, MonitorTypeOK, Operations
<1>1. RetryInv'
  BY RetrySame DEF Report, ReportNothing, ReportSucceeds, ReportFails, LinkInv
<1>2. CASE ReportDone /\ (ReportNothing \/ ReportSucceeds)
  <2>1. MonitorInv'
    BY <1>0, <1>2, MarkSuccessKeeps DEF ReportDone, LinkInv
  <2>2. failures'["poll"] = failures["poll"]
    BY <1>0, <1>2, CountsAfterSuccess DEF ReportDone
  <2>3. PollsCounted'
    BY <1>0, <1>2, <2>2 DEF PollsCounted, ReportNothing, ReportSucceeds
  <2>4. eventFlushes' \in 0 .. MaxFlushes
    BY <1>2, StartKeepsCount DEF ReportDone, LinkInv, LinkTypeOK
  <2>5. Flags'
    <3>1. Flags /\ isOnline \in BOOLEAN /\ ownFlush' \in BOOLEAN
      BY <1>2 DEF ReportDone, LinkInv, LinkTypeOK, MonitorInv, MonitorTypeOK
    <3>. QED
      BY <3>1, <1>2, Zenon DEF ReportNothing, ReportSucceeds, Flags
  <2>6. LinkTypeOK'
    BY <1>2, <2>4, <2>5 DEF ReportNothing, ReportSucceeds, LinkInv, LinkTypeOK
  <2>. QED
    BY <1>1, <2>1, <2>3, <2>6 DEF LinkInv
<1>3. CASE ReportFails
  <2>1. MonitorInv'
    BY <1>0, <1>3, MarkFailureKeeps DEF ReportFails, LinkInv
  <2>2. failures'["poll"] = failures["poll"]
    BY <1>0, <1>3, CountsAfterFailure DEF ReportFails
  <2>3. /\ OneMore(refused["report"]) \in 0 .. MaxFailures
        /\ refused' = [refused EXCEPT !["report"] = OneMore(refused["report"])]
    BY <1>0, <1>3 DEF ReportFails, OneMore
  <2>4. PollsCounted'
    BY <1>0, <2>2, <2>3 DEF PollsCounted
  <2>5. Flags'
    BY <1>3, Zenon DEF ReportFails, LinkInv, LinkTypeOK, Flags
  <2>6. LinkTypeOK'
    BY <1>3, <2>5, LinkAssumption DEF ReportFails, LinkInv, LinkTypeOK
  <2>. QED
    BY <1>1, <2>1, <2>4, <2>6 DEF LinkInv
<1>. QED
  BY <1>2, <1>3 DEF Report, ReportNothing, ReportSucceeds

\* The rest of the steps touch neither the monitor nor the timers.
LEMMA OthersKeep == LinkInv /\ (Flush \/ Reach \/ DeviceChanges \/ MetricsInterval) => LinkInv'
<1> SUFFICES ASSUME LinkInv, Flush \/ Reach \/ DeviceChanges \/ MetricsInterval
             PROVE  LinkInv'
  OBVIOUS
<1>1. UNCHANGED retryVars /\ UNCHANGED monitorVars /\ refused' = refused
  BY DEF Flush, FlushSends, FlushEnds, Reach, DeviceChanges, MetricsInterval
<1>2. RetryInv' /\ MonitorInv' /\ PollsCounted'
  BY <1>1, RetrySame, MonitorSame DEF LinkInv, PollsCounted, monitorVars
<1>3. Flags'
  BY DEF Flush, FlushSends, FlushEnds, Reach, DeviceChanges, MetricsInterval, LinkInv,
         LinkTypeOK, Flags
<1>4. LinkTypeOK'
  BY <1>3, LinkAssumption
  DEF Flush, FlushSends, FlushEnds, Reach, DeviceChanges, MetricsInterval, LinkInv,
      LinkTypeOK
<1>. QED
  BY <1>2, <1>4 DEF LinkInv

LEMMA LinkInvNext == LinkInv /\ [Next]_vars => LinkInv'
<1>1. LinkInv /\ UNCHANGED vars => LinkInv'
  BY RetrySame, MonitorSame DEF LinkInv, PollsCounted, LinkTypeOK, Flags, vars, linkVars, monitorVars
<1>. QED
  BY <1>1, PollKeeps, ReportKeeps, OthersKeep DEF Next

LEMMA LinkInvHolds == Spec => []LinkInv
  BY LinkInvInit, LinkInvNext, PTL DEF Spec
-----------------------------------------------------------------------------
(* The circuit breaker never counts past its maximum, the monitor past its *)
(* threshold, nor any queue past its bound.                                *)
THEOREM TypeCorrect == Spec => []TypeOK
<1>1. LinkInv => TypeOK
  BY DEF LinkInv, RetryInv, MonitorInv, PollsCounted, LinkTypeOK, Flags, TypeOK
<1>. QED
  BY <1>1, LinkInvHolds, PTL

(* The monitor's state never contradicts its two counts, whatever order    *)
(* the loops call it in.                                                   *)
THEOREM MonitorConsistentCorrect == Spec => []MonitorConsistent
<1>1. LinkInv => MonitorConsistent
  BY DEF LinkInv, MonitorInv
<1>. QED
  BY <1>1, LinkInvHolds, PTL

(* FAILURE_THRESHOLD unanswered polls in a row are an outage, whatever the *)
(* report loop does meanwhile.                                             *)
THEOREM PollOutageSeenCorrect == Spec => []PollOutageSeen
<1>1. LinkInv => PollOutageSeen
  <2> SUFFICES ASSUME LinkInv, refused["poll"] >= FAILURE_THRESHOLD, isOnline PROVE FALSE
    BY DEF PollOutageSeen
  <2>1. failures["poll"] \in Nat /\ failures["poll"] < FAILURE_THRESHOLD
    BY DEF LinkInv, MonitorInv, MonitorTypeOK, MonitorConsistent, Operations
  <2>2. failures["poll"] >= FAILURE_THRESHOLD
    BY DEF LinkInv, PollsCounted
  <2>. QED
    BY <2>1, <2>2, MonitorAssumption
<1>. QED
  BY <1>1, LinkInvHolds, PTL

(* Skips, cooldown and jittered backoff together never silence the poll    *)
(* loop for longer than the larger of the jittered cap and the cooldown.   *)
THEOREM SilenceBoundedCorrect == Spec => []SilenceBounded
<1>1. RetryInv => SilenceBounded
  <2> SUFFICES ASSUME RetryInv PROVE SilenceBounded
    OBVIOUS
  <2>0. /\ {Interval, MaxDelay, cooldownMs} \subseteq Nat
        /\ {openFor, wait, silent} \subseteq Nat
        /\ last \in {"start", "success", "failure", "skipped"}
    BY RetryAssumption DEF RetryInv, RetryTypeOK
  <2>1. CASE last \in {"start", "success"}
    BY <2>0, <2>1 DEF RetryInv, WaitExplained, SilenceBounded
  <2>2. CASE last = "failure"
    <3>1. silent = 0 /\ errors \in 1 .. ErrorCap /\ wait \in Backoff(errors)
      BY <2>2 DEF RetryInv, WaitExplained
    <3>2. Capped(errors) \in Nat /\ Capped(errors) <= MaxDelay /\ wait * 10 <= Capped(errors) * 13
      BY <3>1, CappedBounds, JitterBounds
    <3>. QED
      BY <2>0, <3>1, <3>2 DEF SilenceBounded
  <2>3. CASE last = "skipped"
    BY <2>0, <2>3 DEF RetryInv, WaitExplained, CooldownLeft, SilenceBounded
  <2>. QED
    BY <2>0, <2>1, <2>2, <2>3
<1>2. LinkInv => SilenceBounded
  BY <1>1 DEF LinkInv
<1>. QED
  BY <1>2, LinkInvHolds, PTL

(* The jitter never undoes the doubling: below the cap, the wait after a   *)
(* failure is longer than the wait after the failure before it.            *)
THEOREM BacksOffCorrect == Spec => BacksOff
<1> DEFINE Longer == last = "failure" /\ last' = "failure" /\ Capped(errors') < MaxDelay
                       => wait' > wait
<1>1. RetryInv /\ Fail => Longer
  <2> SUFFICES ASSUME RetryInv, Fail, last = "failure", Capped(errors') < MaxDelay
               PROVE  wait' > wait
    OBVIOUS
  <2>1. /\ errors \in 1 .. ErrorCap /\ wait \in Backoff(errors)
        /\ wait' \in Backoff(errors') /\ errors' = Min2(errors + 1, ErrorCap)
        /\ ErrorCap \in Nat /\ MaxDelay \in Nat
    BY RetryAssumption DEF RetryInv, WaitExplained, Fail
  <2>2. errors' \in 1 .. ErrorCap
    BY <2>1 DEF Min2
  <2>3. Capped(errors') = Exponential[errors'] /\ Exponential[errors'] \in Nat
    BY <2>2, CappedBounds, ExponentialGrows
  <2>4. errors' # ErrorCap
    BY <2>3, <2>1, BackoffAssumption
  <2>5. errors' = errors + 1
    BY <2>1, <2>4 DEF Min2
  <2>6. /\ Exponential[errors] \in Nat /\ Exponential[errors] >= 10
        /\ Exponential[errors'] >= 2 * Exponential[errors]
    <3>1. errors' > 1 /\ errors' - 1 = errors
      BY <2>1, <2>5
    <3>. QED
      BY <2>1, <2>2, <3>1, ExponentialGrows
  <2>7. /\ wait \in Nat /\ wait * 10 <= Capped(errors) * 13
        /\ Capped(errors) \in Nat /\ Capped(errors) <= Exponential[errors]
        /\ wait' \in Nat /\ Capped(errors') * 7 <= wait' * 10 + 9
    BY <2>1, <2>2, JitterBounds, CappedBounds
  <2>8. wait * 10 <= Exponential[errors] * 13
    BY <2>6, <2>7
  <2>9. Exponential[errors] * 14 <= wait' * 10 + 9
    BY <2>3, <2>6, <2>7
  <2>. QED
    BY <2>6, <2>7, <2>8, <2>9
<1>2. RetryInv /\ [Next]_vars => [Longer]_retryVars
  <2>1. Skip => Longer
    BY DEF Skip
  <2>2. Succeed => Longer
    BY DEF Succeed
  <2>3. Next => Skip \/ Succeed \/ Fail \/ UNCHANGED retryVars
    BY DEF Next, Poll, PollSkips, PollSucceeds, PollFails, Report, ReportNothing,
           ReportSucceeds, ReportFails, Flush, FlushSends, FlushEnds, Reach,
           DeviceChanges, MetricsInterval
  <2>4. UNCHANGED vars => UNCHANGED retryVars
    BY DEF vars
  <2> HIDE DEF Longer
  <2>. QED
    BY <1>1, <2>1, <2>2, <2>3, <2>4
<1>3. LinkInv => RetryInv
  BY DEF LinkInv
<1>. QED
  BY <1>2, <1>3, LinkInvHolds, PTL DEF Spec, BacksOff
=============================================================================
