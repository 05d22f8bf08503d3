------------------------- MODULE ConnectionMonitor -------------------------
(***************************************************************************)
(* The agent's view of the cloud connection:                               *)
(* agent/src/network/connection-monitor.ts.  Polls and reports count their *)
(* failures separately; the connection is lost when either count reaches   *)
(* FAILURE_THRESHOLD and restored when a success leaves both at zero.      *)
(***************************************************************************)
EXTENDS Naturals

CONSTANTS
  FAILURE_THRESHOLD,
  DEGRADED_THRESHOLD,
  MaxFailures          \* bound: the counts stop here

ASSUME MonitorAssumption ==
  /\ DEGRADED_THRESHOLD \in Nat \ {0}
  /\ FAILURE_THRESHOLD \in Nat /\ DEGRADED_THRESHOLD < FAILURE_THRESHOLD
  /\ MaxFailures \in Nat /\ FAILURE_THRESHOLD <= MaxFailures

Operations == {"poll", "report"}
Events == {"none", "online", "degraded", "offline"}

VARIABLES
  isOnline,
  failures,   \* consecutivePollFailures and consecutiveReportFailures
  emitted     \* the event the last operation emitted

monitorVars == <<isOnline, failures, emitted>>

MonitorTypeOK ==
  /\ isOnline \in BOOLEAN
  /\ failures \in [Operations -> 0 .. MaxFailures]
  /\ emitted \in Events

MonitorInit ==
  /\ isOnline = TRUE
  /\ failures = [op \in Operations |-> 0]
  /\ emitted = "none"

OneMore(n) == IF n < MaxFailures THEN n + 1 ELSE n

\* Defect: one healthy operation is enough to be online again.
MarkSuccessEither(op) ==
  /\ failures' = [failures EXCEPT ![op] = 0]
  /\ isOnline' = TRUE
  /\ emitted' = IF isOnline THEN "none" ELSE "online"

\* Defect: being online is looked at before the count is cleared.
MarkSuccessLate(op) ==
  LET restored == ~isOnline /\ \A o \in Operations : failures[o] = 0
  IN /\ failures' = [failures EXCEPT ![op] = IF isOnline \/ restored THEN 0 ELSE @]
     /\ isOnline' = (isOnline \/ restored)
     /\ emitted' = IF restored THEN "online" ELSE "none"

MarkSuccess(op) ==
  LET restored == ~isOnline /\ \A o \in Operations : failures'[o] = 0
  IN /\ failures' = [failures EXCEPT ![op] = 0]
     /\ isOnline' = (isOnline \/ restored)
     /\ emitted' = IF restored THEN "online" ELSE "none"

\* Defect: only the other operation's count is looked at.
MarkFailureOther(op) ==
  LET most == failures[CHOOSE o \in Operations : o # op]
      lost == isOnline /\ most >= FAILURE_THRESHOLD
  IN /\ failures' = [failures EXCEPT ![op] = OneMore(@)]
     /\ isOnline' = (isOnline /\ ~lost)
     /\ emitted' = IF lost THEN "offline" ELSE "none"

MarkFailure(op) ==
  LET reached(n) == \E o \in Operations : failures'[o] >= n
      lost == isOnline /\ reached(FAILURE_THRESHOLD)
      worse == isOnline /\ ~lost /\ reached(DEGRADED_THRESHOLD)
  IN /\ failures' = [failures EXCEPT ![op] = OneMore(@)]
     /\ isOnline' = (isOnline /\ ~lost)
     /\ emitted' = IF lost THEN "offline" ELSE IF worse THEN "degraded" ELSE "none"

MonitorNext == \E op \in Operations : MarkSuccess(op) \/ MarkFailure(op)

MonitorSpec == MonitorInit /\ [][MonitorNext]_monitorVars
-----------------------------------------------------------------------------
(* The state never contradicts the counts: online means that no operation  *)
(* has reached the threshold, offline that some operation still fails, so  *)
(* that there is a success to wait for.                                    *)
MonitorConsistent ==
  /\ isOnline => \A op \in Operations : failures[op] < FAILURE_THRESHOLD
  /\ ~isOnline => \E op \in Operations : failures[op] > 0
=============================================================================
