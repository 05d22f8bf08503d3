----------------------------- MODULE CloudLink -----------------------------
(***************************************************************************)
(* How the agent's poll and report loops (agent/src/device-manager/sync.ts) *)
(* drive the connection monitor and the flushes of the report queue.  An   *)
(* iteration of a loop is one step; it contacts the cloud or, in the report *)
(* loop, finds nothing to report and counts that as a success.             *)
(***************************************************************************)
EXTENDS ConnectionMonitor, RetryLoop

CONSTANTS
  MaxQueued,    \* bound: reports in the offline queue
  MaxFlushes    \* bound: flushes started by 'online' events still running

ASSUME LinkAssumption == MaxQueued \in Nat \ {0} /\ MaxFlushes \in Nat \ {0}

VARIABLES
  reachable,       \* the cloud answers
  changed,         \* the device's state differs from lastReport
  metricsDue,      \* metricsInterval has passed since lastMetricsTime
  reportedOnline,  \* is_online of lastReport
  queued,          \* reportQueue.size()
  ownFlush,        \* the report loop awaits its own flush
  eventFlushes,    \* flushes the onlineHandler started
  refused          \* history: contacts in a row the cloud did not answer

linkVars == <<reachable, changed, metricsDue, reportedOnline, queued,
              ownFlush, eventFlushes, refused>>
vars == <<monitorVars, retryVars, linkVars>>

TypeOK ==
  /\ MonitorTypeOK /\ RetryTypeOK
  /\ {reachable, changed, metricsDue, reportedOnline, ownFlush} \subseteq BOOLEAN
  /\ queued \in 0 .. MaxQueued
  /\ eventFlushes \in 0 .. MaxFlushes
  /\ refused \in [Operations -> 0 .. MaxFailures]

Init ==
  /\ MonitorInit /\ RetryInit
  /\ reachable = TRUE /\ changed = TRUE /\ metricsDue = TRUE
  /\ reportedOnline = TRUE
  /\ queued = 0 /\ ownFlush = FALSE /\ eventFlushes = 0
  /\ refused = [op \in Operations |-> 0]

\* Something differs from lastReport, or metrics are due.
ShouldReport == changed \/ metricsDue \/ reportedOnline # isOnline

\* Defect: the handler listens for every change of state.
StartEventFlushAlways ==
  eventFlushes' = IF emitted' # "none" \/ queued > 0 THEN eventFlushes + 1
                  ELSE eventFlushes

\* onlineHandler: the 'online' event starts a flush that nobody awaits.
StartEventFlush ==
  eventFlushes' = IF emitted' = "online" /\ queued > 0 THEN eventFlushes + 1
                  ELSE eventFlushes
-----------------------------------------------------------------------------
PollSucceeds ==
  /\ reachable
  /\ eventFlushes < MaxFlushes
  /\ Succeed /\ MarkSuccess("poll")
  /\ refused' = [refused EXCEPT !["poll"] = 0]
  /\ StartEventFlush
  /\ UNCHANGED <<reachable, changed, metricsDue, reportedOnline, queued, ownFlush>>

\* Defect: a failed poll is not reported to the monitor.
PollFailsUnmarked ==
  /\ ~reachable /\ Fail
  /\ refused' = [refused EXCEPT !["poll"] = OneMore(@)]
  /\ UNCHANGED <<monitorVars, reachable, changed, metricsDue, reportedOnline, queued,
                 ownFlush, eventFlushes>>

PollFails ==
  /\ ~reachable
  /\ Fail /\ MarkFailure("poll")
  /\ refused' = [refused EXCEPT !["poll"] = OneMore(@)]
  /\ UNCHANGED <<reachable, changed, metricsDue, reportedOnline, queued,
                 ownFlush, eventFlushes>>

\* The circuit is open: the loop only sets its timer.
PollSkips == Skip /\ UNCHANGED <<monitorVars, linkVars>>

\* The tail of a successful iteration: markSuccess('report'), whose 'online'
\* event may start a flush, and then the loop's own flush.
ReportDone ==
  /\ eventFlushes < MaxFlushes
  /\ MarkSuccess("report")
  /\ StartEventFlush
  /\ ownFlush' = (queued > 0)

\* Nothing to report: no request is made, yet the iteration is a success.
ReportNothing ==
  /\ ~ownFlush /\ ~ShouldReport
  /\ ReportDone
  /\ UNCHANGED <<retryVars, reachable, changed, metricsDue, reportedOnline, queued,
                 refused>>

ReportSucceeds ==
  /\ ~ownFlush /\ ShouldReport /\ reachable
  /\ changed' = FALSE /\ metricsDue' = FALSE
  /\ reportedOnline' = isOnline
  /\ refused' = [refused EXCEPT !["report"] = 0]
  /\ ReportDone
  /\ UNCHANGED <<retryVars, reachable, queued>>

\* The report is queued and the error rethrown to the loop.  The metrics are
\* spent: lastMetricsTime was set when they were collected.
ReportFails ==
  /\ ~ownFlush /\ ShouldReport /\ ~reachable
  /\ metricsDue' = FALSE
  /\ queued' = IF queued < MaxQueued THEN queued + 1 ELSE queued
  /\ refused' = [refused EXCEPT !["report"] = OneMore(@)]
  /\ MarkFailure("report")
  /\ UNCHANGED <<retryVars, reachable, changed, reportedOnline, ownFlush, eventFlushes>>
-----------------------------------------------------------------------------
FlushSends ==
  /\ ownFlush \/ eventFlushes > 0
  /\ reachable /\ queued > 0
  /\ queued' = queued - 1
  /\ UNCHANGED <<monitorVars, retryVars, reachable, changed, metricsDue, reportedOnline,
                 ownFlush, eventFlushes, refused>>

\* A flush ends when nothing is left or a send fails; the failure is logged
\* and the connection monitor does not hear of it.
FlushEnds ==
  /\ queued = 0 \/ ~reachable
  /\ \/ ownFlush /\ ownFlush' = FALSE /\ UNCHANGED eventFlushes
     \/ eventFlushes > 0 /\ eventFlushes' = eventFlushes - 1 /\ UNCHANGED ownFlush
  /\ UNCHANGED <<monitorVars, retryVars, reachable, changed, metricsDue, reportedOnline, queued, refused>>

\* The world: the network, the device and the metrics interval.
Reach ==
  /\ reachable' = ~reachable
  /\ UNCHANGED <<monitorVars, retryVars, changed, metricsDue, reportedOnline, queued,
                 ownFlush, eventFlushes, refused>>

DeviceChanges ==
  /\ changed' = TRUE
  /\ UNCHANGED <<monitorVars, retryVars, reachable, metricsDue, reportedOnline, queued,
                 ownFlush, eventFlushes, refused>>

MetricsInterval ==
  /\ metricsDue' = TRUE
  /\ UNCHANGED <<monitorVars, retryVars, reachable, changed, reportedOnline, queued,
                 ownFlush, eventFlushes, refused>>

Poll == PollSkips \/ PollSucceeds \/ PollFails
Report == ReportNothing \/ ReportSucceeds \/ ReportFails
Flush == FlushSends \/ FlushEnds

Next == Poll \/ Report \/ Flush \/ Reach \/ DeviceChanges \/ MetricsInterval

Spec == Init /\ [][Next]_vars

\* Both loops re-arm their timer at the end of every iteration, and every
\* awaited flush ends; the metrics interval passes again and again.
Fairness ==
  WF_vars(Poll) /\ WF_vars(Report) /\ WF_vars(Flush) /\ WF_vars(MetricsInterval)

FairSpec == Spec /\ Fairness
-----------------------------------------------------------------------------
(* Three polls in a row that the cloud does not answer make the device     *)
(* offline.                                                                *)
PollOutageSeen == refused["poll"] >= FAILURE_THRESHOLD => ~isOnline

(* A lasting outage is noticed, and stays noticed, whatever the report     *)
(* loop counts as a success.                                               *)
NoticesOutage == <>[]~reachable => <>[]~isOnline

(* When the cloud answers for good the device is online for good, although *)
(* that takes a success of both loops and reports still fail on the way,   *)
(* and everything queued during the outage is flushed.                     *)
ComesBack == <>[]reachable => <>[](isOnline /\ queued = 0)
=============================================================================
