----------------------------- MODULE Heartbeat -----------------------------
(***************************************************************************)
(* The API process and its HeartbeatMonitor.  Time passes in ticks of one  *)
(* minute; a check that is due runs before the next tick.                  *)
(***************************************************************************)
EXTENDS DeviceRow

CONSTANTS
  checkInterval,      \* HEARTBEAT_CHECK_INTERVAL
  offlineThreshold,   \* HEARTBEAT_OFFLINE_THRESHOLD
  MaxMissed           \* bound on the checks in a row that fail

ASSUME HeartbeatAssumption ==
  /\ checkInterval \in Nat \ {0} /\ offlineThreshold \in Nat /\ MaxMissed \in Nat
  /\ Horizon > offlineThreshold + checkInterval * (1 + MaxMissed)
  /\ Horizon > 2 * checkInterval

VARIABLES
  api,        \* the API process
  lastCheck,  \* age of heartbeat_last_check in system_config
  seen,       \* the date of the row is not older than the last check
  due,        \* time until the interval timer fires
  missed      \* checks that have failed since the last one that did not

heartbeatVars == <<api, lastCheck, seen, due, missed>>

HeartbeatTypeOK ==
  /\ api \in {"down", "starting", "running"}
  /\ lastCheck \in Ages
  /\ seen \in BOOLEAN
  /\ due \in 0 .. checkInterval
  /\ missed \in 0 .. MaxMissed

HeartbeatInit ==
  /\ api = "down"
  /\ lastCheck = Never
  /\ seen = FALSE
  /\ due = 0
  /\ missed = 0

saveLastCheckTime == lastCheck' = 0 /\ seen' = FALSE
-----------------------------------------------------------------------------
\* start(): the last check time is read, or cannot be; after a downtime of
\* more than two intervals who was not dated since is marked offline.
handleApiRestart ==
  /\ api = "down" /\ api' = "starting"
  /\ \E loaded \in {lastCheck, Never} :
       markOffline(/\ loaded # Never /\ loaded > 2 * checkInterval
                   /\ silent # Never /\ ~seen)
  /\ UNCHANGED <<silent, shown, heard, lastCheck, seen, due, missed>>

\* Defect: who has been silent for exactly the threshold is marked, too.
CheckDevicesEarly ==
  /\ markOffline(silent # Never /\ silent >= offlineThreshold)
  /\ saveLastCheckTime
  /\ missed' = 0
  /\ UNCHANGED <<silent, shown, heard>>

checkDevices ==
  /\ markOffline(silent # Never /\ silent > offlineThreshold)
  /\ saveLastCheckTime
  /\ missed' = 0
  /\ UNCHANGED <<silent, shown, heard>>

\* The UPDATE fails, or what is logged or saved after it.
CheckFails ==
  /\ missed < MaxMissed /\ missed' = missed + 1
  /\ \/ UNCHANGED row
     \/ markOffline(silent # Never /\ silent > offlineThreshold)
  /\ UNCHANGED <<silent, shown, heard, lastCheck, seen>>

\* Defect: the monitor waits an interval before its first check.
FirstCheckSkipped ==
  /\ api = "starting" /\ api' = "running"
  /\ due' = checkInterval
  /\ UNCHANGED <<row, silent, shown, heard, lastCheck, seen, missed>>

FirstCheck ==
  /\ api = "starting" /\ api' = "running"
  /\ checkDevices \/ CheckFails
  /\ due' = checkInterval

\* Defect: a check that fails is the last one.
IntervalFiresOnce ==
  /\ api = "running" /\ due = 0 /\ due' = checkInterval
  /\ IF missed > 0 THEN UNCHANGED <<rowVars, lastCheck, seen, missed>> ELSE checkDevices \/ CheckFails
  /\ UNCHANGED api

IntervalFires ==
  /\ api = "running" /\ due = 0 /\ due' = checkInterval
  /\ checkDevices \/ CheckFails
  /\ UNCHANGED api

\* POST /admin/heartbeat/check
checkNow ==
  /\ api = "running"
  /\ checkDevices \/ CheckFails
  /\ UNCHANGED <<api, due>>

\* The API goes down, and comes to save the time only when it is shut down.
Down ==
  /\ api # "down" /\ api' = "down"
  /\ due' = 0 /\ missed' = 0
  /\ heard' = FALSE
  /\ UNCHANGED <<row, silent, shown>>

stop == api = "running" /\ Down /\ saveLastCheckTime

ApiCrash == Down /\ UNCHANGED <<lastCheck, seen>>

Tick ==
  /\ api = "running" => due > 0
  /\ due' = IF api = "running" THEN due - 1 ELSE due
  /\ silent' = Older(silent)
  /\ shown' = Older(shown)
  /\ lastCheck' = Older(lastCheck)
  /\ UNCHANGED <<row, heard, api, seen, missed>>
=============================================================================
