------------------------------ MODULE JobTable ------------------------------
(***************************************************************************)
(* Jobs in the cloud: the rows of device_job_status, the routes of         *)
(* api/src/routes/device-jobs.ts that change them, the notifications of    *)
(* mqtt-jobs-notifier.ts and the status updates that the subscriber        *)
(* mqtt-jobs-subscriber.ts applies.  What is on its way to the API or to a *)
(* device is part of the state; a message or a request that is lost is one *)
(* that stays on its way.  The status of job_executions is left out: the   *)
(* cancel and delete routes check it, here they may come at any time.      *)
(***************************************************************************)
EXTENDS MqttManager

CONSTANTS
  Jobs,     \* numbered in the order in which they are queued
  NoJob

ASSUME JobAssumption == Jobs \subseteq Nat /\ NoJob \notin Jobs

Status == {"none", "QUEUED", "IN_PROGRESS", "SUCCEEDED", "FAILED", "CANCELED"}
Reported == {"IN_PROGRESS", "SUCCEEDED", "FAILED"}

VARIABLES
  posted,      \* where POST /jobs/execute is with each job
  rows,        \* status in device_job_status, "none" without a row
  asking,      \* the device's GET .../jobs/next and the job it selected
  marking,     \* jobs that a request given up by its device is yet to mark
  patches,     \* PATCH .../status requests on their way
  updates,     \* MQTT status updates on their way to the subscriber
  notices,     \* copies of each notify-next on their way to the device
  copies       \* history: how many were ever put on the way

tableVars == <<posted, rows, asking, marking, patches, updates, notices, copies>>

Report == [dev : Devices, job : Jobs, status : Reported]

NoNotice == [j \in Jobs |-> 0]
NotAsking == [pc |-> "none", job |-> NoJob]

TableTypeOK ==
  /\ posted \in [Jobs -> {"no", "inserted", "notified"}]
  /\ rows \in [Jobs -> [Devices -> Status]]
  /\ asking \in [Devices -> [pc : {"none", "select", "update", "answer"},
                             job : Jobs \cup {NoJob}]]
  /\ marking \subseteq Jobs \X Devices
  /\ patches \subseteq Report
  /\ updates \subseteq Report
  /\ notices \in [Devices -> [Jobs -> Nat]]
  /\ copies \in [Devices -> [Jobs -> Nat]]

TableInit ==
  /\ posted = [j \in Jobs |-> "no"]
  /\ rows = [j \in Jobs |-> [d \in Devices |-> "none"]]
  /\ asking = [d \in Devices |-> NotAsking]
  /\ marking = {} /\ patches = {} /\ updates = {}
  /\ notices = [d \in Devices |-> NoNotice]
  /\ copies = [d \in Devices |-> NoNotice]

\* UPDATE device_job_status of one row, which does nothing without the row
SetRow(j, d, status) == rows' = [rows EXCEPT ![j][d] = IF @ = "none" THEN @ ELSE status]
-----------------------------------------------------------------------------
\* POST /jobs/execute for all devices: the job and its rows, then notifications.
ExecuteJob(j) ==
  /\ posted[j] = "no" /\ \A k \in Jobs : k < j => posted[k] # "no"
  /\ posted' = [posted EXCEPT ![j] = "inserted"]
  /\ rows' = [rows EXCEPT ![j] = [d \in Devices |-> "QUEUED"]]
  /\ UNCHANGED <<asking, marking, patches, updates, notices, copies>>

\* One more copy is on its way to each of these devices.
Sent(j, reached) ==
  LET More(held) == [d \in Devices |-> IF d \in reached THEN [held[d] EXCEPT ![j] = @ + 1]
                                                         ELSE held[d]]
  IN notices' = More(notices) /\ copies' = More(copies)

\* notifyNextJob(): not retained, so a device whose topic is not granted gets
\* nothing, nor does any device while the notifier is not connected.
NotifyDevices(j) ==
  /\ posted[j] = "inserted"
  /\ posted' = [posted EXCEPT ![j] = "notified"]
  /\ \E reached \in SUBSET {d \in Devices : granted[d]} : Sent(j, reached)
  /\ UNCHANGED <<rows, asking, marking, patches, updates>>

\* Published with QoS 1: a notifier that missed the acknowledgement publishes
\* the message to a device again when it has reconnected.
NotifyAgain(j) ==
  /\ posted[j] = "notified"
  /\ \E d \in Devices : granted[d] /\ Sent(j, {d})
  /\ UNCHANGED <<posted, rows, asking, marking, patches, updates>>

CancelJob(j) ==
  /\ rows' = [rows EXCEPT ![j] = [d \in Devices |-> IF @[d] \in {"QUEUED", "IN_PROGRESS"}
                                                    THEN "CANCELED" ELSE @[d]]]
  /\ UNCHANGED <<posted, asking, marking, patches, updates, notices, copies>>

DeleteJob(j) ==
  /\ rows' = [rows EXCEPT ![j] = [d \in Devices |-> "none"]]
  /\ UNCHANGED <<posted, asking, marking, patches, updates, notices, copies>>
-----------------------------------------------------------------------------
(***************************************************************************)
(* GET /devices/:uuid/jobs/next: the oldest queued row is read and then    *)
(* marked, by its id and whatever its status has become.  That a job may   *)
(* be scheduled for later is left out: no property depends on it.          *)
(***************************************************************************)
QueuedFor(d) == {j \in Jobs : rows[j][d] = "QUEUED"}

Oldest(js) == CHOOSE j \in js : \A k \in js : j <= k

NextSelect(d) ==
  /\ asking[d].pc = "select"
  /\ asking' = [asking EXCEPT ![d] =
       IF QueuedFor(d) = {} THEN [pc |-> "answer", job |-> NoJob]
       ELSE [pc |-> "update", job |-> Oldest(QueuedFor(d))]]
  /\ UNCHANGED <<posted, rows, marking, patches, updates, notices, copies>>

\* Defect: the row handed out is not marked.
NextUpdateUnmarked(d) ==
  /\ asking[d].pc = "update"
  /\ asking' = [asking EXCEPT ![d].pc = "answer"]
  /\ UNCHANGED <<posted, rows, marking, patches, updates, notices, copies>>

NextUpdate(d) ==
  /\ asking[d].pc = "update"
  /\ SetRow(asking[d].job, d, "IN_PROGRESS")
  /\ asking' = [asking EXCEPT ![d].pc = "answer"]
  /\ UNCHANGED <<posted, marking, patches, updates, notices, copies>>

\* The device no longer waits; the API goes on with what it selected.
GiveUpAsking(d) ==
  /\ asking' = [asking EXCEPT ![d] = NotAsking]
  /\ marking' = marking \cup (IF asking[d].pc = "update" THEN {<<asking[d].job, d>>} ELSE {})

MarkLate(m) ==
  /\ SetRow(m[1], m[2], "IN_PROGRESS")
  /\ marking' = marking \ {m}
  /\ UNCHANGED <<posted, asking, patches, updates, notices, copies>>
-----------------------------------------------------------------------------
\* PATCH .../status sets the row.
PatchStatus(p) ==
  /\ SetRow(p.job, p.dev, p.status)
  /\ patches' = patches \ {p}
  /\ UNCHANGED <<posted, asking, marking, updates, notices, copies>>

\* handleJobUpdate() of the subscriber sets the row.  Updates of a device
\* overtake each other between its two queries.
ApplyUpdate(u) ==
  /\ SetRow(u.job, u.dev, u.status)
  /\ updates' = updates \ {u}
  /\ UNCHANGED <<posted, asking, marking, patches, notices, copies>>

\* The notifier has reconnected and listens once more: the update comes twice.
ApplyUpdateTwice(u) ==
  /\ SetRow(u.job, u.dev, u.status)
  /\ UNCHANGED <<posted, asking, marking, patches, updates, notices, copies>>
=============================================================================
