---------------------------- MODULE StateReport ----------------------------
(***************************************************************************)
(* How the cloud learns the device's state: reportCurrentState() and       *)
(* sendReport() of agent/src/device-manager/sync.ts, the offline queue, the *)
(* two transports, and DeviceCurrentStateModel.update of the API.          *)
(*                                                                         *)
(* The state of the device is a number that grows with every change.  Its  *)
(* shape is what appsChanged() compares: the apps without the runtime      *)
(* fields containerId and status.                                          *)
(***************************************************************************)
EXTENDS Naturals, Sequences

CONSTANTS
  MaxChanges,   \* bound: changes of the apps
  MaxConfigs,   \* bound: configs the device has, one after the other
  MaxQueue,     \* maxSize of the report queue
  MaxInFlight,  \* bound: messages the broker holds, requests given up on
  Outages,      \* may a send fail?
  Fallbacks     \* may a send leave a copy behind that arrives later?

ASSUME ReportAssumption ==
  /\ MaxChanges \in Nat /\ MaxConfigs \in Nat \ {0} /\ MaxQueue \in Nat \ {0} /\ MaxInFlight \in Nat
  /\ {Outages, Fallbacks} \subseteq BOOLEAN

Value == 0 .. MaxChanges
Config == 0 .. MaxConfigs       \* 0: the empty config
Absent == MaxConfigs + 1        \* the field is not in the report

Report == [apps : Value, config : Config \cup {Absent}]

VARIABLES
  device,      \* [apps, shape, config] as getCurrentState() returns them
  metricsDue,  \* metricsInterval has passed since lastMetricsTime
  lastSent,    \* lastReport, lastConfigHash and isFirstReport
  job,         \* the running reportCurrentState(): [busy, shape, config, report]
  queue,       \* the offline queue
  flushing,    \* a flush of the queue runs
  broker,      \* messages the MQTT broker has acknowledged or holds
  late,        \* HTTP requests the agent gave up on, still being processed
  cloud        \* the row of device_current_state: [known, apps, config]

vars == <<device, metricsDue, lastSent, job, queue, flushing, broker, late, cloud>>

NoReport == [apps |-> 0, config |-> Absent]
IdleJob == [busy |-> FALSE, shape |-> 0, config |-> 0, report |-> NoReport]

TypeOK ==
  /\ device \in [apps : Value, shape : Value, config : Config]
  /\ {metricsDue, flushing} \subseteq BOOLEAN
  /\ lastSent \in [first : BOOLEAN, shape : Value, config : Config]
  /\ job \in [busy : BOOLEAN, shape : Value, config : Config, report : Report]
  /\ queue \in Seq(Report) /\ Len(queue) <= MaxQueue
  /\ broker \in Seq(Report) /\ Len(broker) <= MaxInFlight
  /\ late \in Seq(Report) /\ Len(late) <= MaxInFlight
  /\ cloud \in [known : BOOLEAN, apps : Value, config : Config]

Init ==
  /\ device = [apps |-> 0, shape |-> 0, config |-> 1]
  /\ metricsDue = TRUE
  /\ lastSent = [first |-> TRUE, shape |-> 0, config |-> 0]
  /\ job = IdleJob
  /\ queue = <<>> /\ flushing = FALSE
  /\ broker = <<>> /\ late = <<>>
  /\ cloud = [known |-> FALSE, apps |-> 0, config |-> 0]
-----------------------------------------------------------------------------
\* The device changes; a change of runtime fields only keeps the shape.
AppsChange ==
  /\ device.apps < MaxChanges
  /\ \E shape \in {device.shape, device.shape + 1} :
       device' = [device EXCEPT !.apps = @ + 1, !.shape = shape]
  /\ UNCHANGED <<metricsDue, lastSent, job, queue, flushing, broker, late, cloud>>

ConfigChange ==
  /\ device.config < MaxConfigs
  /\ device' = [device EXCEPT !.config = @ + 1]
  /\ UNCHANGED <<metricsDue, lastSent, job, queue, flushing, broker, late, cloud>>

MetricsInterval ==
  /\ ~metricsDue
  /\ metricsDue' = TRUE
  /\ UNCHANGED <<device, lastSent, job, queue, flushing, broker, late, cloud>>

\* Defect: metrics alone do not justify a report.
ShouldReportChangesOnly ==
  lastSent.first \/ device.shape # lastSent.shape \/ device.config # lastSent.config

ConfigChanged == lastSent.first \/ device.config # lastSent.config

ShouldReport == ConfigChanged \/ device.shape # lastSent.shape \/ metricsDue

(***************************************************************************)
(* reportCurrentState() up to sendReport(): the state is read, the metrics *)
(* are collected (and lastMetricsTime set), the config goes along only if  *)
(* it changed.                                                             *)
(***************************************************************************)
BuildReport ==
  /\ ~job.busy /\ ShouldReport
  /\ job' = [busy |-> TRUE, shape |-> device.shape, config |-> device.config,
             report |-> [apps |-> device.apps,
                         config |-> IF ConfigChanged THEN device.config ELSE Absent]]
  /\ metricsDue' = FALSE
  /\ UNCHANGED <<device, lastSent, queue, flushing, broker, late, cloud>>

\* DeviceCurrentStateModel.update(uuid, apps, config || {}, ...).
Stored(m) == [known |-> TRUE, apps |-> m.apps,
              config |-> IF m.config = Absent THEN 0 ELSE m.config]

MayHold(messages, m) ==
  {messages} \cup IF Fallbacks /\ Len(messages) < MaxInFlight
                  THEN {Append(messages, m)} ELSE {}

\* sendReport() resolves: the broker took the message, or the MQTT attempt
\* failed (perhaps after the broker got it) and the HTTP request went through.
Sends(m) ==
  \/ /\ Len(broker) < MaxInFlight
     /\ broker' = Append(broker, m)
     /\ UNCHANGED <<late, cloud>>
  \/ /\ cloud' = Stored(m)
     /\ broker' \in MayHold(broker, m)
     /\ UNCHANGED late

\* sendReport() rejects: neither transport answered, which does not mean that
\* neither delivers.
Refuses(m) ==
  /\ Outages
  /\ broker' \in MayHold(broker, m)
  /\ late' \in MayHold(late, m)
  /\ UNCHANGED cloud

ReportSent ==
  /\ job.busy
  /\ Sends(job.report)
  /\ lastSent' = [first |-> FALSE, shape |-> job.shape, config |-> job.config]
  /\ job' = IdleJob
  /\ UNCHANGED <<device, metricsDue, queue, flushing>>

\* Defect: the hashes and lastReport are updated before the send and the
\* report is not queued.
ReportFailsForgotten ==
  /\ job.busy
  /\ Refuses(job.report)
  /\ lastSent' = [first |-> FALSE, shape |-> job.shape, config |-> job.config]
  /\ job' = IdleJob
  /\ UNCHANGED <<device, metricsDue, flushing, queue>>

\* Defect: the queue is not limited.
ReportFailsUnlimited ==
  /\ job.busy
  /\ Refuses(job.report)
  /\ queue' = Append(queue, job.report)
  /\ job' = IdleJob
  /\ UNCHANGED <<device, metricsDue, lastSent, flushing>>

\* The report is queued; a full queue drops its oldest (while nothing flushes:
\* see OfflineQueue for that).
ReportFails ==
  /\ job.busy
  /\ Refuses(job.report)
  /\ Len(queue) = MaxQueue => ~flushing
  /\ queue' = Append(IF Len(queue) = MaxQueue THEN Tail(queue) ELSE queue,
                     job.report)
  /\ job' = IdleJob
  /\ UNCHANGED <<device, metricsDue, lastSent, flushing>>
-----------------------------------------------------------------------------
\* Started by the 'online' event or after a successful iteration.
FlushStart ==
  /\ ~flushing /\ queue # <<>>
  /\ flushing' = TRUE
  /\ UNCHANGED <<device, metricsDue, lastSent, job, queue, broker, late, cloud>>

FlushSent ==
  /\ flushing
  /\ Sends(Head(queue))
  /\ queue' = Tail(queue)
  /\ flushing' = (Tail(queue) # <<>>)
  /\ UNCHANGED <<device, metricsDue, lastSent, job>>

FlushFails ==
  /\ flushing
  /\ Refuses(Head(queue))
  /\ flushing' = FALSE
  /\ UNCHANGED <<device, metricsDue, lastSent, job, queue>>

\* The API handles a message or a request whose sender has moved on.
BrokerDelivers ==
  /\ broker # <<>>
  /\ cloud' = Stored(Head(broker)) /\ broker' = Tail(broker)
  /\ UNCHANGED <<device, metricsDue, lastSent, job, queue, flushing, late>>

LateArrives ==
  /\ late # <<>>
  /\ cloud' = Stored(Head(late)) /\ late' = Tail(late)
  /\ UNCHANGED <<device, metricsDue, lastSent, job, queue, flushing, broker>>

Next ==
  \/ AppsChange \/ ConfigChange \/ MetricsInterval
  \/ BuildReport \/ ReportSent \/ ReportFails
  \/ FlushStart \/ FlushSent \/ FlushFails
  \/ BrokerDelivers \/ LateArrives

Spec == Init /\ [][Next]_vars

\* The report loop and the flush go on, the API handles what it has, the
\* metrics interval passes, and sends do not fail for ever.
Fairness ==
  /\ WF_vars(MetricsInterval) /\ WF_vars(BuildReport)
  /\ WF_vars(FlushStart)
  /\ WF_vars(BrokerDelivers) /\ WF_vars(LateArrives)
  /\ SF_vars(ReportSent) /\ SF_vars(FlushSent)

FairSpec == Spec /\ Fairness
-----------------------------------------------------------------------------
(* Once the device stops changing, the cloud's apps become and stay those  *)
(* of the device: stale reports flushed after a newer one, copies that     *)
(* arrive late and changes appsChanged() does not see are all made good by *)
(* a later report.                                                         *)
AppsConverge == <>[](cloud.apps = device.apps)

(* A config not yet reported is stored by the cloud, unless it changes     *)
(* again first, whatever reports fail, are queued or overtaken on the way. *)
ConfigArrives ==
  \A c \in Config \ {0} :
    device.config = c /\ lastSent.config # c ~> cloud.config = c \/ device.config # c

(* The cloud keeps the config it was told until it is told another one.    *)
ConfigKept == [][cloud'.config # 0 \/ cloud.config = 0]_vars
=============================================================================
