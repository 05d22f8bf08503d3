# Iotistic: models and proofs of the device-state protocol

Iotistic manages fleets of IoT devices.  A device runs the *agent*
(`agent/src`), the cloud runs the *API* (`api/src`) over PostgreSQL, Redis and
an MQTT broker.  The core of the product is a loop: somebody edits the target
state of a device in the cloud; the agent polls it, makes the containers and
the configuration follow, and reports back what it runs.  The modules here
model that loop, the parts that keep it alive when the network, the database,
the Docker engine or the process fails, how a device comes to have a key and is
seen as online, the jobs sent to it beside the loop, and the readings it
publishes.  TLC checks small instances,
TLAPS proves the central safety properties for every instance.

Paths below are relative to `src/`.

## 1. Inventory

### The device

| Component | State | Operations | Hard behaviour | What makes it correct |
|---|---|---|---|---|
| Offline report queue, `agent/src/logging/offline-queue.ts` | array `inMemoryQueue`, SQLite rows, column `attempts` | `enqueue`, `flush`, `clear`, `init` | the two copies change one await apart; calls interleave; crash between any two awaits; rejecting database calls | an accepted report is neither lost nor reordered on its first delivery; the queue drains |
| Connection monitor, `agent/src/network/connection-monitor.ts` | `isOnline`, two failure counts | `markSuccess`, `markFailure`, events | two loops feed it in any order | an outage is noticed, stays noticed, and ends |
| Retry policy and circuit breaker, `agent/src/utils/retry-policy.ts` | failure count, open-until, error count | `isOpen`, `recordSuccess`, `recordFailure`, backoff with jitter | two clocks (cooldown, backoff) decide one timer | neither hammering nor silence |
| Cloud sync, `agent/src/device-manager/sync.ts` | target, ETag, version, last report, hashes, loop timers | poll loop, report loop, `flushOfflineQueue`, `sendReport` | MQTT with HTTP fallback duplicates and reorders; stale reports flushed after newer ones | the cloud ends with the device's state, the device with the cloud's target |
| State reconciler, `agent/src/device-manager/reconciler.ts` | target, `lastSavedStateHash`, snapshot row | `init`, `setTarget`, `reconcile` | it and the container manager write the same snapshot row | a restart goes on with the apps in force |
| Container manager, `agent/src/compose/container-manager.ts` | target, `currentState`, plan in progress, retry state, probes | `setTarget`, `applyTargetState`, `executeStep`, rebuild from Docker, liveness restart, `init` | three activities share `currentState` over awaits; a step fails, the next ones run; restart in mid-plan | steps hit the containers they mean; healthy ones are spared; the device heals |
| Docker wrapper, `agent/src/compose/docker-manager.ts` | (the engine's) | pull, start, stop, pause, unpause, remove, list | every call may fail; a start fails at three different points | (environment) |
| Config manager, `agent/src/device-manager/config.ts` | current and target config, sensors table | `reconcile`, `registerDevice`, `unregisterDevice` | table, record and snapshot written one after the other, failed steps dropped | sensors follow the target (not modelled, section 7) |
| Jobs, `agent/src/features/jobs` | job in progress, last job, polling timer, subscription | `onStart`, poll, notification, connection monitor, `executeJob`, `updateJobStatus`, `onStop` | a job comes over two ways, its status leaves over two ways, the way changes meanwhile | no false success, no job done again and again, polling takes over |
| MQTT manager, `agent/src/mqtt/manager.ts` | client, connection promise, subscriptions | `connect`, `subscribe`, `publishNoQueue`, `disconnect` | timeouts against late answers, reconnects with a clean session | (environment of the jobs) |
| Provisioning, `agent/src/device-manager/manager.ts` | device record on disk and in memory | `initialize`, `provision`, `reset`, `factoryReset` | requests lost, late and overlapping; crash at any point of the two phases | the device's key is the one the cloud compares with |
| Modbus adapter, `agent/src/features/endpoints/modbus` | a client, poll timers and retries per device | `start`, poll, retry, reconnect | timers nothing keeps, a connection that fails between any two of them | one chain of polls per device, and one for every device |
| Sensor publishing, `agent/src/features/endpoints/common`, `agent/src/features/sensor-publish` | bytes not parsed yet, message batch, buffer timer | `onData`, `publishBatch`, socket connect and close | messages arrive and publishes overlap while one is awaited | what was read is published once the broker stays |
| Logging, OPC-UA, discovery, remote access, anomaly detection, simulation | | | | protocol drivers and numerics: not modelled |

### The cloud

| Component | State | Operations | Hard behaviour | What makes it correct |
|---|---|---|---|---|
| Target-state row, `api/src/db/models.ts`, `api/src/routes/devices.ts`, `device-state.ts`, migration 029 | row with apps, config, version, `needs_deployment`; deployed copy | edit an app, PUT, deploy, cancel, clear, sensor edits | read-modify-write over awaits without a lock; drafts | the version grows, a device gets what was deployed |
| State endpoint, `api/src/routes/device-state.ts` | (none) | `GET /device/:uuid/state` with ETag, `PATCH` reports | 304 from a tag kept on the other side | a 304 never hides a change |
| Current-state handler, `api/src/services/device-state-handler.ts` | row of `device_current_state` | `update` | reports come late and twice, and carry only changes | the row is the device's latest state |
| Sensor sync, `api/src/services/device-sensor-sync.ts` | table `device_sensors` | config to table, table to config | two copies of one list | (only the row's side is modelled) |
| Registration and key exchange, `api/src/services/provisioning.service.ts`, `routes/provisioning.ts` | the row of `devices` | `registerDevice`, key exchange, `deviceAuth` | reads the row, hashes and makes credentials, writes the row; an API that dies meanwhile | see provisioning above |
| Heartbeat monitor, `api/src/services/heartbeat-monitor.ts` | timer, `heartbeat_last_check` | `start`, check, manual check, `stop` | downtime of the API; checks that fail; reports between two steps of the start | online and offline are shown as and when they should |
| Jobs, `api/src/routes/device-jobs.ts`, `mqtt-jobs-*.ts` | rows of `device_job_status` | post, notify, hand out, report, cancel, delete | select and mark in two statements; reports of several runs in any order | the row says what happened |
| Event store, API-key rotation | tables | | | an append-only log; a rotation nothing completes (section 7) |
| Dashboard, billing, housekeeper, postoffice, VPN server, charts, simulators | | | | not part of the device-state protocol |

### How they interact

```
 edits --> TargetRow --GET/ETag--> CloudSync.poll --> reconciler --> container manager --> Docker
                                       |   \              \-> config manager
                                       |    markSuccess / markFailure
                                       v            v
   device_current_state <--MQTT/HTTP-- report   ConnectionMonitor --'online'--> flush
                                       \--on failure--> OfflineQueue <--------------/

 POST job --> JobTable --notification (MQTT) or jobs/next (HTTP)--> JobsFeature --> JobEngine
                 ^----------- status by MQTT, else by HTTP -------------'
 Modbus devices --poll--> adapter --socket--> Sensor --batch, MQTT--> broker
 DeviceManager --register, exchange keys--> devices row <-- every request; heartbeat checks
```

Calls inside the agent are awaited calls of one Node.js process: between two
awaits a handler is atomic, at every await anything else may run.  That is the
grain of the modules.  Agent and API share nothing but messages; the API's
operations read a row, await, and write it whole.

## 2. Modules

| Module | Models | Built on |
|---|---|---|
| `OfflineQueue` | `offline-queue.ts`; every awaited database call is a step | |
| `ReportBuffer` | what a report queue promises: the abstract specification `OfflineQueue` implements | |
| `OfflineQueueProofs` | theorems about the queue and the buffer it implements | `OfflineQueue`, TLAPS |
| `ConnectionMonitor` | `markSuccess`, `markFailure`, the emitted events | |
| `RetryLoop` | backoff and circuit breaker, with time in ms | |
| `CloudLink` | both loops with monitor, retry and flushes | `ConnectionMonitor`, `RetryLoop` |
| `CloudLinkProofs` | theorems about the three | `CloudLink`, TLAPS |
| `StateReport` | what a report carries, both transports, the row the API stores | |
| `StateReportProofs` | theorem about it | `StateReport`, TLAPS |
| `TargetRow` | the cloud's target-state row and all its writers | |
| `TargetSync` | polling, ETag, and the saving of the target, with crashes | `TargetRow` |
| `TargetSyncProofs` | theorems about it | `TargetSync`, TLAPS |
| `DockerEngine` | the engine as `docker-manager.ts` uses it | |
| `ContainerManager` | planning, steps, rebuild, liveness restarts | `DockerEngine` |
| `MCContainers` | the instance of it that TLC checks | `ContainerManager` |
| `ContainerManagerProofs` | theorems about the manager | `ContainerManager`, TLAPS |
| `MqttManager` | the agent's connection and its one subscription | |
| `JobTable` | the job's row in the cloud and all its writers | |
| `JobsFeature` | the agent's jobs feature with the job engine | `MqttManager`, `JobTable` |
| `Jobs` | the whole path of a job | `JobsFeature` |
| `JobsProofs` | theorems about it | `Jobs`, TLAPS |
| `DeviceRow` | a device's row in the cloud and `deviceAuth` | |
| `Provisioning` | the agent's device record, registration, key exchange | `DeviceRow` |
| `Heartbeat` | the heartbeat monitor, with time in minutes | `DeviceRow` |
| `DeviceRegistry` | a device, its reports, operators and monitor over one row | `Provisioning`, `Heartbeat` |
| `DeviceRegistryProofs` | theorems about it | `DeviceRegistry`, TLAPS |
| `ModbusPoller` | the Modbus adapter: connections, polls, retries | |
| `SensorPipe` | socket server, `Sensor`, its batch and publishes | |
| `Telemetry` | the way of a reading from the device to the broker | `ModbusPoller`, `SensorPipe` |
| `TelemetryProofs` | theorems about it | `Telemetry`, TLAPS |

### OfflineQueue

Reports are numbered in the order they are handed to `enqueue()`.  The array is
only pushed at its end and shifted at its front, and rows come back in creation
order, so `memory` and `disk` are sets and the front is the least number.
`enqueue` is Enqueue (push and evict) followed by EnqueueSelect, EnqueueDelete
(`removeOldestFromDisk`) and EnqueueInsert.  A flush is a copy `todo` and a
program counter: Deliver (the cloud has the report), Acknowledge (the promise
resolves, the array is shifted), FlushSelect and FlushDelete
(`removeOldestFromDisk` again), or SendFails, BumpAttempts, CheckAttempts
(`attempts` is counted on the row found at the copy's index, as in the code).
EnqueueFault and FlushFault are rejecting database calls with the catch blocks
that follow; Crash and Restart keep the rows only, and a restart whose load
rejects starts with an empty array.  `accepted`, `dropped` and `delivered` are
history.

Flushes overlap, as the online handler's (`sync.ts:139`) and the report loop's
(`:751`) do, and an enqueue may evict under either; the queue loses reports that
way.  `mishap` records what the calls of a process have done to each other:
"disk" when a call rejected or `clear()` ran, "array" when flushes overlapped or
one was under way as an item was evicted or cleared.  It ends when the process
dies, or when the next report finds no call running and array and rows equal; the
reports queued until then are `exposed`.  Neither variable is read by a guard:
they say for which reports the properties are claimed, and when again for all.

`ReportBuffer` is the same queue without awaits, array and rows: reports are put
in, forgotten by a crash only while their `enqueue()` has not resolved, delivered
oldest first, given up, and delivered again.  The refinement mapping takes for
`held` what the array or a row has and nobody has disposed of, and the step that
matters is a send reaching the cloud: the oldest of the copy a flush works on is
the oldest report held.  The buffer's promise is on (`sound`) except during a mishap.

### ConnectionMonitor, RetryLoop, CloudLink

One iteration of a loop is one step.  Its contacts with the cloud succeed or
fail as `reachable` says, which changes at any moment; the report loop may find
nothing to report and then counts a success without any contact, as
`sync.ts:748` does.  The 'online' event starts a flush that nobody awaits, the
report loop awaits its own.  `RetryLoop` keeps time relative to the iteration:
the delay of the next timer (`wait`) and how long the circuit stays open
(`openFor`) with the production constants; the jitter is applied after the cap,
as `retry-policy.ts` does, and 7, 10 and 13 tenths stand for its extremes and
its middle.

### StateReport

The device's apps are a number that grows, its shape a number that grows only
with changes `appsChanged()` sees, its config a number.  BuildReport reads the
state and computes the fields to send; ReportSent and ReportFails are the two
ends of `sendReport`.  A send over MQTT may be delivered although it timed out,
an HTTP request although the agent gave up on it: `broker` and `late` hold
those copies, in order each, unordered with each other.  The queue here is the
plain FIFO that `OfflineQueue` refines in detail.  `Stored` is the row
`DeviceCurrentStateModel.update` writes, whole.

### TargetRow, TargetSync

`apps` and `config` are numbers standing for contents.  The operations of the
API that read the row and write it in another query are Read followed by Set,
SaveDraft, UpdateSensors, Deploy or Cancel, so that concurrent calls lose
updates as they do in the code.  A tag is the pair of version and content that
`generateETag()` hashes.  On the device every await of `pollTargetState`,
`StateReconciler.setTarget` and `ContainerManager.setTarget` ends a phase; a
Crash may come in any of them and leaves the snapshot row as it is at that
moment.  An answer is lost whole (AnswerLost), or its body only (BodyLost), after
`pollTargetState` has kept the ETag; `torn` remembers the latter.  Both savers set
their hash, delete, insert, and swallow an error: the delete or the insert may
reject (second disjuncts of DeleteBoth, InsertBoth, DeleteApps, InsertApps), as
may the container manager's load, and nothing is tried again; `unsaved` remembers
that the last access to the snapshot row was rejected.  `managed` are
the apps the container manager enforces; what the config manager makes of its
part of the target is left out (section 7).

### DockerEngine, ContainerManager

The engine keeps at most one container per service, because names are unique;
its operations take their answer as a parameter.  A plan is the sequence of
steps of `calculateSteps()`; its first step goes to the engine (Perform,
Download, Recreate), and when the answer is there the rest of `executeStep` runs
(Stopped, Paused, ... or StepFailed), so the rebuild from Docker (SyncList,
SyncReset, one SyncPush per awaited inspection, SyncAborts) and a liveness
restart (HealthStop ... HealthStarted) interleave with it at every await.
`current` is a sequence that may hold two entries for a service; where the code
uses `find` the model takes the first, where it builds a `Map` the last.  The
service object a liveness restart holds is the one in `current` until a rebuild
makes new ones (`health.shared`).  The order of the services within one plan is
fixed; their steps touch different containers.

### MqttManager, JobTable, JobsFeature, Jobs

A job is its number, in the order of posting.  `JobTable` is the row of
`device_job_status` with its writers: ExecuteJob (the POST and its notification),
NextSelect and NextUpdate (the two statements of `jobs/next`), PatchStatus (HTTP),
ApplyUpdate (MQTT), CancelJob and DeleteJob; the requests and messages on their
way are sets, so they arrive in any order, and one that is lost stays on its way.
Notifications are counted, since the broker may send one again (QoS 1, NotifyAgain)
at any later time; `copies` is the history of how many there were.
`MqttManager` has the connection attempt, its timeout against a late success, the
closing of a connection and the subscription.  `JobsFeature` follows the feature
from await to await: Start and Started, Poll, Answered or AskFails, Notified,
MonitorTick (30 s), Begin and one Step per step of the engine, Publish with
FallBack to SendPatch, Stop and Stopped, Crash.  What a step does on the device is
its success or failure; `MayFail` names the steps whose failure
the job ignores (`ignoreStepFailure`).

### DeviceRow, Provisioning, Heartbeat, DeviceRegistry

Keys are numbers in the order they are generated, a hash stands for its key.
`Provisioning` has the record on disk and in memory, the place where `provision()`
waits, and per call of it what became of the registration: sent, accepted (the
row was read and found free), registered (the row is written), refused.  The
agent may give up on a request that is registered later.  The checks of the
provisioning key, its use count and the rate limit are one nondeterministic
Refuse.  `CLOUD_API_ENDPOINT` has a default, so the local mode is never taken.
`Heartbeat` keeps ages in minutes instead of timestamps: Tick ages them all, and
a check that is due comes before the next tick.  A check may fail, at most
`MaxMissed` times in a row; a start that fails as a whole is a crash of the API.
`DeviceRegistry` has everybody who calls `getOrCreate` and so shows the device
online and dates it: requests of the device, behind `deviceAuth` (Reports); its
reports by MQTT, which no key or `is_active` guards and which may come as late as
they like (Publishes, ReportArrives); every edit of its target state (Edits); and
the default target state a registration sets without being waited for
(createDefaultTargetState, which may fail).  `shown` is history: the age of the
last such call or registration.  The rest is the operator who disables and enables
the device, and the API going down, shut down or not.  `DELETE /devices/:uuid`,
which removes the row, is left out: nothing in the repository sends it.

### ModbusPoller, SensorPipe, Telemetry

Per device, `ModbusPoller` counts what is under way: first polls (their 100 ms
timers are kept nowhere), polls in `pollTimers`, reads that await their
registers, and retries.  Settled is the end of `connect()` with the rest of
`initializeDevice`; as long as `start()` runs it also goes on to the next device.
Retry is `cleanupDevice` with the call of `connect()`.  ConnectionLost is an error
or close event of a client, Reconnected its own timer's success.  A failed
`connect()` leaves no such timer, `readAllRegisters` does not reject (it catches
the error of every register), and the retry comes after the first poll, since
`retryDelay` is 5 s by default.  `unattended` is history: the devices whose chain
of polls ended with nothing to start another.

`SensorPipe` follows the first `MaxReadings` messages written to the socket; they
are numbers, and whether a message has values or BAD quality does not matter.
`buffer` are bytes not parsed, counted in messages, which stay there for ever once
they are more than the capacity; Filled is what `addMessageToBatch` publishes when
several messages come in one chunk.  Every call of `publishBatch` has a copy of
the batch of its own (`calls`); Published is its end, which resets the batch that
is there then.  A publish that fails may have been delivered.  A message larger
than the capacity never gets as far as the size test of `addMessageToBatch`.
`Telemetry` puts an adapter's 'data' event and the `sendData` it calls into one
step.


## 3. Runs

Every `.cfg` is checked with `tlc -config X.cfg M`.  A *pass* run finds no
error; a *violation* run checks one property that a comment or document states,
and TLC shows how the code breaks it.

| Run | Module, cfg | Checks | Bounds |
|---|---|---|---|
| `queue_crash` | OfflineQueue, `OfflineQueueCrash.cfg` | TypeOK, Durable, DurableInv, NeverLost, FirstDeliveryInOrder, BufferSpec | 2 flushes at a time, queue of 2, 3 reports, any number of crashes and rejecting database calls |
| `queue_drains` | OfflineQueue, `OfflineQueueDrains.cfg` | Drains | 2 flushes at a time, queue of 2, 2 reports, 1 retry, any number of crashes and `clear()` |
| `cloud_link` | CloudLink, `CloudLink.cfg` | TypeOK, MonitorConsistent, PollOutageSeen, SilenceBounded, BacksOff, NoticesOutage, ComesBack | thresholds and delays as in the code but for the cooldown, 2 queued reports, 2 event flushes |
| `state_report` | StateReport, `StateReport.cfg` | TypeOK, AppsConverge, ConfigArrives | 1 change of the apps, 2 configs, queue of 2, 1 copy in flight per transport |
| `report_config_kept` | StateReport, `StateReportConfigKept.cfg` | ConfigKept: **violated** | no outages, no duplicates |
| `target_sync` | TargetSync, `TargetSync.cfg` | TypeOK, TagCoherent, AppsPersisted, ConvergesNonEmpty | 1 non-empty apps object, 1 config, versions to 2, one API client |
| `target_emptied` | TargetSync, `TargetSyncEmptied.cfg` | Converges: **violated** | versions to 2 |
| `containers` | MCContainers, `Containers.cfg` | TypeOK, EntriesTruthful, SparesHealthy, NothingToDoIsDone, Converges | 2 services, 2 images, one of them flaky, any 2 disturbances |
| `containers_stopped` | MCContainers, `ContainersStopped.cfg` | StoppedNotStarted: **violated** | 1 service, 2 disturbances |
| `jobs` | Jobs, `Jobs.cfg` | TypeOK, SuccessTrue, StartsAccounted, PollingTakesOver | 2 jobs of 2 steps, the failure of the first is ignored; 1 fault: a cancellation, deletion, update or notification sent twice, failed request, closed connection, failed publish, stop or crash |
| `device_registry` | DeviceRegistry, `DeviceRegistry.cfg` | TypeOK, KeyAgreed, OfflineInTime, OfflineOnlySilent, SilentShownOffline | 2 keys, 2 calls of `provision()`, a threshold of 2 and ages to 5 minutes, at most 1 check in a row fails |
| `telemetry` | Telemetry, `Telemetry.cfg` | TypeOK, OnePollLoop, PolledOnceReachable, Drained | 2 devices, 3 messages, batches of 2, buffer of 2, 1 publish under way when the buffer timer fires, 1 fault: a device, connection or socket that fails, or a publish that fails while connected |

### What they show, and why the bounds are enough

**queue_crash.**  The queue as the agent runs it, with `continueOnError: false`
(`sync.ts:1325-1328`) and two flushes: until its calls get in each other's way or
a database call rejects, an accepted report is on disk until it is delivered or
given up, wherever the process dies, and a report is first delivered before all
newer ones; `BufferSpec` says that at once, as the implementation of an atomic
buffer.  A rejecting call leaves rows behind or misses one, but every accepted
report can still be sent while the process lives (`NeverLost`).  What is not
claimed is named by `mishap` and `exposed` (section 2): overlapping flushes and an
eviction under a flush do lose reports in this code (section 6).  The claims hold
again for every report queued once that is over, so a mishap has no later effect.
Three reports in a queue of two are the least with which an eviction, a flush and a
pending insert meet.  There is no property about `maxSize`: it limits what a running
process adds, and over several crashes the surplus rows of handled reports are read
back, so that array and table outgrow it.  *queue_drains* shows that the queue
empties, in the other mode (`ContinueOnError` TRUE, with its give-ups) and whatever
the flushes do to each other: they may lose reports but never block it.

**cloud_link.**  Three polls the cloud leaves unanswered make the device
offline; a lasting outage is noticed and stays noticed although the report loop
counts empty iterations as successes; when the cloud answers for good, the
device gets online for good and its queue empties, which takes a success of
both loops; before the cap every delay is longer than the last one whatever the jitter; and
no delay exceeds the larger of the jittered cap and the cooldown.  The failure
counts stop at 3, the highest value the code compares with.  The cooldown of the
run is 12 minutes where `sync.ts:214` has 5: with 5 the delay after ten failures
(at least 10.5 minutes) has always run out the cooldown, and Skip never happens;
12 minutes lie inside the range of the jittered delays, so both happen.  With
the code's 5 minutes the same properties hold.

**state_report.**  Old reports flushed after newer ones, copies that arrive
late over either transport and changes `appsChanged()` does not see are all
repaired by a later report; a changed config is stored at least once.  One
change of the apps against the metrics-driven reports already gives two
different reports in the queue, on the broker and in flight at once.
**report_config_kept** (finding): the report after the first leaves the config
out, and the API then stores an empty one.

**target_sync.**  A device that stays up gets the content and the version of
its row once the row is left alone, whatever edits, drafts, deployments,
cancellations, lost answers and crashes come before, except for a row that has
become empty.  The tag stands for the target and version held; between two polls
the snapshot holds the apps in force although two components delete and insert
it, except after a rejected write of it, which nothing repeats: the row is then wrong
until the next write, and a restart in that time enforces the wrong apps until the
cloud answers (`unsaved`).  All of this is said of an agent whose last answer kept its body: when the
body alone is lost (BodyLost) the tag is kept without its target and the server
answers 304 until the row changes, so both premises exclude it, and TLC refutes
the properties without them.  One content beside the empty one tells every two
contents the code compares apart; two versions allow an edit and its deployment
or a draft of `updateSensor`, with any number of edits that keep the version.
**target_emptied** (finding) is the exception: a target emptied while the agent
is down equals the restarted agent's initial target and is never applied.

**containers.**  Service `a` starts as v1 running and may be given every state
of v1, v2 running, or withdrawal; `b` may be added beside it.  Any two of these
may happen, at any await: a new target, a refused engine call, a start that
fails, a container that dies, a failed probe, an agent restart.  Pulls of v2
fail as often as they are tried.  Two disturbances are enough for each pair of
activities to collide and for a fault to hit what a target began.  Then: an
entry of `currentState` never attributes to a container an image it does not
run, so steps do to a container what was planned for it; a container that runs
what its target asks for, and that no rebuild has seen dead, is never stopped or
frozen by a reconciliation; an
empty plan computed from an accurate picture means that the target is reached;
and the device heals by itself once disturbances end, unless the target state is
"stopped", the container was created and never started, or the image was given
up.  `MaxRetries` is 2 instead of 10: the model tells apart only no failure,
some, and the last.
**containers_stopped** (finding): after a state report has rebuilt
`currentState`, a service stopped on purpose counts as fallen over and is
removed and started again.

**jobs.**  A row that says SUCCEEDED is of a job whose steps the device has
got through once, however its reports are doubled, late or overtaken by those of
another run; a job is started at most once for each copy of its notification that is
sent or sent again, and once more for an answer of `jobs/next` whose select came before
the other way marked it, also across a restart, a lost answer or a request handled too
late; and on a device whose MQTT connection is gone for good, a job that stays
queued is taken over by polling.  Two jobs let one be handed out while the other
runs, two steps let a job fail, stop or be cancelled in the middle.  The last
property is not claimed of a device that reconnected: its topic is not subscribed
again and its polling pauses (`monitor.ts:583`).

**device_registry.**  The key on a provisioned device is the one its row was
registered with, until a factory reset, whatever requests and answers are lost,
late or doubled.  A row is shown online for the threshold and an interval at most
after the last call that showed it online, also across downtimes of the API; a
device that got through since the API came up is shown offline only after a silence
longer than the threshold; and a row that nobody dates any more goes offline for
good.  Who dates it is everybody who calls `getOrCreate`: a disabled device that
keeps reporting over MQTT stays online, and an edit shows a silent one online again.
Exempt are the interval after a check that failed, and a row that nothing ever
dated (its default target state was never written and the device never reported):
that one is shown online for ever.  The downtime half of the monitor's header
(`heartbeat-monitor.ts:5-8`) is not claimed and does not hold (section 6).  The
interval is the default of 1 minute, the threshold 2 minutes instead of 5; ages
past 5 minutes are not told apart, which is more than the threshold and the longest
time between two checks that succeed (`HeartbeatAssumption`).  Two attempts are the
least that overlap, and two keys allow a new one after a factory reset.

**telemetry.**  Timers of connections, polls and retries may fire in any order
the delays allow, and devices, connections, socket and broker fail between any
two of them.  No device is ever polled by two chains of timers, and none that
has been tried is left without poll and retry, but for the two known ways out
(section 6).  A device that answers for good is read again and again, however
long it could not be reached.  Every message in the socket is published once the
broker stays connected, although publishes overlap, fail, or fail after they were
delivered; what the end of a publish or a closing socket drops, and what an
overfull buffer keeps, is named in the property and not claimed.  Two devices
are needed for a retry to come while `start()` still awaits another one; three messages
and batches of two let one arrive while a full batch is published, and a
buffer of two can overflow.  `MaxCalls` bounds only the buffer timer; full batches
and a closing socket start further publishes beside its own.

### Deadlock

`CHECK_DEADLOCK FALSE` stands where the system really may come to rest: when all
reports of a bounded run are delivered (OfflineQueue), and in the containers
runs, whose environment is bounded (a one-service device with its target
reached and its rebuilds aside has nothing to do), in `jobs`, when all jobs
are done and the fault is used up, and in `telemetry`, whose devices may all
have been left by the ways out.

### Fairness

| Module | Assumed | Why the code gives it |
|---|---|---|
| OfflineQueue | every begun call gets through its awaits (WF); a flush is started while none is under way and the queue is not empty (WF); a send that is tried again and again succeeds once (SF on Deliver, Acknowledge) | promises of SQLite settle; `sync.ts` flushes after each successful report; the cloud is not down for ever, or the property is vacuous |
| CloudLink | both loops iterate, flushes end, the metrics interval passes (WF) | every iteration re-arms its timer, also on failure (`sync.ts`); nothing is assumed of the cloud: `NoticesOutage` and `ComesBack` state it as a premise |
| StateReport | reports are built, flushes start, messages held are handled (WF); sends do not fail for ever (SF) | as above; the API handles each message once |
| TargetSync | the agent polls or goes on saving (WF); answers are not lost for ever (SF on Receive) | the poll loop (CloudLink); that the agent stays up is a premise of the property |
| Jobs | the agent's promises and timers settle, an answer of `jobs/next` and a PATCH are handled (WF); nothing is assumed of the broker or of MQTT messages | Node's timers and promises; the HTTP client has timeouts |
| DeviceRegistry | time passes, the API's timer fires (WF); nothing is assumed of who dates the row: the property has the premise that nobody does | `setInterval` |
| Telemetry | start, settling connections, polls, reads and retries of each device, the delivery of bytes, the buffer timer and the end of publishes (WF); nothing is assumed of devices, connections, the socket or the broker | Node's timers and promises; Modbus reads and publishes have timeouts |
| ContainerManager | engine calls return, rebuilds and restarts end (WF); there is always again a moment when nothing runs (`[]<>Calm`) and the 30 s timer does not for ever miss it (SF); a rebuild does not for ever hide the service `startStoppedContainer` looks up (SF) | reports come every 10 s, the timer every 30 s, both are short, and the two intervals are not synchronised |

## 4. Proofs

All theorems are checked by TLAPS for every value of the constants that the
named assumptions allow.

`OfflineQueueProofs`
- **TypeCorrect**: `Spec => []TypeOK` for any number of flushers and any faults.
  TypeOK is not inductive: that the index `done` stays in range needs
  `CopyBounded` (index plus what is left of the copy never exceeds the number of
  reports) and `ItemPending`.
- **DurableInvCorrect**, **DurableCorrect**: an accepted report that no mishap has
  met is on disk until it is delivered or given up, whatever crashes come, for any
  number of flushes that may overlap.  `removeOldestFromDisk()` deletes the oldest
  *row*, not the row of the report just sent.  That is right, until calls overlap,
  because of `DurableInv`: every surplus row (one that has left the array) belongs
  to a report already handled and is older than everything in the array
  (`SurplusHandled`), every pending removal finds such a row that no other pending
  removal is about to take (`RemovalsCovered`), the flush's copy is in step with
  the array (`CopyInStep`), and every array item but the one being inserted has its
  row (`MemoryBacked`).  Nobody assumes one flush: that there is one until two get
  in each other's way is part of the invariant (`OneFlush`), and the step that ends
  a mishap re-establishes all of it from array and rows being equal (`MishapOver`).
- **BufferImplemented**: the queue implements `ReportBuffer`: `Spec => BufferSpec`,
  one lemma for the initial states and one with a step per action (`BufferStep`).
  The invariants used are those above: `CopyInStep` makes the report a flush sends
  the oldest held, `SurplusHandled` keeps the surplus rows out of `Held`.  During a
  mishap the buffer only asks that the history grows (`HistoryGrows`).
- **FirstDeliveryInOrderCorrect**: from the refinement: along a step of the buffer
  whatever is delivered or dropped stays older than whatever is held (`Ordered`),
  because only the oldest held leaves and only a newer one comes.  The queue itself
  has to be looked at again only where a mishap ends (`BufferOrder`, `OrderedStep`).
- **NeverLostCorrect**: in a running process, with any rejecting database calls and
  any `clear()`.  `NeverLost` is about array and history; the proof shows that what
  a flush has still to send is the front of the array (`SendingFront`), so that it
  shifts what it has sent.  A flush thrown off its item by a rejected DELETE ends
  before it could shift again unless `continueOnError` is set, and then that counts
  as a mishap.

`CloudLinkProofs`, about `ConnectionMonitor`, `RetryLoop` and `CloudLink`
- **TypeCorrect**, **MonitorConsistentCorrect**, **PollOutageSeenCorrect**: by
  `MonitorInv` and `PollsCounted`: only polls touch the monitor's count of polls, so
  it equals the history of refused ones.
- **SilenceBoundedCorrect**, **BacksOffCorrect**: by `RetryInv`.  `SilenceBounded`
  is not inductive: it has to be known where the running timer's delay comes from
  (`WaitExplained`: the interval after a success, a jittered delay after a failure,
  the rest of the cooldown and a second after a skip), that silence and rest of the
  cooldown fit into the cooldown (`CooldownLeft`), and that a closed circuit has not
  counted to its limit (`CountBelow`), or it could open by itself.
  That the delays grow until the cap needs, for every number of failures, that
  `Exponential` at least doubles and grows by 10 ms or more: a statement about a
  recursive function, proved from its least counterexample.  `BackoffAssumption` has the code's
  shape (base delay of 10 ms or more, doubling or more, cap reached before the error
  count stops): with a smaller base the division of the jitter can level two delays.

`StateReportProofs`
- **TypeCorrect**: by `ReportInv`: a flush runs only while the queue is not empty,
  and the shape of the apps never outgrows the apps.  The queue's limit holds
  whatever fails.

`ContainerManagerProofs`
- **TypeCorrect**: `TypeInv` says of every place that holds a container (entries,
  plan, rebuild, liveness restart, retry state) that it can exist, and when.
- **EntriesTruthfulCorrect**: by `Truth`.  `EntriesTruthful` is about
  `currentState` and not inductive, since entries are written after an await from
  what was read before: the same is said of everything that will become an entry,
  that is of what a rebuild has still to write (`SyncTrue`), of a start the engine
  has answered (`ReplyTrue`) and of a liveness restart (`HealthTrue`).  A claim
  once true stays true because an id is never used again while someone holds it
  (`ClaimKept`).
- **SparesHealthyCorrect**, **NothingToDoIsDoneCorrect**: from the invariant and
  from what `calculateSteps()` returns: which steps it plans for a service with
  which entry (`StepsForHolds`, `CalculateStepsHolds`, `Sparing`), and that a service without a step
  needs none (`NothingToUpdate`, `NothingToAdd`).

`JobsProofs`
- **TypeCorrect**: handlers run, and requests hand out, only jobs (`RunsJob`, `HandsJob`).
- **SuccessTrueCorrect**: by `SuccessInv`: also every report on its way that says
  so is true (`TrueReports`), and so is the run that is about to send one
  (`TrueEndings`).
- **StartsAccountedCorrect**: by `StartInv`, which counts with every start the ones
  still possible: one for each copy of the notification on its way, and one as long
  as `jobs/next` may yet hand the job out (row not inserted or still queued, or an
  answer awaited).  Their sum never exceeds the copies ever sent and one.

`DeviceRegistryProofs`
- **TypeCorrect**: needs that every request carries a key (`RequestKeyed`).
- **KeyAgreedCorrect**: by `KeyInv`.  `KeyAgreed` alone is not inductive, because
  an answer can arrive for any attempt: every request and the row have the key on
  disk (`OneKey`), memory agrees with disk on it (`InMemory`), and before the first
  start nobody knows the device (`Started`), so that no request precedes the save.
- **OfflineOnlySilentCorrect**: by `HeardInv`, which adds that a device that was
  heard has an age and an API.
- **OfflineInTimeCorrect**: by `InTimeInv`, which bounds how long ago the device was
  shown online by the threshold and what has passed of the interval, and
  `ShownLast`: that is never before the date of the row, which is what the checks
  look at.  All callers of `getOrCreate` are one case (`DatedRow`).

`TelemetryProofs`
- **OnePollLoopCorrect**: `Spec => []OnePollLoop` for any number of devices.  The
  inductive invariant `PollInv` says what may be under way by the state of the
  connection (`DueAt`): nothing before it is settled, one retry and at most the
  first poll after a failure, one chain after a success; and that devices
  `start()` has not come to have no client (`InOrder`).  Without the second part
  the step that goes on to the next device could overwrite a connection in use.
- **TypeCorrect**: `PollInv` gives the timers' counters, `PipeInv` the pipe: what a
  chunk fills is a sequence of sets of messages (`FilledIs`).
- **NoneVanishesCorrect**: `Spec => []NoneVanishes`: every message written to the
  socket is in the stream, a buffer or the batch, at the broker, or among those a
  closing socket or the end of an older publish dropped.  This is the safety part
  of `Drained`; no run states it.

`TargetSyncProofs`
- **TypeCorrect**, **TagCoherentCorrect**: types, and the coherence of tag,
  target and version while no body is lost, which is inductive given the types.
- **AppsPersistedCorrect**: `SaveInv` says, phase by phase, which of the two
  hashes, the snapshot and the apps in force already agree: before the save the
  snapshot and the reconciler's hash agree with the apps in force (`SavedBefore`),
  which is what makes skipping the first write safe; from the first write on the
  hash is the target's (`SavedBoth`); the snapshot has the target's apps whenever
  it is not between a delete and an insert (`SavedApps`), each unless the last
  access to the row was rejected.

Assumptions on constants (`QueueAssumption`, `RowAssumption`, ...) are only what
the code has: sizes are positive, flags are Booleans, services are finitely many,
and `BackoffAssumption` above.  The bounds of the models (`MaxIds`, `MaxFaults`, ...) are
constants like all others: the theorems hold for each value of them.  One of them
shapes an action: a container is created only while an id is free
(`FreeIds`), which in the program always holds.

With this every invariant and every action property of the passing runs is a
theorem, and so is the refinement of the queue.  None has a premise on the
schedule; what the code does not give is named inside the properties (`mishap`,
`torn`, `unsaved`).

Only model-checked: the liveness properties (Drains, NoticesOutage, ComesBack,
AppsConverge, ConfigArrives, ConvergesNonEmpty, Converges, PollingTakesOver,
SilentShownOffline, PolledOnceReachable, Drained), since fairness and ENABLED are
out of the prover's reach, and the three violations, which are counterexamples.
The operators of the library that take an operator (`SelectSeq`, `SetToSortSeq`)
are opaque to the prover as well; the models proved about write them as functions
and set comprehensions instead (`Filled`, `Without`).

## 5. What disagrees with the documents

The three violation runs, with the quoted lines, are the `findings` of
`PROJECT.json`: a report without config erases the
config; an emptied target is never applied after a restart; a stopped service is
started again.

## 6. Observations without a run

Met while reading and modelling; they either need data the models leave out or
are settled by reading.

*Queue and reports.*  `flush()` takes no lock: two flushes of the same copy (the
online event, `sync.ts:139`, and the one after a report, `sync.ts:751`) send the
first report twice and shift a second, unsent one out of the array
(`offline-queue.ts:171`), against the comment "This ensures we don't lose reports"
(`sync.ts:1189`).  So does an enqueue that evicts while a flush awaits the send of
the evicted item (`offline-queue.ts:97`).  TLC refutes NeverLost and Durable for
either without their premise on `mishap`.
`stripReportForQueue` drops the version, and the row then stores 0
(`sync.ts:824`, `models.ts:429`).  `oldState` is read after the update
(`device-state-handler.ts:110-113`).  With `continueOnError: true` and rejecting
database calls together a report can be lost; production does not combine them.
Array and table outgrow `maxSize` over several crashes (`loadFromDisk`).

*Cloud link.*  An iteration without anything to report is a success
(`sync.ts:748`).  The backoff timer outlasts the five-minute cooldown, so the
circuit breaker never changes when the next attempt is made, unlike the timeline
of `agent/README.md:803`.  The jitter is applied after the cap
(`retry-policy.ts:162`).

*Target state.*  `set()` resets `needs_deployment`, so an app edit releases a
pending sensor draft; cancelling may restore a draft (`devices.ts:1133`);
the history trigger takes a draft's new version for a deployment and dates it like
the last one (`029_add_deployment_history.sql:56`), so that cancelling may restore
either; concurrent edits overwrite each other; the ETag is stored before the body
is read (`sync.ts:628`, `:632`); a crash between the delete and the insert of the snapshot,
or an insert that rejects, leaves a device that enforces no apps until its first
answer; both savers set their hash before they write (`reconciler.ts:262`,
`container-manager.ts:380`), so a failed write is never made up for.

*Config manager.*  `config.ts` writes the endpoints table (whose names are
unique), then its record in memory, then the record's row, by a delete and an
insert; a step that fails is logged and dropped, and neither a 304 nor an equal
target repeats it.  After a crash or a rejected write in between, a registration
fails on the unique name for ever, and updates and removals are never made up
for.  Fields other than sensors are merged and never removed (`config.ts:128`).
A factory reset deletes from `sensors`, a table since renamed to `endpoints`.

*Jobs.*  Only the last job is known as a duplicate (`monitor.ts:376`), so a
notification the broker sends again after another job has run starts the job anew.
A job whose notification comes while another runs is dropped and waits
for the next poll (`monitor.ts:407`).  A late IN_PROGRESS or the late mark of
`jobs/next` overwrites a finished or cancelled row (`mqtt-jobs-subscriber.ts:83`).
A connection attempt that times out keeps its rejected promise, and the agent
stays without MQTT until it restarts (`mqtt/manager.ts:101`).  Cancelling and
deleting are guarded by `job_executions.status`, which the reports of a device do
not set.

*Provisioning and heartbeat.*  A registration whose answer is lost leaves the row
registered, and every later attempt is refused (`provisioning.service.ts:132`).
The use count of a provisioning key is checked in one query and raised in another.
`safeOfflineThreshold` is computed and not used, so that after a downtime the
first check marks devices offline whose silence only the downtime explains,
against the header of the file (lines 5 to 8).  Every edit of the target state calls
`getOrCreate` (`models.ts:306`) and shows a silent device online; reports by MQTT do so
for a disabled device, whose key and `is_active` nobody checks there
(`device-state-handler.ts:84`).  `getOrCreate` reads whether the
device was offline before it writes the row (`models.ts:106`).  The agent's
`provisioning/device-manager.ts` is an unused near-copy of the manager.

*Telemetry.*  A poll that finds its connection lost ends the chain of polls
(`adapter.ts:284`), and the client that reconnects by itself starts none
(`client.ts:800`): after one lost connection a device is not read again until the
agent restarts.  A retry that comes while `start()` still awaits another device is
dropped (`adapter.ts:484`), with the same end.  The batch is reset after the await
of the publish, with the messages that came in the meantime (`sensor.ts:488`).  A
buffer that has passed its capacity is never parsed again (`sensor.ts:386`), while
`agent/docs/SENSOR-PUBLISH.md:140` has messages larger than it discarded.

*Sensors.*  A report without config makes `syncCurrentStateToTable` delete every
sensor row (`device-sensor-sync.ts:303-344`).

*Containers.*  A paused container keeps its liveness probe and is restarted with
a new id.  A container that was created and failed to start is taken as running
for ever (`container-manager.ts:631-641`).  After a failed pull the remaining
steps still stop and remove the old container.  A start pulls the image again
whatever the backoff says (`docker-manager.ts:157-165`).  Probes are not resumed
after an agent restart.  A removal that empties the app during a rebuild aborts
the rebuild with a TypeError.

## 7. Not modelled, and why

Volumes, networks and the comparison of ports, environment and restart policy in
the container manager: they add alternatives to `needsUpdate` but no control.
Several apps: the code handles them one after the other with the same steps.
The config manager: its record, row and table beside those of `TargetSync` make
2.4 million states at two versions, more than a run should take with liveness;
section 6 has what reading it showed.  The sensor table of the API: data moved
between two tables in one request.  API-key rotation: no rotation completes here,
since the housekeeper's task calls a stored procedure no migration creates, the
API's two routes have no client and the agent does not listen for a rotation.
Broker and VPN credentials, provisioning-key management, job templates, handlers
and summaries: rows written beside the ones modelled and not read back by them;
the routes of job schedules are not mounted.  The agent's orchestration
(`agent.ts`): start and stop order, whose calls are modelled where they arrive.
The event store: an append-only log nothing modelled reads.  Of the Modbus adapter
`stop()`, enabling and disabling a device (nothing calls them), register formats and
statistics; late deliveries of publishes that timed out, which can only add to what
the broker has.  OPC-UA and CAN endpoints, discovery, remote access, anomaly detection, simulation, dashboard, billing, mail, VPN,
charts: protocol drivers, numerics, user interface or deployment material with no
part in the loop above.

## 8. Plan

Done: the queue, its abstract specification and their proofs; the cloud link, the
report, the target row and its synchronisation, the containers, jobs, the device
registry and the telemetry, each with the proof of all its safety properties.

Next:

1. **Abstract specifications** of what is so far stated by single invariants: the
   pipe of Telemetry as a buffer that only the two known drops empty, and the
   job's row as what a device did, with the detailed modules proved to implement
   them as the queue is.
2. **Safety behind liveness**: for each liveness property the invariant
   that says the thing awaited is still possible, as `NoneVanishes` does for `Drained`.
3. **ConfigManager** in a run of its own: `reconcile`, failed steps, restart.
   Abstract specification: the sensors registered are those of the target.
