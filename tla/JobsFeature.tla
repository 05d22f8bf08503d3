----------------------------- MODULE JobsFeature ----------------------------
(***************************************************************************)
(* The agent's jobs: agent/src/features/jobs/src/monitor.ts and engine.ts. *)
(* A job comes by an MQTT notification or by HTTP polling, which is paused *)
(* while MQTT is the primary way; one job is handled at a time and a job   *)
(* that comes meanwhile is ignored; its status goes out by MQTT or, when   *)
(* that fails, by HTTP.                                                    *)
(***************************************************************************)
EXTENDS JobTable

CONSTANTS
  Steps,      \* steps of a job document, the last one its finalStep
  MayFail     \* steps with ignoreStepFailure

ASSUME StepsAssumption == Steps \in Nat \ {0} /\ MayFail \subseteq 1 .. Steps

VARIABLES
  boot,        \* where start() of the feature is
  needStop,
  run,         \* executeJob(): handlingJob is run.pc # "idle"
  latest,      \* latestJobNotification
  subscribed,  \* mqttSubscribed
  lastMqtt,    \* lastMqttState
  httpPaused,
  started,     \* history: how often the device started each job
  passed       \* history: the jobs a device got through

featureVars == <<boot, needStop, run, latest, subscribed, lastMqtt, httpPaused,
                 started, passed>>

\* updateJobStatus() is about to be called, or waits for its HTTP answer.
Sends == {"begin", "end", "error"}
Waits == {"beginHttp", "endHttp", "errorHttp"}
Idle == [pc |-> "idle", job |-> NoJob, step |-> 0, ok |-> FALSE]
Beginning(j) == [pc |-> "begin", job |-> j, step |-> 0, ok |-> FALSE]

FeatureTypeOK ==
  /\ boot \in [Devices -> {"down", "polling", "started"}]
  /\ needStop \in [Devices -> BOOLEAN]
  /\ run \in [Devices -> [pc : {"idle", "steps"} \cup Sends \cup Waits,
                          job : Jobs \cup {NoJob}, step : 0 .. Steps, ok : BOOLEAN]]
  /\ latest \in [Devices -> Jobs \cup {NoJob}]
  /\ {subscribed, lastMqtt, httpPaused} \subseteq [Devices -> BOOLEAN]
  /\ started \in [Jobs -> [Devices -> Nat]]
  /\ passed \subseteq Jobs \X Devices

FeatureInit ==
  /\ boot = [d \in Devices |-> "down"]
  /\ run = [d \in Devices |-> Idle]
  /\ latest = [d \in Devices |-> NoJob]
  /\ needStop = [d \in Devices |-> FALSE]
  /\ subscribed = [d \in Devices |-> FALSE]
  /\ lastMqtt = [d \in Devices |-> FALSE]
  /\ httpPaused = [d \in Devices |-> FALSE]
  /\ started = [j \in Jobs |-> [d \in Devices |-> 0]]
  /\ passed = {}

handlingJob(d) == run[d].pc # "idle"

\* pollForJobs() sends its request.
Ask(d) ==
  /\ asking[d].pc = "none"
  /\ asking' = [asking EXCEPT ![d].pc = "select"]
  /\ UNCHANGED <<posted, rows, marking, patches, updates, notices, copies>>

Begin(d, j) ==
  /\ run' = [run EXCEPT ![d] = Beginning(j)]
  /\ latest' = [latest EXCEPT ![d] = j]
  /\ started' = [started EXCEPT ![j][d] = @ + 1]

\* executeJob(): nothing happens while another job is handled or after stop().
Execute(d, j) ==
  IF needStop[d] \/ handlingJob(d) THEN UNCHANGED <<run, latest, started>>
  ELSE Begin(d, j)
-----------------------------------------------------------------------------
\* start(): the first poll, and the job it brings, come before everything else.
Start(d) ==
  /\ boot[d] = "down" /\ link[d] \notin {"none", "connecting"}
  /\ Ask(d)
  /\ boot' = [boot EXCEPT ![d] = "polling"]
  /\ UNCHANGED <<mqttVars, needStop, run, latest, subscribed, lastMqtt, httpPaused, started, passed>>

\* Then the topic is subscribed, if the agent is connected at that moment,
\* and the connection monitor started.
Started(d) ==
  /\ boot[d] = "polling" /\ asking[d].pc = "none" /\ ~handlingJob(d)
  /\ boot' = [boot EXCEPT ![d] = "started"]
  /\ lastMqtt' = [lastMqtt EXCEPT ![d] = isConnected(d)]
  /\ \E ok \in BOOLEAN :
       /\ IF isConnected(d) THEN Subscribe(d, ok) ELSE ~ok /\ UNCHANGED mqttVars
       /\ subscribed' = [subscribed EXCEPT ![d] = ok]
       /\ httpPaused' = [httpPaused EXCEPT ![d] = ok]
  /\ UNCHANGED <<tableVars, needStop, run, latest, started, passed>>

\* The polling interval
Poll(d) ==
  /\ boot[d] = "started" /\ ~httpPaused[d] /\ ~handlingJob(d) /\ ~needStop[d]
  /\ Ask(d)
  /\ UNCHANGED <<mqttVars, featureVars>>

\* 30 s without an answer, or a connection error
AskFails(d) ==
  /\ asking[d].pc # "none"
  /\ GiveUpAsking(d)
  /\ UNCHANGED <<mqttVars, posted, rows, patches, updates, notices, copies, featureVars>>

\* The answer to a poll; a 404 brings no job.
Answered(d) ==
  /\ asking[d].pc = "answer"
  /\ asking' = [asking EXCEPT ![d] = NotAsking]
  /\ IF asking[d].job = NoJob THEN UNCHANGED <<run, latest, started>>
     ELSE Execute(d, asking[d].job)
  /\ UNCHANGED <<mqttVars, posted, rows, marking, patches, updates,
                 notices, copies, boot, needStop, subscribed, lastMqtt, httpPaused, passed>>

\* handleMqttJobNotification(): only the job executed last is known as a
\* duplicate.
Notified(d, j) ==
  /\ notices[d][j] > 0
  /\ notices' = [notices EXCEPT ![d][j] = @ - 1]
  /\ IF latest[d] = j THEN UNCHANGED <<run, latest, started>> ELSE Execute(d, j)
  /\ UNCHANGED <<mqttVars, posted, rows, asking, marking,
                 patches, updates, copies, boot, needStop, subscribed, lastMqtt, httpPaused,
                 passed>>

\* Defect: polling goes on only after a reconnection that finds no subscription.
MonitorTickStaysPaused(d) ==
  /\ boot[d] = "started" /\ ~needStop[d]
  /\ isConnected(d) # lastMqtt[d]
  /\ httpPaused' = [httpPaused EXCEPT ![d] = IF isConnected(d) THEN subscribed[d] ELSE @]
  /\ lastMqtt' = [lastMqtt EXCEPT ![d] = isConnected(d)]
  /\ UNCHANGED <<mqttVars, tableVars, boot, needStop, run, latest, subscribed, started, passed>>

\* The connection monitor looks every 5 s.
MonitorTick(d) ==
  /\ boot[d] = "started" /\ ~needStop[d]
  /\ isConnected(d) # lastMqtt[d]
  /\ httpPaused' = [httpPaused EXCEPT ![d] = isConnected(d) /\ subscribed[d]]
  /\ lastMqtt' = [lastMqtt EXCEPT ![d] = isConnected(d)]
  /\ UNCHANGED <<mqttVars, tableVars, boot, needStop, run, latest, subscribed, started, passed>>
-----------------------------------------------------------------------------
\* The status that executeJob() reports, by where it is
StatusOf(r) ==
  CASE r.pc \in {"begin", "beginHttp"} -> "IN_PROGRESS"
    [] r.pc \in {"end", "endHttp"} /\ r.ok -> "SUCCEEDED"
    [] OTHER -> "FAILED"

ReportOf(d) == [dev |-> d, job |-> run[d].job, status |-> StatusOf(run[d])]

\* updateJobStatus() returns, or throws after HTTP failed too.
Returned(r) == IF r.pc \in {"begin", "beginHttp"} THEN [r EXCEPT !.pc = "steps", !.step = 1]
               ELSE Idle
Thrown(r) == IF r.pc = "errorHttp" THEN Idle ELSE [r EXCEPT !.pc = "error"]

InHttp(r) == [r EXCEPT !.pc = CASE @ = "begin" -> "beginHttp" [] @ = "end" -> "endHttp"
                                [] OTHER -> "errorHttp"]

unreported == <<mqttVars, posted, rows, asking, marking,
                notices, copies, boot, needStop, latest, subscribed, lastMqtt, httpPaused, started, passed>>

\* publishNoQueue() is acknowledged by the broker.
Publish(d) ==
  /\ run[d].pc \in Sends /\ isConnected(d)
  /\ updates' = updates \cup {ReportOf(d)}
  /\ run' = [run EXCEPT ![d] = Returned(@)]
  /\ UNCHANGED <<unreported, patches>>

SendPatch(d) ==
  /\ patches' = patches \cup {ReportOf(d)}
  /\ run' = [run EXCEPT ![d] = InHttp(@)]
  /\ UNCHANGED unreported

\* Not connected: the PATCH is sent.
FallBack(d) ==
  /\ run[d].pc \in Sends /\ ~isConnected(d)
  /\ SendPatch(d) /\ UNCHANGED updates

\* No acknowledgement within 5 s; the broker may have the message all the same.
PublishFails(d) ==
  /\ run[d].pc \in Sends /\ isConnected(d)
  /\ SendPatch(d) /\ updates' \in {updates, updates \cup {ReportOf(d)}}

\* The answer comes, whatever its status.
Patched(d) ==
  /\ run[d].pc \in Waits /\ ReportOf(d) \notin patches
  /\ run' = [run EXCEPT ![d] = Returned(@)]
  /\ UNCHANGED <<unreported, patches, updates>>

\* The request fails or takes 30 s, whatever becomes of it.
PatchThrows(d) ==
  /\ run[d].pc \in Waits
  /\ run' = [run EXCEPT ![d] = Thrown(@)]
  /\ UNCHANGED <<unreported, patches, updates>>

\* Defect: the run ends one step late.
StepOffByOne(d) ==
  /\ run[d].pc = "steps"
  /\ run' = [run EXCEPT ![d] = IF @.step > Steps THEN [@ EXCEPT !.pc = "end", !.ok = TRUE]
                               ELSE [run[d] EXCEPT !.step = @ + 1]]
  /\ UNCHANGED <<mqttVars, tableVars, boot, needStop, latest, subscribed, lastMqtt,
                 httpPaused, started, passed>>

\* Defect: the failure of any step is ignored.
StepAnyMayFail(d) ==
  LET last == run[d].step = Steps
  IN /\ run[d].pc = "steps"
     /\ \E works \in BOOLEAN :
          /\ run' = [run EXCEPT ![d] = IF last THEN [@ EXCEPT !.pc = "end", !.ok = TRUE]
                                       ELSE [run[d] EXCEPT !.step = @ + 1]]
          /\ passed' = IF last /\ works THEN passed \cup {<<run[d].job, d>>} ELSE passed
     /\ UNCHANGED <<mqttVars, tableVars, boot, needStop, latest, subscribed, lastMqtt,
                    httpPaused, started>>

\* executeSteps(): a failed step ends the run unless its failure is ignored.
Step(d) ==
  LET last == run[d].step = Steps
  IN /\ run[d].pc = "steps"
     /\ \E works \in BOOLEAN :
          LET goesOn == works \/ run[d].step \in MayFail
          IN /\ run' = [run EXCEPT ![d] = IF last \/ ~goesOn THEN [@ EXCEPT !.pc = "end", !.ok = goesOn]
                                          ELSE [run[d] EXCEPT !.step = @ + 1]]
             /\ passed' = IF last /\ goesOn THEN passed \cup {<<run[d].job, d>>} ELSE passed
     /\ UNCHANGED <<mqttVars, tableVars, boot, needStop, latest, subscribed, lastMqtt,
                    httpPaused, started>>
-----------------------------------------------------------------------------
\* onStop(): timers and subscription go; the running job is waited for.
Stop(d) ==
  /\ boot[d] = "started" /\ ~needStop[d]
  /\ needStop' = [needStop EXCEPT ![d] = TRUE]
  /\ IF subscribed[d] /\ isConnected(d)
     THEN Unsubscribe(d) /\ subscribed' = [subscribed EXCEPT ![d] = FALSE]
     ELSE UNCHANGED <<mqttVars, subscribed>>
  /\ UNCHANGED <<tableVars, boot, run, latest, lastMqtt, httpPaused, started, passed>>

\* The process ends.
Gone(d) ==
  /\ boot' = [boot EXCEPT ![d] = "down"]
  /\ run' = [run EXCEPT ![d] = Idle]
  /\ latest' = [latest EXCEPT ![d] = NoJob]
  /\ needStop' = [needStop EXCEPT ![d] = FALSE]
  /\ subscribed' = [subscribed EXCEPT ![d] = FALSE]
  /\ lastMqtt' = [lastMqtt EXCEPT ![d] = FALSE]
  /\ httpPaused' = [httpPaused EXCEPT ![d] = FALSE]
  /\ MqttGone(d)
  /\ GiveUpAsking(d)
  /\ notices' = [notices EXCEPT ![d] = NoNotice]
  /\ UNCHANGED <<posted, rows, patches, updates, copies, started, passed>>

Stopped(d) == needStop[d] /\ ~handlingJob(d) /\ Gone(d)

Crash(d) == boot[d] # "down" /\ Gone(d)
=============================================================================
