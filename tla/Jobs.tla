-------------------------------- MODULE Jobs --------------------------------
(***************************************************************************)
(* Jobs end to end: the rows in the cloud, the broker connection of every  *)
(* device and the agents' jobs feature.                                    *)
(***************************************************************************)
EXTENDS JobsFeature

CONSTANT MaxFaults   \* bound on the steps of Fault

ASSUME FaultsAssumption == MaxFaults \in Nat

VARIABLE faults

vars == <<mqttVars, tableVars, featureVars, faults>>

TypeOK == MqttTypeOK /\ TableTypeOK /\ FeatureTypeOK /\ faults \in 0 .. MaxFaults

Init == MqttInit /\ TableInit /\ FeatureInit /\ faults = 0
-----------------------------------------------------------------------------
\* Steps of the cloud alone, and of the connection alone
OnlyTable == UNCHANGED <<mqttVars, featureVars>>
OnlyLink == UNCHANGED <<posted, rows, asking, marking, patches, updates, featureVars>>

Post == \E j \in Jobs : (ExecuteJob(j) \/ NotifyDevices(j)) /\ OnlyTable

HandOut(d) == (NextSelect(d) \/ NextUpdate(d)) /\ OnlyTable

Patches == \E p \in patches : PatchStatus(p) /\ OnlyTable

Late == ((\E m \in marking : MarkLate(m)) \/ \E u \in updates : ApplyUpdate(u)) /\ OnlyTable

Link(d) == (Connect(d) \/ ConnectSucceeds(d) \/ ConnectRefused(d) \/ ConnectTimesOut(d))
           /\ OnlyLink /\ UNCHANGED <<notices, copies>>

Work(d) == Start(d) \/ Started(d) \/ Publish(d) \/ FallBack(d) \/ Patched(d) \/ Step(d)

Agent(d) ==
  \/ Work(d) \/ Poll(d) \/ Answered(d) \/ MonitorTick(d) \/ Stopped(d)
  \/ \E j \in Jobs : Notified(d, j)

\* What is on its way to the device is lost with the connection.
Closes(d) == ConnectionCloses(d) /\ notices' = [notices EXCEPT ![d] = NoNotice]
             /\ UNCHANGED copies /\ OnlyLink

\* What a user does to a job and what goes wrong
Fault ==
  \/ \E j \in Jobs : (CancelJob(j) \/ DeleteJob(j) \/ NotifyAgain(j)) /\ OnlyTable
  \/ \E u \in updates : ApplyUpdateTwice(u) /\ OnlyTable
  \/ \E d \in Devices : \/ AskFails(d) \/ Closes(d) \/ PublishFails(d) \/ PatchThrows(d)
                        \/ Stop(d) \/ Crash(d)

Next ==
  \/ /\ \/ Post
        \/ Patches
        \/ Late
        \/ \E d \in Devices : HandOut(d) \/ Link(d) \/ Agent(d)
     /\ UNCHANGED faults
  \/ /\ faults < MaxFaults /\ faults' = faults + 1
     /\ Fault

Spec == Init /\ [][Next]_vars

\* The agent's timers fire, its promises go on, and the API answers requests.
\* Nothing is assumed of the broker, or of MQTT messages on their way.
FairSpec ==
  /\ Spec
  /\ WF_vars(Patches /\ UNCHANGED faults)
  /\ \A d \in Devices :
       /\ WF_vars(Work(d) /\ UNCHANGED faults)
       /\ WF_vars(Poll(d) /\ UNCHANGED faults)
       /\ WF_vars(Answered(d) /\ UNCHANGED faults)
       /\ WF_vars(MonitorTick(d) /\ UNCHANGED faults)
       /\ WF_vars(HandOut(d) /\ UNCHANGED faults)
-----------------------------------------------------------------------------
\* What the cloud shows as succeeded the device has got through, whichever
\* way, however late and in whatever order the reports arrive.
SuccessTrue == \A j \in Jobs, d \in Devices : rows[j][d] = "SUCCEEDED" => <<j, d>> \in passed

\* A device starts a job at most once for each copy of its notification and
\* once for jobs/next, although only the last job is known as a duplicate, also
\* when the agent restarts, an answer is lost or a request is handled too late.
StartsAccounted == \A j \in Jobs, d \in Devices : started[j][d] <= copies[d][j] + 1

\* HTTP is all the device has, for good.
HttpOnly(d) == boot[d] = "started" /\ ~needStop[d] /\ ~isConnected(d)

\* Polling takes over when MQTT is gone: a queued job is handed out, or dealt
\* with by other means.
PollingTakesOver ==
  \A j \in Jobs, d \in Devices : <>[]HttpOnly(d) => []<>(rows[j][d] # "QUEUED")
=============================================================================
