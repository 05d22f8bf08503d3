--------------------------- MODULE DeviceRegistry ---------------------------
(***************************************************************************)
(* A device from its first start to the cloud's view of it: provisioning,  *)
(* its reports, the operators' edits, and the heartbeat monitor, over one  *)
(* row.                                                                    *)
(***************************************************************************)
EXTENDS Provisioning, Heartbeat

VARIABLE published   \* the device has published reports; one may always be on its way

vars == <<rowVars, provisioningVars, heartbeatVars, published>>

TypeOK == RowTypeOK /\ ProvisioningTypeOK /\ HeartbeatTypeOK /\ published \in BOOLEAN

Init == RowInit /\ ProvisioningInit /\ HeartbeatInit /\ published = FALSE

apiUp == api # "down"

\* The row may be dated: then it is not older than the last check.
Dates == seen' = TRUE /\ UNCHANGED <<api, lastCheck, due, missed>>
-----------------------------------------------------------------------------
\* A poll, a report or logs by HTTP: a provisioned agent sends, with its key.
Reports ==
  /\ info.provisioned /\ apiUp /\ deviceAuth(info.key)
  /\ getOrCreate /\ heard' = TRUE /\ Dates
  /\ UNCHANGED <<provisioningVars, published>>

\* A report by MQTT, the primary way, which a provisioned agent publishes
Publishes ==
  /\ info.provisioned /\ ~published /\ published' = TRUE
  /\ UNCHANGED <<rowVars, provisioningVars, heartbeatVars>>

\* and the API takes in however late it comes, from a disabled device, too
ReportArrives ==
  /\ published /\ apiUp
  /\ getOrCreate /\ heard' = TRUE /\ Dates
  /\ UNCHANGED <<provisioningVars, published>>

\* An operator edits the target state of a device that the dashboard lists:
\* DeviceTargetStateModel.set().
Edits ==
  /\ apiUp /\ row.registered /\ getOrCreate /\ Dates
  /\ UNCHANGED <<heard, provisioningVars, published>>

\* Steps of the agent alone
Agent ==
  /\ \/ initialize
     \/ provision
     \/ Registered
     \/ Exchanged /\ apiUp
     \/ ProvisionFails
     \/ reset
     \/ factoryReset
     \/ AgentCrash
  /\ UNCHANGED <<rowVars, heartbeatVars, published>>

\* The API handles the registration of an attempt,
Registration(a) ==
  /\ apiUp /\ (Refuse(a) \/ Accept(a) \/ Register(a))
  /\ UNCHANGED <<disk, info, pc, keys, attempts, wiped, heartbeatVars, published>>

\* and nobody waits for what follows: a target state is set, unless the device
\* has one by then or a query fails.
createDefaultTargetState(a) ==
  /\ a \in defaults /\ defaults' = defaults \ {a}
  /\ \/ getOrCreate /\ Dates
     \/ UNCHANGED <<row, silent, shown, heartbeatVars>>
  /\ UNCHANGED <<heard, disk, info, pc, keys, attempts, request, wiped, published>>

Monitor ==
  /\ FirstCheck \/ IntervalFires
  /\ UNCHANGED <<provisioningVars, published>>

\* An operator disables or enables the device.
Operator ==
  /\ apiUp /\ \E to \in BOOLEAN : setActive(to)
  /\ UNCHANGED <<provisioningVars, heartbeatVars, published>>

ApiStarts == handleApiRestart /\ UNCHANGED <<provisioningVars, published>>

ApiStops ==
  /\ stop \/ ApiCrash
  /\ Dropped
  /\ UNCHANGED <<disk, info, pc, keys, attempts, wiped, published>>

TimePasses == Tick /\ UNCHANGED <<provisioningVars, published>>

Next ==
  \/ Reports \/ Publishes \/ ReportArrives
  \/ Agent
  \/ \E a \in 1 .. MaxAttempts : Registration(a) \/ createDefaultTargetState(a)
  \/ Operator \/ Edits
  \/ Monitor
  \/ checkNow /\ UNCHANGED <<provisioningVars, published>>
  \/ ApiStarts
  \/ ApiStops
  \/ TimePasses

Spec == Init /\ [][Next]_vars

\* Time passes and the API's timer fires.
FairSpec == Spec /\ WF_vars(TimePasses) /\ WF_vars(Monitor)
-----------------------------------------------------------------------------
\* A device that takes itself for provisioned can prove who it is, whatever
\* requests and answers were lost or late and whenever it restarted: every
\* attempt sent the one key that was saved first.  A factory reset ends that.
KeyAgreed == disk.provisioned /\ ~wiped => Matches(disk.key)

\* The row is not shown online for longer than the threshold and an interval
\* after what last showed it online: a report, an edit or a registration, also a
\* second one that comes late, and also when the API was down.  A row that
\* nothing has dated is shown online for ever.
OfflineInTime ==
  api = "running" /\ missed = 0 /\ row.online /\ silent # Never
    => shown <= offlineThreshold + checkInterval

\* A device that got through since the API came up is shown offline only when
\* it has been silent for longer than the threshold.
OfflineOnlySilent == heard /\ ~row.online => silent > offlineThreshold

\* Once nothing dates the row any more it goes offline for good, whatever
\* registers, fails or restarts then; unless nothing ever dated it.
SilentShownOffline ==
  <>[](apiUp /\ silent # 0) => <>[](~row.online \/ silent = Never)
=============================================================================
