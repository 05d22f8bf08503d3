----------------------------- MODULE TargetRow -----------------------------
(***************************************************************************)
(* The target state of one device in the cloud: the row of                 *)
(* device_target_state, what its history trigger records, and the API       *)
(* operations that write it (api/src/db/models.ts, routes/devices.ts,       *)
(* routes/device-state.ts, services/device-sensor-sync.ts).                *)
(*                                                                         *)
(* apps and config are opaque values, 0 the empty object {}.  An operation *)
(* that reads the row before it writes it does so in two steps.            *)
(***************************************************************************)
EXTENDS Naturals

CONSTANTS
  MaxApps,      \* bound: the apps objects are 0 .. MaxApps
  MaxConfig,    \* bound: the config objects are 0 .. MaxConfig
  MaxVersion,   \* bound: the row's version stops here
  Clients       \* requests the API serves at the same time

ASSUME RowAssumption ==
  {MaxApps, MaxConfig, MaxVersion} \subseteq Nat \ {0}

Content == [apps : 0 .. MaxApps, config : 0 .. MaxConfig]
Empty == [apps |-> 0, config |-> 0]

Kinds == {"none", "write", "draft", "update", "deploy", "restore"}
Request == [kind : Kinds, content : Content]
NoRequest == [kind |-> "none", content |-> Empty]

VARIABLES
  row,      \* [version, content, needs, deployed]; version 0: no row yet,
            \* deployed: last_deployed_at is not NULL
  history,  \* contents of the snapshots with the newest deployed_at, which is
            \* all that cancel can read
  request   \* per client: what the request will write

rowVars == <<row, history, request>>

RowTypeOK ==
  /\ row \in [version : 0 .. MaxVersion, content : Content, needs : BOOLEAN,
              deployed : BOOLEAN]
  /\ history \subseteq Content
  /\ request \in [Clients -> Request]

RowInit ==
  /\ row = [version |-> 0, content |-> Empty, needs |-> FALSE, deployed |-> FALSE]
  /\ history = {}
  /\ request = [c \in Clients |-> NoRequest]

Exists == row.version > 0
-----------------------------------------------------------------------------
\* What a request that has read the row (or needs not) is going to write.
AddApp == {[row.content EXCEPT !.apps = a] : a \in 1 .. MaxApps}

ChangeApp == IF row.content.apps = 0 THEN {}
             ELSE {[row.content EXCEPT !.apps = a] : a \in 0 .. MaxApps}

PutTargetState == Content

SensorEdit == {[row.content EXCEPT !.config = k] : k \in 1 .. MaxConfig}

Pending == row.needs

\* Each client reads, checks and prepares; the checks are those of the handler.
Accepts(kind, content) ==
  \/ kind = "write" /\ content \in AddApp \cup ChangeApp \cup PutTargetState
  \/ kind = "draft" /\ content \in SensorEdit
  \/ kind = "update" /\ Exists /\ row.content.config # 0 /\ content \in SensorEdit
  \/ kind = "deploy" /\ Exists /\ (Pending \/ row.content.apps # 0) /\ content = Empty
  \/ kind = "restore" /\ Exists /\ Pending /\ content = Empty

Read(c) ==
  /\ request[c].kind = "none"
  /\ \E kind \in Kinds \ {"none"}, content \in Content :
       /\ Accepts(kind, content)
       /\ request' = [request EXCEPT ![c] = [kind |-> kind, content |-> content]]
  /\ UNCHANGED <<row, history>>

Done(c) == request' = [request EXCEPT ![c] = NoRequest]

\* DeviceTargetStateModel.set(): no caller asks for needs_deployment.
Set(c) ==
  /\ request[c].kind = "write"
  /\ row' = [row EXCEPT !.version = IF Exists THEN @ ELSE 1,
                        !.content = request[c].content, !.needs = FALSE]
  /\ Done(c) /\ UNCHANGED history

\* addSensor(): only the config is written over an existing row.
SaveDraft(c) ==
  /\ request[c].kind = "draft"
  /\ row' = [row EXCEPT !.version = IF Exists THEN @ ELSE 1, !.needs = TRUE,
                        !.content = IF Exists
                                    THEN [@ EXCEPT !.config = request[c].content.config]
                                    ELSE request[c].content]
  /\ Done(c) /\ UNCHANGED history

(***************************************************************************)
(* The trigger takes a snapshot whenever the version grows.  Its time is   *)
(* that of the row's last deployment, or now for want of one: the draft of *)
(* updateSensor() and deleteSensor() ties with the last deployment.        *)
(***************************************************************************)
UpdateSensors(c) ==
  /\ request[c].kind = "update"
  /\ row.version < MaxVersion
  /\ row' = [row EXCEPT !.version = @ + 1, !.needs = TRUE, !.content = request[c].content]
  /\ history' = {request[c].content} \cup IF row.deployed THEN history ELSE {}
  /\ Done(c)

\* Defect: the route and the model both count the version up.
DeployTwice(c) ==
  /\ request[c].kind = "deploy"
  /\ row.version < MaxVersion
  /\ row' = [row EXCEPT !.version = @ + 2, !.needs = FALSE, !.deployed = TRUE]
  /\ history' = {row.content}
  /\ Done(c)

\* DeviceTargetStateModel.deploy(): whatever is in the row by now.
Deploy(c) ==
  /\ request[c].kind = "deploy"
  /\ row.version < MaxVersion
  /\ row' = [row EXCEPT !.version = @ + 1, !.needs = FALSE, !.deployed = TRUE]
  /\ history' = {row.content}
  /\ Done(c)

\* deploy/cancel: the newest snapshot, any of them if they tie.
Cancel(c) ==
  /\ request[c].kind = "restore"
  /\ row' \in {[row EXCEPT !.needs = FALSE, !.content = restored] :
                 restored \in IF history = {} THEN {row.content} ELSE history}
  /\ Done(c) /\ UNCHANGED history

\* DELETE target-state.
Clear ==
  /\ Exists
  /\ row' = [row EXCEPT !.content = Empty]
  /\ UNCHANGED <<history, request>>

RowNext ==
  \/ Clear
  \/ \E c \in Clients : \/ Read(c) \/ Set(c) \/ SaveDraft(c) \/ UpdateSensors(c)
                        \/ Deploy(c) \/ Cancel(c)
=============================================================================
