------------------------ MODULE DeviceRegistryProofs ------------------------
(***************************************************************************)
(* Proofs about DeviceRegistry, for any number of keys and attempts and    *)
(* any interval, threshold and number of failing checks.                   *)
(***************************************************************************)
EXTENDS DeviceRegistry, TLAPS

Attempts == 1 .. MaxAttempts

\* A request carries a key.
RequestKeyed == \A a \in Attempts : request[a].stage # "none" => request[a].key \in Keys

TypeInv == TypeOK /\ RequestKeyed

\* Before the first start nobody knows the device.
Started ==
  ~disk.known =>
    /\ pc = "off" /\ ~disk.provisioned /\ ~row.registered
    /\ \A a \in Attempts : request[a].stage = "none"

InMemory ==
  pc # "off" =>
    info.known /\ info.provisioned = disk.provisioned /\ (~wiped => info.key = disk.key)

\* The key on disk is the one of every request and of the row.
OneKey ==
  ~wiped =>
    /\ disk.known => disk.key # NoKey
    /\ \A a \in Attempts : request[a].stage # "none" => request[a].key = disk.key
    /\ row.registered => row.key = disk.key

KeyInv == Started /\ InMemory /\ OneKey /\ (disk.provisioned => row.registered)

HeardInv ==
  heard => api # "down" /\ silent # Never /\ (row.online \/ silent > offlineThreshold)

\* Who is dated has been shown online, at that date or later.
ShownLast == silent # Never => shown # Never /\ shown <= silent

\* What is left until the next check bounds how long ago that was.
InTimeInv ==
  /\ ShownLast
  /\ api = "running" /\ missed = 0 /\ row.online /\ silent # Never
       => shown <= offlineThreshold + checkInterval - due
-----------------------------------------------------------------------------
Requests == [Attempts -> [stage : Stages, key : Keys \cup {NoKey}]]

\* The values the variables start with are of their types.
LEMMA Bounds ==
  /\ 0 \in Ages /\ Never \in Ages /\ 0 # Never
  /\ 0 \in 0 .. MaxKeys /\ 0 \in 0 .. MaxAttempts /\ 0 \in 0 .. MaxMissed
  /\ 0 \in 0 .. checkInterval /\ checkInterval \in 0 .. checkInterval
  /\ NoInfo \in Infos
<1>1. 0 \in Ages /\ Never \in Ages /\ 0 # Never /\ 0 \in 0 .. MaxKeys /\ 0 \in 0 .. MaxAttempts
  BY RowAssumption, AttemptsAssumption DEF Ages
<1>2. checkInterval \in Nat /\ MaxMissed \in Nat
  BY HeartbeatAssumption
<1>3. NoInfo \in Infos
  BY DEF NoInfo, Infos
<1>4. QED
  BY <1>1, <1>2, <1>3

LEMMA OlderType == \A age \in Ages : Older(age) \in Ages
  BY RowAssumption DEF Ages, Older

\* A step of the API on a request changes the stage of that one.
LEMMA StageChanged ==
  ASSUME NEW a \in Attempts, NEW to \in Stages, request \in Requests, Stage(a, to)
  PROVE  /\ request' \in Requests
         /\ request'[a].stage = to
         /\ \A b \in Attempts : /\ request'[b].key = request[b].key
                                /\ b # a => request'[b].stage = request[b].stage
  BY DEF Stage, Requests

\* The calls that date the row: a report, an edit, a default target state
Dated == getOrCreate /\ Dates

LEMMA DatedRow ==
  ASSUME TypeInv, Dated
  PROVE  /\ row'.online /\ row'.registered = row.registered /\ row'.key = row.key
         /\ silent' = 0 /\ shown' = 0
         /\ UNCHANGED <<api, due, missed>>
         /\ heard' \in BOOLEAN => RowTypeOK'
         /\ HeartbeatTypeOK'
<1> USE DEF TypeInv, TypeOK
<1>1. row' = [row EXCEPT !.online = TRUE] /\ silent' = 0 /\ shown' = 0
  BY DEF Dated, getOrCreate
<1>2. row'.online /\ row'.registered = row.registered /\ row'.key = row.key
  BY <1>1 DEF RowTypeOK
<1>3. heard' \in BOOLEAN => RowTypeOK'
  BY <1>1, Bounds DEF RowTypeOK
<1>4. HeartbeatTypeOK' /\ UNCHANGED <<api, due, missed>>
  BY DEF Dated, Dates, HeartbeatTypeOK
<1>5. QED
  BY <1>1, <1>2, <1>3, <1>4

\* Which of the steps those are.
LEMMA DatedBy ==
  ASSUME NEW a \in Attempts, createDefaultTargetState(a)
  PROVE  Dated \/ UNCHANGED <<rowVars, heartbeatVars>>
  BY DEF createDefaultTargetState, Dated, rowVars

LEMMA TypeInit == Init => TypeInv
<1> SUFFICES ASSUME Init PROVE TypeInv
  OBVIOUS
<1>1. RowTypeOK
  BY DEF Init, RowInit, RowTypeOK, Ages
<1>2. ProvisioningTypeOK /\ RequestKeyed
  BY Bounds DEF Init, ProvisioningInit, ProvisioningTypeOK, RequestKeyed, Stages, Attempts
<1>3. HeartbeatTypeOK
  BY Bounds DEF Init, HeartbeatInit, HeartbeatTypeOK
<1>4. QED
  BY <1>1, <1>2, <1>3 DEF Init, TypeInv, TypeOK

\* The agent: its record, its memory and the requests it sends.
LEMMA TypeAgent == TypeInv /\ Agent => TypeInv'
<1> SUFFICES ASSUME TypeInv, Agent PROVE TypeInv'
  OBVIOUS
<1> USE DEF TypeInv, TypeOK
<1>1. RowTypeOK' /\ HeartbeatTypeOK'
  BY DEF Agent, rowVars, heartbeatVars, RowTypeOK, HeartbeatTypeOK, TypeInv, TypeOK
<1>2. ProvisioningTypeOK' /\ RequestKeyed'
  <2> USE DEF ProvisioningTypeOK, RequestKeyed
  <2>k. keys < MaxKeys => keys + 1 \in Keys /\ keys + 1 \in 0 .. MaxKeys
    BY RowAssumption DEF Keys
  <2>1. CASE initialize
    <3>1. CASE disk.known
      BY <2>1, <3>1 DEF initialize
    <3>2. CASE ~disk.known
      <4>1. keys < MaxKeys /\ keys' = keys + 1
        BY <2>1, <3>2 DEF initialize
      <4>2. [key |-> keys + 1, provisioned |-> FALSE, known |-> TRUE] \in Infos
        BY <2>k, <4>1 DEF Infos
      <4>3. QED
        BY <2>1, <2>k, <3>2, <4>1, <4>2 DEF initialize, Save
    <3>3. QED
      BY <3>1, <3>2
  <2>2. CASE provision
    <3>1. /\ attempts + 1 \in Attempts /\ attempts' = attempts + 1
          /\ pc' = "registering" /\ UNCHANGED <<disk, defaults, wiped>>
      BY <2>2, AttemptsAssumption DEF provision, Attempts
    <3>2. info' \in Infos /\ info'.key \in Keys /\ keys' \in 0 .. MaxKeys
      <4>1. CASE info.key # NoKey /\ UNCHANGED <<info, keys>>
        BY <4>1 DEF Infos
      <4>2. CASE keys < MaxKeys /\ keys' = keys + 1 /\ info' = [info EXCEPT !.key = keys + 1]
        BY <2>k, <4>2 DEF Infos
      <4>3. QED
        BY <2>2, <4>1, <4>2 DEF provision
    <3>3. request' = [request EXCEPT ![attempts + 1] = [stage |-> "sent", key |-> info'.key]]
      BY <2>2 DEF provision
    <3>4. request' \in Requests
      BY <3>1, <3>2, <3>3 DEF Requests, Attempts, Stages
    <3>5. \A a \in Attempts : request'[a].stage # "none" => request'[a].key \in Keys
      BY <3>1, <3>2, <3>3 DEF Attempts
    <3>6. QED
      BY <3>1, <3>2, <3>4, <3>5 DEF Requests, Attempts
  <2>3. CASE Registered
    BY <2>3 DEF Registered
  <2>4. CASE Exchanged
    BY <2>4 DEF Exchanged, Save, Infos
  <2>5. CASE ProvisionFails
    BY <2>5 DEF ProvisionFails
  <2>6. CASE reset
    BY <2>6 DEF reset, Save, Infos
  <2>7. CASE factoryReset
    BY <2>7 DEF factoryReset, Save, Infos
  <2>8. CASE AgentCrash
    BY <2>8 DEF AgentCrash, NoInfo, Infos
  <2>9. QED
    BY <2>1, <2>2, <2>3, <2>4, <2>5, <2>6, <2>7, <2>8 DEF Agent
<1>3. published' \in BOOLEAN
  BY DEF Agent
<1>4. QED
  BY <1>1, <1>2, <1>3

LEMMA TypeRegistration ==
  ASSUME TypeInv, NEW a \in Attempts, Registration(a)
  PROVE  TypeInv'
<1> USE DEF TypeInv, TypeOK
<1>0. request \in Requests
  BY DEF ProvisioningTypeOK, Requests, Attempts
<1>1. HeartbeatTypeOK'
  BY DEF Registration, heartbeatVars, HeartbeatTypeOK
<1>2. request[a].stage # "none"
  BY DEF Registration, Refuse, Accept, Register
<1>3. PICK to \in Stages : Stage(a, to)
  BY DEF Registration, Refuse, Accept, Register, Stages
<1>4. ProvisioningTypeOK' /\ RequestKeyed'
  <2>1. request' \in Requests /\ RequestKeyed'
    BY <1>0, <1>2, <1>3, StageChanged DEF RequestKeyed
  <2>2. UNCHANGED <<disk, info, pc, keys, attempts, wiped>>
    BY DEF Registration
  <2>3. defaults' \subseteq Attempts
    <3>1. defaults' = defaults \/ defaults' = defaults \cup {a}
      BY DEF Registration, Refuse, Accept, Register
    <3>2. QED
      BY <3>1 DEF ProvisioningTypeOK, Attempts
  <2>4. QED
    BY <2>1, <2>2, <2>3 DEF ProvisioningTypeOK, Requests, Attempts
<1>5. RowTypeOK'
  <2>1. CASE UNCHANGED rowVars
    BY <2>1 DEF rowVars, RowTypeOK
  <2>2. CASE upsert(request[a].key)
    <3>1. /\ row' \in [registered : BOOLEAN, key : Keys \cup {NoKey},
                       online : BOOLEAN, active : BOOLEAN]
          /\ row'.key \in Keys
      BY <1>2, <2>2 DEF upsert, RequestKeyed
    <3>2. shown' \in Ages /\ UNCHANGED <<silent, heard>>
      BY <2>2, Bounds DEF upsert
    <3>3. QED
      BY <3>1, <3>2 DEF RowTypeOK
  <2>3. QED
    BY <2>1, <2>2 DEF Registration, Refuse, Accept, Register
<1>6. published' \in BOOLEAN
  BY DEF Registration
<1>7. QED
  BY <1>1, <1>4, <1>5, <1>6

\* What the monitor's checks leave of the row and of its own state.
LEMMA TypeCheck ==
  ASSUME TypeInv, checkDevices \/ CheckFails
  PROVE  RowTypeOK' /\ lastCheck' \in Ages /\ seen' \in BOOLEAN /\ missed' \in 0 .. MaxMissed
<1> USE DEF TypeInv, TypeOK, HeartbeatTypeOK
<1>1. row' = row \/ row' = [row EXCEPT !.online = @ /\ ~(silent # Never /\ silent > offlineThreshold)]
  BY DEF checkDevices, CheckFails, markOffline
<1>2. UNCHANGED <<silent, shown, heard>>
  BY DEF checkDevices, CheckFails
<1>3. RowTypeOK'
  BY <1>1, <1>2 DEF RowTypeOK
<1>4. CASE checkDevices
  BY <1>3, <1>4, Bounds DEF checkDevices, saveLastCheckTime
<1>5. CASE CheckFails
  <2>1. MaxMissed \in Nat
    BY HeartbeatAssumption
  <2>2. missed' \in 0 .. MaxMissed /\ UNCHANGED <<lastCheck, seen>>
    BY <1>5, <2>1 DEF CheckFails
  <2>3. QED
    BY <1>3, <2>2
<1>6. QED
  BY <1>4, <1>5

LEMMA TypeStep == TypeInv /\ [Next]_vars => TypeInv'
<1> SUFFICES ASSUME TypeInv, [Next]_vars PROVE TypeInv'
  OBVIOUS
<1>p. UNCHANGED provisioningVars => ProvisioningTypeOK' /\ RequestKeyed'
  BY DEF provisioningVars, TypeInv, TypeOK, ProvisioningTypeOK, RequestKeyed
<1>h. UNCHANGED heartbeatVars => HeartbeatTypeOK'
  BY DEF heartbeatVars, TypeInv, TypeOK, HeartbeatTypeOK
<1>o. UNCHANGED published => published' \in BOOLEAN
  BY DEF TypeInv, TypeOK
<1>1. CASE Reports \/ ReportArrives \/ Edits
  <2>1. Dated /\ UNCHANGED <<provisioningVars, published>>
    BY <1>1 DEF Reports, ReportArrives, Edits, Dated
  <2>2. heard' \in BOOLEAN
    BY <1>1 DEF Reports, ReportArrives, Edits, TypeInv, TypeOK, RowTypeOK
  <2>3. QED
    BY <1>p, <1>o, <2>1, <2>2, DatedRow DEF TypeInv, TypeOK
<1>2. CASE Agent
  BY <1>2, TypeAgent
<1>3. ASSUME NEW a \in Attempts, Registration(a) \/ createDefaultTargetState(a)
      PROVE  TypeInv'
  <2>1. CASE Registration(a)
    BY <2>1, TypeRegistration
  <2>2. CASE createDefaultTargetState(a)
    <3>1. RowTypeOK' /\ HeartbeatTypeOK'
      <4>1. heard' \in BOOLEAN
        BY <2>2 DEF createDefaultTargetState, TypeInv, TypeOK, RowTypeOK
      <4>2. CASE Dated
        BY <4>1, <4>2, DatedRow
      <4>3. CASE UNCHANGED <<rowVars, heartbeatVars>>
        BY <4>3, <1>h DEF rowVars, RowTypeOK, TypeInv, TypeOK
      <4>4. QED
        BY <2>2, <4>2, <4>3, DatedBy
    <3>2. ProvisioningTypeOK' /\ RequestKeyed' /\ published' \in BOOLEAN
      BY <2>2 DEF createDefaultTargetState, ProvisioningTypeOK, RequestKeyed, TypeInv, TypeOK
    <3>3. QED
      BY <3>1, <3>2 DEF TypeInv, TypeOK
  <2>3. QED
    BY <1>3, <2>1, <2>2
<1>4. CASE Operator
  <2>1. PICK to \in BOOLEAN : setActive(to)
    BY <1>4 DEF Operator
  <2>2. RowTypeOK'
    BY <2>1 DEF setActive, RowTypeOK, TypeInv, TypeOK
  <2>3. QED
    BY <1>4, <1>p, <1>h, <1>o, <2>2 DEF Operator, TypeInv, TypeOK
<1>5. CASE Monitor \/ (checkNow /\ UNCHANGED <<provisioningVars, published>>)
  <2>1. checkDevices \/ CheckFails
    BY <1>5 DEF Monitor, FirstCheck, IntervalFires, checkNow
  <2>2. api' \in {"down", "starting", "running"} /\ due' \in 0 .. checkInterval
    BY <1>5, Bounds
       DEF Monitor, FirstCheck, IntervalFires, checkNow, TypeInv, TypeOK, HeartbeatTypeOK
  <2>3. UNCHANGED <<provisioningVars, published>>
    BY <1>5 DEF Monitor
  <2>4. QED
    BY <1>p, <1>o, <2>1, <2>2, <2>3, TypeCheck DEF TypeInv, TypeOK, HeartbeatTypeOK
<1>6. CASE ApiStarts
  <2>1. PICK stale \in BOOLEAN : markOffline(stale)
    BY <1>6 DEF ApiStarts, handleApiRestart
  <2>2. RowTypeOK'
    BY <1>6, <2>1 DEF ApiStarts, handleApiRestart, markOffline, RowTypeOK, TypeInv, TypeOK
  <2>3. HeartbeatTypeOK'
    BY <1>6 DEF ApiStarts, handleApiRestart, HeartbeatTypeOK, TypeInv, TypeOK
  <2>4. QED
    BY <1>6, <1>p, <1>o, <2>2, <2>3 DEF ApiStarts, TypeInv, TypeOK
<1>7. CASE ApiStops
  <2>1. RowTypeOK'
    BY <1>7 DEF ApiStops, stop, ApiCrash, Down, RowTypeOK, TypeInv, TypeOK
  <2>2. HeartbeatTypeOK'
    BY <1>7, Bounds
       DEF ApiStops, stop, ApiCrash, Down, saveLastCheckTime, HeartbeatTypeOK, TypeInv, TypeOK
  <2>3. ProvisioningTypeOK' /\ RequestKeyed'
    BY <1>7 DEF ApiStops, Dropped, ProvisioningTypeOK, RequestKeyed, Attempts, Stages,
                TypeInv, TypeOK
  <2>4. QED
    BY <1>7, <1>o, <2>1, <2>2, <2>3 DEF ApiStops, TypeInv, TypeOK
<1>8. CASE TimePasses
  <2>1. RowTypeOK'
    BY <1>8, OlderType DEF TimePasses, Tick, RowTypeOK, TypeInv, TypeOK
  <2>2. HeartbeatTypeOK'
    BY <1>8, OlderType, HeartbeatAssumption
       DEF TimePasses, Tick, HeartbeatTypeOK, TypeInv, TypeOK
  <2>3. QED
    BY <1>8, <1>p, <1>o, <2>1, <2>2 DEF TimePasses, TypeInv, TypeOK
<1>9. CASE Publishes
  BY <1>9, <1>p, <1>h DEF Publishes, rowVars, RowTypeOK, TypeInv, TypeOK
<1>10. CASE UNCHANGED vars
  BY <1>10, <1>p, <1>h, <1>o DEF vars, rowVars, RowTypeOK, TypeInv, TypeOK
<1>11. QED
  BY <1>1, <1>2, <1>3, <1>4, <1>5, <1>6, <1>7, <1>8, <1>9, <1>10 DEF Next, Attempts

\* Every variable of the device, the agent and the API keeps its type, for every
\* choice of the constants.
THEOREM TypeCorrect == Spec => []TypeOK
<1>1. TypeInv => TypeOK
  BY DEF TypeInv
<1>2. QED
  BY <1>1, TypeInit, TypeStep, PTL DEF Spec
-----------------------------------------------------------------------------
(***************************************************************************)
(* KeyAgreed.  It is not inductive: that a later answer, or an attempt that *)
(* is taken up again, finds the same key rests on the key being saved       *)
(* before any request carries it, and on memory and disk agreeing on it.    *)
(***************************************************************************)
LEMMA KeyInit == Init => KeyInv
  BY DEF Init, RowInit, ProvisioningInit, NoInfo, KeyInv, Started, InMemory, OneKey, Attempts

\* Steps that leave the agent alone, and of the row all but online and active.
LEMMA KeyKept ==
  ASSUME KeyInv, UNCHANGED <<disk, info, pc, wiped>>,
         row'.registered = row.registered, row'.key = row.key,
         \A a \in Attempts : /\ request'[a].key = request[a].key
                             /\ request'[a].stage # "none" => request[a].stage # "none"
  PROVE  KeyInv'
  BY DEF KeyInv, Started, InMemory, OneKey

LEMMA KeyAgent == TypeInv /\ KeyInv /\ Agent => KeyInv'
<1> SUFFICES ASSUME TypeInv, KeyInv, Agent PROVE KeyInv'
  OBVIOUS
<1> USE DEF KeyInv, Started, InMemory, OneKey
<1>r. UNCHANGED row
  BY DEF Agent, rowVars
<1>t. disk \in Infos /\ info \in Infos
  BY DEF TypeInv, TypeOK, ProvisioningTypeOK
<1>1. CASE initialize
  <2>1. CASE disk.known
    BY <1>1, <1>r, <2>1 DEF initialize
  <2>2. CASE ~disk.known
    <3>1. keys \in Nat /\ keys + 1 # NoKey
      BY DEF TypeInv, TypeOK, ProvisioningTypeOK, NoKey
    <3>2. /\ pc' = "idle" /\ UNCHANGED <<request, wiped>>
          /\ disk' = [key |-> keys + 1, provisioned |-> FALSE, known |-> TRUE]
          /\ info' = disk'
      BY <1>1, <2>2 DEF initialize, Save
    <3>3. QED
      BY <1>r, <2>2, <3>1, <3>2
  <2>3. QED
    BY <2>1, <2>2
<1>2. CASE provision
  <2>1. disk.known /\ pc' = "registering" /\ UNCHANGED <<disk, wiped>>
    BY <1>2 DEF provision
  <2>2. /\ info'.known = info.known /\ info'.provisioned = info.provisioned
        /\ ~wiped => info'.key = disk.key
    <3>1. CASE info.key # NoKey /\ UNCHANGED <<info, keys>>
      BY <1>2, <3>1 DEF provision
    <3>2. CASE info.key = NoKey /\ info' = [info EXCEPT !.key = keys + 1]
      BY <1>2, <1>t, <2>1, <3>2 DEF provision, Infos
    <3>3. QED
      BY <1>2, <3>1, <3>2 DEF provision
  <2>3. \A a \in Attempts :
          request'[a] \in {request[a], [stage |-> "sent", key |-> info'.key]}
    BY <1>2 DEF provision, TypeInv, TypeOK, ProvisioningTypeOK, Attempts
  <2>4. pc # "off"
    BY <1>2 DEF provision
  <2>5. QED
    BY <1>r, <2>1, <2>2, <2>3, <2>4
<1>3. CASE Registered
  BY <1>3, <1>r DEF Registered
<1>4. CASE Exchanged
  <2>1. /\ disk' = [info EXCEPT !.provisioned = TRUE] /\ info' = disk'
        /\ pc # "off" /\ row.registered /\ UNCHANGED <<request, wiped>>
    BY <1>4 DEF Exchanged, Save, Matches
  <2>2. disk'.key = info.key /\ disk'.known = info.known
    BY <1>t, <2>1 DEF Infos
  <2>3. QED
    BY <1>r, <2>1, <2>2
<1>5. CASE ProvisionFails
  BY <1>5, <1>r DEF ProvisionFails
<1>6. CASE reset
  <2>1. /\ disk' = [info EXCEPT !.provisioned = FALSE] /\ info' = disk'
        /\ pc # "off" /\ UNCHANGED <<request, wiped>>
    BY <1>6 DEF reset, Save
  <2>2. disk'.key = info.key /\ disk'.known = info.known /\ ~disk'.provisioned
    BY <1>t, <2>1 DEF Infos
  <2>3. QED
    BY <1>r, <2>1, <2>2
<1>7. CASE factoryReset
  <2>1. /\ disk' = [info EXCEPT !.provisioned = FALSE, !.key = NoKey] /\ info' = disk'
        /\ pc # "off" /\ wiped'
    BY <1>7 DEF factoryReset, Save
  <2>2. disk'.known = info.known /\ ~disk'.provisioned
    BY <1>t, <2>1 DEF Infos
  <2>3. QED
    BY <1>r, <2>1, <2>2
<1>8. CASE AgentCrash
  BY <1>8, <1>r DEF AgentCrash
<1>9. QED
  BY <1>1, <1>2, <1>3, <1>4, <1>5, <1>6, <1>7, <1>8 DEF Agent

LEMMA KeyRegistration ==
  ASSUME TypeInv, KeyInv, NEW a \in Attempts, Registration(a)
  PROVE  KeyInv'
<1>1. request[a].stage # "none" /\ UNCHANGED <<disk, info, pc, wiped>>
  BY DEF Registration, Refuse, Accept, Register
<1>2. PICK to \in Stages : Stage(a, to)
  BY DEF Registration, Refuse, Accept, Register, Stages
<1>3. request \in Requests
  BY DEF TypeInv, TypeOK, ProvisioningTypeOK, Requests, Attempts
<1>4. \A b \in Attempts : /\ request'[b].key = request[b].key
                          /\ request'[b].stage # "none" => request[b].stage # "none"
  BY <1>1, <1>2, <1>3, StageChanged
<1>5. CASE UNCHANGED rowVars
  BY <1>1, <1>4, <1>5, KeyKept DEF rowVars
<1>6. CASE upsert(request[a].key)
  <2>1. row'.registered /\ row'.key = request[a].key
    BY <1>6 DEF upsert
  <2>2. QED
    BY <1>1, <1>4, <2>1 DEF KeyInv, Started, InMemory, OneKey
<1>7. QED
  BY <1>5, <1>6 DEF Registration, Refuse, Accept, Register

LEMMA KeyStep == TypeInv /\ KeyInv /\ [Next]_vars => KeyInv'
<1> SUFFICES ASSUME TypeInv, KeyInv, [Next]_vars PROVE KeyInv'
  OBVIOUS
<1>t. row \in [registered : BOOLEAN, key : Keys \cup {NoKey},
               online : BOOLEAN, active : BOOLEAN]
  BY DEF TypeInv, TypeOK, RowTypeOK
<1>1. CASE Agent
  BY <1>1, KeyAgent
<1>2. ASSUME NEW a \in Attempts, Registration(a) \/ createDefaultTargetState(a)
      PROVE  KeyInv'
  <2>1. CASE Registration(a)
    BY <2>1, KeyRegistration
  <2>2. CASE createDefaultTargetState(a)
    <3>1. row'.registered = row.registered /\ row'.key = row.key
      BY <2>2, DatedBy, DatedRow DEF rowVars
    <3>2. UNCHANGED <<disk, info, pc, request, wiped>>
      BY <2>2 DEF createDefaultTargetState
    <3>3. QED
      BY <3>1, <3>2, KeyKept
  <2>3. QED
    BY <1>2, <2>1, <2>2
<1>3. CASE Reports \/ ReportArrives \/ Edits
  <2>1. Dated /\ UNCHANGED provisioningVars
    BY <1>3 DEF Reports, ReportArrives, Edits, Dated
  <2>2. QED
    BY <2>1, DatedRow, KeyKept DEF provisioningVars
<1>4. CASE Operator
  BY <1>4, <1>t, KeyKept DEF Operator, setActive, provisioningVars
<1>5. CASE Monitor \/ (checkNow /\ UNCHANGED <<provisioningVars, published>>)
  <2>1. checkDevices \/ CheckFails
    BY <1>5 DEF Monitor, FirstCheck, IntervalFires, checkNow
  <2>2. row'.registered = row.registered /\ row'.key = row.key
    BY <1>t, <2>1 DEF checkDevices, CheckFails, markOffline
  <2>3. QED
    BY <1>5, <2>2, KeyKept DEF Monitor, provisioningVars
<1>6. CASE ApiStarts
  <2>1. row'.registered = row.registered /\ row'.key = row.key
    BY <1>6, <1>t DEF ApiStarts, handleApiRestart, markOffline
  <2>2. QED
    BY <1>6, <2>1, KeyKept DEF ApiStarts, provisioningVars
<1>7. CASE ApiStops
  <2>1. UNCHANGED row
    BY <1>7 DEF ApiStops, stop, ApiCrash, Down
  <2>2. \A a \in Attempts : /\ request'[a].key = request[a].key
                            /\ request'[a].stage # "none" => request[a].stage # "none"
    BY <1>7 DEF ApiStops, Dropped, Attempts, TypeInv, TypeOK, ProvisioningTypeOK
  <2>3. QED
    BY <1>7, <2>1, <2>2, KeyKept DEF ApiStops
<1>8. CASE TimePasses \/ Publishes
  BY <1>8, KeyKept DEF TimePasses, Tick, Publishes, rowVars, provisioningVars
<1>9. CASE UNCHANGED vars
  BY <1>9, KeyKept DEF vars, rowVars, provisioningVars
<1>10. QED
  BY <1>1, <1>2, <1>3, <1>4, <1>5, <1>6, <1>7, <1>8, <1>9 DEF Next, Attempts

\* A device that takes itself for provisioned, and was not factory reset, has the
\* key of its row, whatever was lost, late or repeated and wherever the agent or
\* the API died.
THEOREM KeyAgreedCorrect == Spec => []KeyAgreed
<1>1. KeyInv => KeyAgreed
  BY DEF KeyInv, OneKey, KeyAgreed, Matches
<1>2. QED
  BY <1>1, TypeInit, TypeStep, KeyInit, KeyStep, PTL DEF Spec
-----------------------------------------------------------------------------
(***************************************************************************)
(* The heartbeat monitor: what a device that got a request through since   *)
(* the API came up is shown as.                                            *)
(***************************************************************************)
\* In minutes: an age grows with a tick, or stays where counting ends.
LEMMA OlderBy ==
  ASSUME NEW age \in Ages, age # Never
  PROVE  age \in Nat /\ Older(age) \in {age, age + 1} /\ Older(age) # Never
  BY RowAssumption DEF Ages, Older

LEMMA Threshold == offlineThreshold \in Nat /\ checkInterval \in Nat
  BY HeartbeatAssumption

LEMMA HeardStep == TypeInv /\ HeardInv /\ [Next]_vars => HeardInv'
<1> SUFFICES ASSUME TypeInv, HeardInv, [Next]_vars PROVE HeardInv'
  OBVIOUS
<1> USE DEF HeardInv
<1>t. /\ row \in [registered : BOOLEAN, key : Keys \cup {NoKey},
                  online : BOOLEAN, active : BOOLEAN]
      /\ silent \in Ages
  BY DEF TypeInv, TypeOK, RowTypeOK
<1>1. CASE Agent
  BY <1>1 DEF Agent, rowVars, heartbeatVars
<1>2. ASSUME NEW a \in Attempts, Registration(a) \/ createDefaultTargetState(a)
      PROVE  HeardInv'
  <2>1. CASE Registration(a)
    <3>1. UNCHANGED <<silent, heard, api>> /\ (row' = row \/ row'.online)
      BY <2>1 DEF Registration, Refuse, Accept, Register, upsert, rowVars, heartbeatVars
    <3>2. QED
      BY <3>1
  <2>2. CASE createDefaultTargetState(a)
    <3>1. UNCHANGED heard
      BY <2>2 DEF createDefaultTargetState
    <3>2. CASE Dated
      BY <3>1, <3>2, DatedRow, Bounds
    <3>3. CASE UNCHANGED <<rowVars, heartbeatVars>>
      BY <3>3 DEF rowVars, heartbeatVars
    <3>4. QED
      BY <2>2, <3>2, <3>3, DatedBy
  <2>3. QED
    BY <1>2, <2>1, <2>2
<1>3. CASE Reports \/ ReportArrives \/ Edits
  <2>1. Dated /\ api # "down"
    BY <1>3 DEF Reports, ReportArrives, Edits, Dated, apiUp
  <2>2. QED
    BY <2>1, DatedRow, Bounds
<1>4. CASE Operator
  <2>1. row'.online = row.online /\ UNCHANGED <<silent, heard, api>>
    BY <1>4, <1>t DEF Operator, setActive, heartbeatVars
  <2>2. QED
    BY <2>1
<1>5. CASE Monitor \/ (checkNow /\ UNCHANGED <<provisioningVars, published>>)
  <2>1. checkDevices \/ CheckFails
    BY <1>5 DEF Monitor, FirstCheck, IntervalFires, checkNow
  <2>2. row'.online = row.online \/ silent > offlineThreshold
    BY <1>t, <2>1 DEF checkDevices, CheckFails, markOffline
  <2>3. UNCHANGED <<silent, heard>> /\ api' # "down"
    BY <1>5, <2>1 DEF Monitor, FirstCheck, IntervalFires, checkNow, checkDevices, CheckFails
  <2>4. QED
    BY <2>2, <2>3
<1>6. CASE ApiStarts
  BY <1>6 DEF ApiStarts, handleApiRestart
<1>7. CASE ApiStops
  BY <1>7 DEF ApiStops, stop, ApiCrash, Down
<1>8. CASE TimePasses
  <2>1. silent' = Older(silent) /\ UNCHANGED <<row, heard, api>>
    BY <1>8 DEF TimePasses, Tick
  <2>2. CASE heard
    <3>1. silent \in Nat /\ silent' \in {silent, silent + 1} /\ silent' # Never
      BY <1>t, <2>1, <2>2, OlderBy
    <3>2. QED
      BY <2>1, <3>1, Threshold
  <2>3. QED
    BY <2>1, <2>2
<1>9. CASE Publishes \/ UNCHANGED vars
  BY <1>9 DEF Publishes, vars, rowVars, heartbeatVars
<1>10. QED
  BY <1>1, <1>2, <1>3, <1>4, <1>5, <1>6, <1>7, <1>8, <1>9 DEF Next, Attempts

\* A device that got a request through since the API came up is shown offline
\* only after a silence longer than the threshold, for any interval, threshold
\* and number of checks that fail.
THEOREM OfflineOnlySilentCorrect == Spec => []OfflineOnlySilent
<1>1. Init => HeardInv
  BY DEF Init, RowInit, HeardInv
<1>2. HeardInv => OfflineOnlySilent
  BY DEF HeardInv, OfflineOnlySilent
<1>3. QED
  BY <1>1, <1>2, TypeInit, TypeStep, HeardStep, PTL DEF Spec
-----------------------------------------------------------------------------
(***************************************************************************)
(* OfflineInTime.  Not inductive: a check that does not fail shows offline *)
(* who was dated too long ago, and that bounds how long ago the device was *)
(* shown online only as that is never before its date; and between two     *)
(* checks the age grows as the timer runs down.                            *)
(***************************************************************************)
LEMMA ShownLastStep == TypeInv /\ ShownLast /\ [Next]_vars => ShownLast'
<1> SUFFICES ASSUME TypeInv, ShownLast, [Next]_vars PROVE ShownLast'
  OBVIOUS
<1>t. silent \in Ages /\ shown \in Ages
  BY DEF TypeInv, TypeOK, RowTypeOK
<1>0. ASSUME UNCHANGED <<silent, shown>> PROVE ShownLast'
  BY <1>0 DEF ShownLast
<1>1. ASSUME Dated PROVE ShownLast'
  <2>1. silent' = 0 /\ shown' = 0
    BY <1>1, DatedRow
  <2>2. QED
    BY <2>1, Bounds DEF ShownLast
<1>2. CASE Reports \/ ReportArrives \/ Edits
  BY <1>1, <1>2 DEF Reports, ReportArrives, Edits, Dated
<1>3. ASSUME NEW a \in Attempts, Registration(a) \/ createDefaultTargetState(a)
      PROVE  ShownLast'
  <2>1. CASE createDefaultTargetState(a)
    BY <1>0, <1>1, <2>1, DatedBy DEF rowVars
  <2>2. CASE Registration(a)
    <3>1. UNCHANGED <<silent, shown>> \/ (UNCHANGED silent /\ shown' = 0)
      BY <2>2 DEF Registration, Refuse, Accept, Register, upsert, rowVars
    <3>2. silent # Never => silent \in Nat
      BY <1>t DEF Ages
    <3>3. QED
      BY <1>0, <3>1, <3>2, Bounds DEF ShownLast
  <2>3. QED
    BY <1>3, <2>1, <2>2
<1>4. CASE TimePasses
  <2>1. silent' = Older(silent) /\ shown' = Older(shown)
    BY <1>4 DEF TimePasses, Tick
  <2>2. CASE silent = Never
    BY <2>1, <2>2 DEF Older, ShownLast
  <2>3. CASE silent # Never
    <3>1. silent \in 0 .. Horizon /\ shown \in 0 .. Horizon /\ shown <= silent
      BY <1>t, <2>3 DEF ShownLast, Ages
    <3>2. /\ silent' = IF silent = Horizon THEN silent ELSE silent + 1
          /\ shown' = IF shown = Horizon THEN shown ELSE shown + 1
      BY <2>1, <3>1, RowAssumption DEF Older
    <3>3. shown' \in Nat /\ shown' <= silent'
      BY <3>1, <3>2, RowAssumption
    <3>4. QED
      BY <3>3, RowAssumption DEF ShownLast
  <2>4. QED
    BY <2>2, <2>3
<1>5. CASE Monitor \/ checkNow
  BY <1>0, <1>5 DEF Monitor, FirstCheck, IntervalFires, checkNow, checkDevices, CheckFails
<1>6. CASE Agent \/ Publishes \/ Operator \/ UNCHANGED vars
  BY <1>0, <1>6 DEF Agent, Publishes, Operator, setActive, vars, rowVars
<1>7. CASE ApiStarts \/ ApiStops
  BY <1>0, <1>7 DEF ApiStarts, handleApiRestart, ApiStops, stop, ApiCrash, Down
<1>8. QED
  BY <1>2, <1>3, <1>4, <1>5, <1>6, <1>7 DEF Next, Attempts

LEMMA InTimeStep == TypeInv /\ InTimeInv /\ [Next]_vars => InTimeInv'
<1> SUFFICES ASSUME TypeInv, InTimeInv, [Next]_vars,
                    api' = "running", missed' = 0, row'.online, silent' # Never
             PROVE  shown' <= offlineThreshold + checkInterval - due'
  BY ShownLastStep DEF InTimeInv
<1>t. /\ row \in [registered : BOOLEAN, key : Keys \cup {NoKey},
                  online : BOOLEAN, active : BOOLEAN]
      /\ silent \in Ages /\ shown \in Ages
      /\ due \in Nat /\ due <= checkInterval /\ missed \in Nat
  BY DEF TypeInv, TypeOK, RowTypeOK, HeartbeatTypeOK
<1>n. silent # Never => silent \in Nat /\ shown \in Nat /\ shown <= silent
  BY <1>t DEF Ages, InTimeInv, ShownLast
<1>0. ASSUME UNCHANGED <<silent, shown, api, due, missed>>, row'.online => row.online
      PROVE  shown' <= offlineThreshold + checkInterval - due'
  BY <1>0 DEF InTimeInv
<1>1. ASSUME shown' = 0, due' = due
      PROVE  shown' <= offlineThreshold + checkInterval - due'
  BY <1>1, <1>t, Threshold
<1>2. CASE Reports \/ ReportArrives \/ Edits
  <2>1. Dated
    BY <1>2 DEF Reports, ReportArrives, Edits, Dated
  <2>2. QED
    BY <1>1, <2>1, DatedRow
<1>3. ASSUME NEW a \in Attempts, Registration(a) \/ createDefaultTargetState(a)
      PROVE  shown' <= offlineThreshold + checkInterval - due'
  <2>1. CASE createDefaultTargetState(a)
    <3>1. CASE Dated
      BY <1>1, <3>1, DatedRow
    <3>2. CASE UNCHANGED <<rowVars, heartbeatVars>>
      BY <1>0, <3>2 DEF rowVars, heartbeatVars
    <3>3. QED
      BY <2>1, <3>1, <3>2, DatedBy
  <2>2. CASE Registration(a)
    <3>1. UNCHANGED heartbeatVars /\ (UNCHANGED rowVars \/ shown' = 0)
      BY <2>2 DEF Registration, Refuse, Accept, Register, upsert
    <3>2. QED
      BY <1>0, <1>1, <3>1 DEF rowVars, heartbeatVars
  <2>3. QED
    BY <1>3, <2>1, <2>2
<1>4. CASE Monitor \/ checkNow
  <2>1. checkDevices \/ CheckFails
    BY <1>4 DEF Monitor, FirstCheck, IntervalFires, checkNow
  <2>2. checkDevices
    BY <1>t, <2>1 DEF CheckFails
  <2>3. UNCHANGED <<silent, shown>> /\ ~(silent > offlineThreshold)
    BY <1>t, <2>2 DEF checkDevices, markOffline
  <2>4. due' \in Nat /\ due' <= checkInterval
    BY <1>4, <1>t, Threshold DEF Monitor, FirstCheck, IntervalFires, checkNow
  <2>5. QED
    BY <1>n, <2>3, <2>4, Threshold
<1>5. CASE TimePasses
  <2>1. /\ due > 0 /\ due' = due - 1 /\ silent' = Older(silent) /\ shown' = Older(shown)
        /\ UNCHANGED <<row, api, missed>>
    BY <1>5 DEF TimePasses, Tick
  <2>2. silent # Never
    BY <2>1 DEF Older
  <2>3. shown # Never
    BY <2>2 DEF InTimeInv, ShownLast
  <2>4. shown \in Nat /\ shown' \in {shown, shown + 1}
    BY <1>t, <2>1, <2>3, OlderBy
  <2>5. shown <= offlineThreshold + checkInterval - due
    BY <2>1, <2>2 DEF InTimeInv
  <2>6. QED
    BY <1>t, <2>1, <2>4, <2>5, Threshold
<1>6. CASE Agent \/ Publishes \/ Operator \/ UNCHANGED vars
  BY <1>0, <1>6, <1>t DEF Agent, Publishes, Operator, setActive, vars, rowVars, heartbeatVars
<1>7. CASE ApiStarts \/ ApiStops
  BY <1>7 DEF ApiStarts, handleApiRestart, ApiStops, stop, ApiCrash, Down
<1>8. QED
  BY <1>2, <1>3, <1>4, <1>5, <1>6, <1>7 DEF Next, Attempts

\* A row that carries a date is shown online for the threshold and an interval
\* at most after the last call that showed it online, whoever made that call,
\* for any interval, threshold and number of attempts, unless the last check
\* failed.
THEOREM OfflineInTimeCorrect == Spec => []OfflineInTime
<1>1. Init => InTimeInv
  BY DEF Init, RowInit, HeartbeatInit, InTimeInv, ShownLast
<1>2. TypeInv /\ InTimeInv => OfflineInTime
  <2> SUFFICES ASSUME TypeInv, InTimeInv, api = "running", missed = 0, row.online,
                      silent # Never
               PROVE  shown <= offlineThreshold + checkInterval
    BY DEF OfflineInTime
  <2>1. shown # Never /\ shown <= offlineThreshold + checkInterval - due
    BY DEF InTimeInv, ShownLast
  <2>2. shown \in Nat /\ due \in Nat
    BY <2>1 DEF TypeInv, TypeOK, RowTypeOK, Ages, HeartbeatTypeOK
  <2>3. QED
    BY <2>1, <2>2, Threshold
<1>3. QED
  BY <1>1, <1>2, TypeInit, TypeStep, InTimeStep, PTL DEF Spec
=============================================================================
