---------------------------- MODULE Provisioning ----------------------------
(***************************************************************************)
(* Two-phase provisioning: the agent's DeviceManager, with the device      *)
(* record in its database, and the API's registration and key exchange.    *)
(* A registration reads the row, then hashes and makes credentials, then   *)
(* writes the row, and goes on with the default target state while it      *)
(* answers; its request or its answer may be lost or late.                 *)
(***************************************************************************)
EXTENDS DeviceRow

CONSTANT MaxAttempts   \* bound on the calls of provision()

ASSUME AttemptsAssumption == MaxAttempts \in Nat

VARIABLES
  disk,      \* the agent's device record
  info,      \* deviceInfo, in memory
  pc,        \* where provision() waits
  keys,      \* device keys generated so far
  attempts,  \* calls of provision() so far; the last one may be waiting
  request,   \* what became of the registration of each call
  defaults,  \* registrations whose createDefaultTargetState() goes on
  wiped      \* the device has been factory reset

provisioningVars == <<disk, info, pc, keys, attempts, request, defaults, wiped>>

NoInfo == [key |-> NoKey, provisioned |-> FALSE, known |-> FALSE]
Infos == [key : Keys \cup {NoKey}, provisioned : BOOLEAN, known : BOOLEAN]
Stages == {"none", "sent", "accepted", "registered", "refused"}

ProvisioningTypeOK ==
  /\ disk \in Infos /\ info \in Infos
  /\ pc \in {"off", "idle", "registering", "exchanging"}
  /\ keys \in 0 .. MaxKeys
  /\ attempts \in 0 .. MaxAttempts
  /\ request \in [1 .. MaxAttempts -> [stage : Stages, key : Keys \cup {NoKey}]]
  /\ defaults \subseteq 1 .. MaxAttempts
  /\ wiped \in BOOLEAN

ProvisioningInit ==
  /\ disk = NoInfo /\ info = NoInfo
  /\ pc = "off"
  /\ keys = 0
  /\ attempts = 0
  /\ request = [a \in 1 .. MaxAttempts |-> [stage |-> "none", key |-> NoKey]]
  /\ defaults = {}
  /\ wiped = FALSE

Stage(a, to) == request' = [request EXCEPT ![a].stage = to]

\* saveDeviceInfo() of what memory becomes
Save(new) == info' = new /\ disk' = new
-----------------------------------------------------------------------------
\* The agent starts

\* Defect: the new record is not saved before it is used.
InitializeUnsaved ==
  /\ pc = "off" /\ pc' = "idle"
  /\ IF disk.known
     THEN info' = disk /\ UNCHANGED keys
     ELSE /\ keys < MaxKeys /\ keys' = keys + 1
          /\ info' = [key |-> keys + 1, provisioned |-> FALSE, known |-> TRUE]
  /\ UNCHANGED <<disk, attempts, request, defaults, wiped>>

\* The first start makes the device's identity and saves it.
initialize ==
  /\ pc = "off" /\ pc' = "idle"
  /\ IF disk.known
     THEN info' = disk /\ UNCHANGED <<disk, keys>>
     ELSE /\ keys < MaxKeys /\ keys' = keys + 1
          /\ Save([key |-> keys + 1, provisioned |-> FALSE, known |-> TRUE])
  /\ UNCHANGED <<attempts, request, defaults, wiped>>

\* Defect: a missing key is not made up for.
ProvisionKeyless ==
  /\ pc = "idle" /\ pc' = "registering"
  /\ attempts < MaxAttempts /\ attempts' = attempts + 1
  /\ request' = [request EXCEPT ![attempts + 1] = [stage |-> "sent", key |-> info.key]]
  /\ UNCHANGED <<disk, info, keys, defaults, wiped>>

\* provision(), at the start or on request: registerWithAPI is called with the
\* device's key, and with a new one, in memory only, after a factory reset.
provision ==
  /\ pc = "idle" /\ pc' = "registering"
  /\ attempts < MaxAttempts /\ attempts' = attempts + 1
  /\ \/ info.key # NoKey /\ UNCHANGED <<info, keys>>
     \/ /\ info.key = NoKey
        /\ keys < MaxKeys /\ keys' = keys + 1
        /\ info' = [info EXCEPT !.key = keys + 1]
  /\ request' = [request EXCEPT ![attempts + 1] = [stage |-> "sent", key |-> info'.key]]
  /\ UNCHANGED <<disk, defaults, wiped>>
-----------------------------------------------------------------------------
\* The API handles POST /device/register

\* The provisioning key is unknown, expired or used up, too many requests
\* came, or the device is registered already.
Refuse(a) ==
  /\ request[a].stage = "sent" /\ Stage(a, "refused")
  /\ UNCHANGED <<rowVars, defaults>>

Accept(a) ==
  /\ request[a].stage = "sent" /\ ~row.registered /\ Stage(a, "accepted")
  /\ UNCHANGED <<rowVars, defaults>>

Register(a) ==
  /\ request[a].stage = "accepted" /\ upsert(request[a].key) /\ Stage(a, "registered")
  /\ defaults' = defaults \cup {a}

\* The API stops: what it was working on is dropped.
Dropped ==
  /\ request' = [a \in 1 .. MaxAttempts |->
                    IF request[a].stage = "accepted"
                    THEN [request[a] EXCEPT !.stage = "refused"] ELSE request[a]]
  /\ defaults' = {}
-----------------------------------------------------------------------------
\* The agent goes on

Registered ==
  /\ pc = "registering" /\ request[attempts].stage = "registered"
  /\ pc' = IF info.key = NoKey THEN "idle" ELSE "exchanging"
  /\ UNCHANGED <<disk, info, keys, attempts, request, defaults, wiped>>

\* exchangeKeys() is answered, and provision() saves what memory holds by now.
Exchanged ==
  /\ pc = "exchanging" /\ pc' = "idle"
  /\ Matches(request[attempts].key)
  /\ Save([info EXCEPT !.provisioned = TRUE])
  /\ UNCHANGED <<keys, attempts, request, defaults, wiped>>

\* A refusal, or a request or an answer that is lost
ProvisionFails ==
  /\ pc \in {"registering", "exchanging"} /\ pc' = "idle"
  /\ UNCHANGED <<disk, info, keys, attempts, request, defaults, wiped>>

\* POST /v1/deprovision: the cloud is not told.
reset ==
  /\ pc # "off"
  /\ Save([info EXCEPT !.provisioned = FALSE])
  /\ UNCHANGED <<pc, keys, attempts, request, defaults, wiped>>

\* POST /v1/factory-reset: the cloud is asked for the device, and not told.
factoryReset ==
  /\ pc # "off"
  /\ Save([info EXCEPT !.provisioned = FALSE, !.key = NoKey])
  /\ wiped' = TRUE
  /\ UNCHANGED <<pc, keys, attempts, request, defaults>>

AgentCrash ==
  /\ pc # "off" /\ pc' = "off"
  /\ info' = NoInfo
  /\ UNCHANGED <<disk, keys, attempts, request, defaults, wiped>>
=============================================================================
