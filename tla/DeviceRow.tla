----------------------------- MODULE DeviceRow -----------------------------
(***************************************************************************)
(* The row of one device in the cloud's devices table, as registration,    *)
(* the device's reports, operators and the heartbeat monitor see it:       *)
(* DeviceModel and deviceAuth.  DELETE /devices/:uuid, which removes the   *)
(* row, is left out: nothing in the repository sends it.                   *)
(***************************************************************************)
EXTENDS Naturals

CONSTANTS
  MaxKeys,      \* bound on the device keys an agent generates
  Horizon,      \* ages are counted up to this one
  Never         \* the age of what has not happened

ASSUME RowAssumption == MaxKeys \in Nat /\ Horizon \in Nat /\ Never \notin Nat

VARIABLES
  row,      \* registered, the device key its hash is of, is_online and is_active
  silent,   \* age of last_connectivity_event
  shown,    \* history: age of the last call that showed the device online
  heard     \* history: something of the device got through since the API came up

rowVars == <<row, silent, shown, heard>>

NoKey == 0
Keys == 1 .. MaxKeys
Ages == (0 .. Horizon) \cup {Never}

Older(age) == IF age = Never \/ age = Horizon THEN age ELSE age + 1

RowTypeOK ==
  /\ row \in [registered : BOOLEAN, key : Keys \cup {NoKey},
              online : BOOLEAN, active : BOOLEAN]
  /\ row.registered => row.key \in Keys
  /\ {silent, shown} \subseteq Ages
  /\ heard \in BOOLEAN

RowInit ==
  /\ row = [registered |-> FALSE, key |-> NoKey, online |-> FALSE, active |-> FALSE]
  /\ silent = Never /\ shown = Never
  /\ heard = FALSE

\* The key compares with the hash of the row.
Matches(k) == row.registered /\ row.key = k

deviceAuth(k) == Matches(k) /\ row.active
-----------------------------------------------------------------------------
\* Whoever calls it shows the device online and dates it.  It would insert a row
\* that is not there, but is called only for a registered device.
getOrCreate ==
  /\ row' = [row EXCEPT !.online = TRUE]
  /\ silent' = 0
  /\ shown' = 0

\* Registration shows the device online without dating it, and activates it.
upsert(k) ==
  /\ row' = [registered |-> TRUE, key |-> k, online |-> TRUE, active |-> TRUE]
  /\ shown' = 0
  /\ UNCHANGED <<silent, heard>>

\* PATCH /devices/:uuid/active
setActive(to) ==
  /\ row.registered
  /\ row' = [row EXCEPT !.active = to]
  /\ UNCHANGED <<silent, shown, heard>>

markOffline(stale) == row' = [row EXCEPT !.online = @ /\ ~stale]
=============================================================================
