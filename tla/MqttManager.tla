---------------------------- MODULE MqttManager ----------------------------
(***************************************************************************)
(* The agent's connection to the broker: agent/src/mqtt/manager.ts.  Every *)
(* (re)connection makes a new client with a clean session, and nothing     *)
(* subscribes again: a topic is granted until its connection closes.       *)
(***************************************************************************)
EXTENDS Naturals

CONSTANT Devices

VARIABLES
  link,     \* the connection of each device's agent
  granted   \* the broker routes the job topic of the device to it

mqttVars == <<link, granted>>

Links == {"none",        \* no client yet
          "connecting",  \* connectionPromise is pending
          "up",          \* connected
          "waiting",     \* the reconnect timer runs
          "stuck"}       \* connectionPromise was rejected and is still kept

MqttTypeOK == link \in [Devices -> Links] /\ granted \in [Devices -> BOOLEAN]

MqttInit ==
  /\ link = [d \in Devices |-> "none"]
  /\ granted = [d \in Devices |-> FALSE]

isConnected(d) == link[d] = "up"

Linked(d, to) == link' = [link EXCEPT ![d] = to]
Grant(d, to) == granted' = [granted EXCEPT ![d] = to]
-----------------------------------------------------------------------------
\* connect(), called at start and by the reconnect timer
Connect(d) == link[d] \in {"none", "waiting"} /\ Linked(d, "connecting") /\ UNCHANGED granted

ConnectSucceeds(d) == link[d] = "connecting" /\ Linked(d, "up") /\ UNCHANGED granted

\* An error forgets the promise; the close that follows schedules a reconnect.
ConnectRefused(d) == link[d] = "connecting" /\ Linked(d, "waiting") /\ UNCHANGED granted

\* After 10 s the promise is rejected but kept, and the reconnect timer finds a
\* connection "in progress" for ever.
ConnectTimesOut(d) == link[d] = "connecting" /\ Linked(d, "stuck") /\ UNCHANGED granted

\* An open connection closes.
ConnectionCloses(d) == link[d] = "up" /\ Linked(d, "waiting") /\ Grant(d, FALSE)

\* subscribe() on an open connection: granted, or rejected by the broker
Subscribe(d, ok) == isConnected(d) /\ Grant(d, ok) /\ UNCHANGED link

Unsubscribe(d) == Grant(d, FALSE) /\ UNCHANGED link

\* The agent's process is gone.
MqttGone(d) == Linked(d, "none") /\ Grant(d, FALSE)
=============================================================================
