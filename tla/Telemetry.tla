----------------------------- MODULE Telemetry ------------------------------
(***************************************************************************)
(* The readings of the agent's devices on their way to the broker: the     *)
(* poller and the pipe together.                                           *)
(***************************************************************************)
EXTENDS ModbusPoller, SensorPipe

CONSTANT MaxFaults  \* bound: devices and sockets that fail, publishes that fail while connected

ASSUME FaultsAssumption == MaxFaults \in Nat

VARIABLE faults

vars == <<pollerVars, pipeVars, faults>>

\* The variables have their types.
TypeOK == PollerTypeOK /\ PipeTypeOK /\ faults \in 0 .. MaxFaults

Init == PollerInit /\ PipeInit /\ faults = 0

Fault == faults < MaxFaults /\ faults' = faults + 1

Read(d) == ReadAll(d) /\ sendData
Polls(d) == (PollConnected(d) /\ UNCHANGED pipeVars) \/ (PollOffline(d) /\ sendData)
Connects(d) == (Connected(d) \/ ConnectFails(d)) /\ UNCHANGED pipeVars
Retries(d) == (Retry(d) \/ RetryDropped(d)) /\ UNCHANGED pipeVars

Poller(d) ==
  \/ Read(d) \/ Polls(d) \/ Connects(d) \/ Retries(d)
  \/ (Reconnected(d) \/ Reachable(d, TRUE)) /\ UNCHANGED pipeVars

ToSensor == \E last \in stream : onData({m \in stream : m <= last})
SensorConnects == listening /\ Connect
Settle ==
  \E i \in DOMAIN calls :
    \/ Published(i) /\ UNCHANGED faults
    \/ PublishFails(i) /\ IF mqtt THEN Fault ELSE UNCHANGED faults

Pipe ==
  \/ (ToSensor \/ SensorConnects \/ BufferTimer \/ BrokerLink) /\ UNCHANGED faults
  \/ Settle
  \/ SocketCloses /\ Fault

Next ==
  \/ Start /\ UNCHANGED <<pipeVars, faults>>
  \/ \E d \in Devices :
       \/ Poller(d) /\ UNCHANGED faults
       \/ (ConnectionLost(d) \/ Reachable(d, FALSE)) /\ UNCHANGED pipeVars /\ Fault
  \/ Pipe /\ UNCHANGED pollerVars

Spec == Init /\ [][Next]_vars

FairSpec ==
  /\ Spec
  /\ WF_vars(Start /\ UNCHANGED <<pipeVars, faults>>)
  /\ \A d \in Devices :
       /\ WF_vars((Read(d) \/ Polls(d)) /\ UNCHANGED faults)
       /\ WF_vars((Connects(d) \/ Retries(d)) /\ UNCHANGED faults)
  /\ WF_vars(ToSensor /\ UNCHANGED <<pollerVars, faults>>)
  /\ WF_vars(BufferTimer /\ UNCHANGED <<pollerVars, faults>>)
  /\ WF_vars(Settle /\ UNCHANGED pollerVars)
-----------------------------------------------------------------------------
\* Whatever is reached, lost, retried and reconnected in whatever order, no
\* device is polled by two chains of timers, and every device that has been
\* tried is polled or will be, but for the two known ways out (history
\* unattended): a retry before the end of start() and a poll that finds the
\* connection lost.
OnePollLoop ==
  \A d \in Devices :
    LET chains == firstPoll[d] + nextPoll[d] + reads[d]
    IN  /\ chains <= 1
        /\ client[d] \notin {"none", "connecting"} /\ d \notin unattended
             => chains + retries[d] > 0

\* A device that answers for good is read again and again, however often it
\* could not be reached before, unless one of the two known ways out was taken.
PolledOnceReachable ==
  \A d \in Devices :
    <>[](answers[d] /\ d \notin unattended) => []<><<Read(d)>>_vars

\* Once the broker stays connected, every message in the socket is published,
\* although publishes fail after they were delivered or not, and overlap; the
\* exceptions are what a closing socket or the end of an older publish drops
\* (history lost) and what a full buffer keeps for ever.
Drained ==
  <>[]mqtt => \A m \in Messages : m \in stream ~> m \in broker \cup lost \cup buffer
=============================================================================
