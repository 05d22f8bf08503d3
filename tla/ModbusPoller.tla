---------------------------- MODULE ModbusPoller ----------------------------
(***************************************************************************)
(* The Modbus adapter of the agent and its clients                         *)
(* (agent/src/features/endpoints/modbus/): it connects to its devices one  *)
(* after the other, polls each one in a chain of timers, and retries a     *)
(* device that could not be reached.  A chain that finds its device        *)
(* disconnected ends; a client whose connection broke reconnects by itself *)
(* and starts no chain.  What a poll reads is a message (Telemetry).       *)
(***************************************************************************)
EXTENDS Naturals

CONSTANT Polled  \* the number of enabled devices, polled in this order

ASSUME PolledAssumption == Polled \in Nat \ {0}

Devices == 1 .. Polled

VARIABLES
  answers,    \* the device can be reached
  starting,   \* 0 before start(), then the device it awaits; Polled + 1: running
  client,     \* the ModbusClient of each device
  firstPoll,  \* polls 100 ms after a connection was settled, kept nowhere
  nextPoll,   \* polls in pollTimers
  reads,      \* polls that await their registers
  retries,    \* retries of the connection
  unattended  \* history: devices nothing polls any more

timers == <<firstPoll, nextPoll, reads, retries>>
pollerVars == <<answers, starting, client, timers, unattended>>

Clients == {"none", "connecting",
            "failed",  \* connect() rejected
            "up",
            "lost"}    \* closed or in error: its reconnectTimer runs

PollerTypeOK ==
  /\ answers \in [Devices -> BOOLEAN]
  /\ starting \in 0 .. Polled + 1
  /\ client \in [Devices -> Clients]
  /\ {firstPoll, nextPoll, reads, retries} \subseteq [Devices -> Nat]
  /\ unattended \subseteq Devices

PollerInit ==
  /\ answers \in [Devices -> BOOLEAN]
  /\ starting = 0
  /\ client = [d \in Devices |-> "none"]
  /\ firstPoll = [d \in Devices |-> 0] /\ nextPoll = [d \in Devices |-> 0]
  /\ reads = [d \in Devices |-> 0] /\ retries = [d \in Devices |-> 0]
  /\ unattended = {}

listening == starting > 0
running == starting > Polled
isConnected(d) == client[d] = "up"

More(f, d) == [f EXCEPT ![d] = @ + 1]
Less(f, d) == [f EXCEPT ![d] = @ - 1]
-----------------------------------------------------------------------------
\* The socket server listens, and start() connects to the first device.
Start ==
  /\ starting = 0
  /\ starting' = 1
  /\ client' = [client EXCEPT ![1] = "connecting"]
  /\ UNCHANGED <<answers, timers, unattended>>

\* connect() has settled: polling starts, and start(), if it awaits it, goes on
\* with the next device.
Settled(d, outcome) ==
  /\ client[d] = "connecting"
  /\ starting' = IF starting = d THEN d + 1 ELSE starting
  /\ client' = [c \in Devices |->
       IF c = d THEN outcome
       ELSE IF starting = d /\ c = d + 1 THEN "connecting" ELSE client[c]]
  /\ firstPoll' = More(firstPoll, d)
  /\ UNCHANGED <<answers, nextPoll, reads, unattended>>

Connected(d) == answers[d] /\ Settled(d, "up") /\ UNCHANGED retries

\* Defect: a device that cannot be reached is not retried.
ConnectFailsForGood(d) == ~answers[d] /\ Settled(d, "failed") /\ UNCHANGED retries

ConnectFails(d) ==
  ~answers[d] /\ Settled(d, "failed") /\ retries' = More(retries, d)

\* The retry comes after the first poll (retryDelay is more than 100 ms).
RetryFires(d) == retries[d] > 0 /\ firstPoll[d] = 0 /\ retries' = Less(retries, d)

\* A retry that comes before start() has ended does nothing.
RetryDropped(d) ==
  /\ RetryFires(d) /\ ~running
  /\ unattended' = unattended \cup {d}
  /\ UNCHANGED <<answers, starting, client, firstPoll, nextPoll, reads>>

\* Defect: the timer is taken off whether there is one or not.
RetryClearsBlindly(d) ==
  /\ RetryFires(d) /\ running
  /\ nextPoll' = Less(nextPoll, d)
  /\ client' = [client EXCEPT ![d] = "connecting"]
  /\ UNCHANGED <<answers, starting, firstPoll, reads, unattended>>

\* cleanupDevice() clears the timer in pollTimers; initializeDevice() connects.
Retry(d) ==
  /\ RetryFires(d) /\ running
  /\ nextPoll' = IF nextPoll[d] = 0 THEN nextPoll ELSE Less(nextPoll, d)
  /\ client' = [client EXCEPT ![d] = "connecting"]
  /\ UNCHANGED <<answers, starting, firstPoll, reads, unattended>>

\* The timer of a poll fires.
PollFires(d) ==
  \/ firstPoll[d] > 0 /\ firstPoll' = Less(firstPoll, d) /\ UNCHANGED nextPoll
  \/ nextPoll[d] > 0 /\ nextPoll' = Less(nextPoll, d) /\ UNCHANGED firstPoll

PollConnected(d) ==
  /\ PollFires(d) /\ isConnected(d)
  /\ reads' = More(reads, d)
  /\ UNCHANGED <<answers, starting, client, retries, unattended>>

\* Defect: each offline poll schedules a retry of its own.
PollOfflineRetries(d) ==
  /\ PollFires(d) /\ ~isConnected(d)
  /\ retries' = More(retries, d)
  /\ UNCHANGED <<answers, starting, client, reads, unattended>>

\* A device that is not connected is shown as BAD once, and the chain ends.
PollOffline(d) ==
  /\ PollFires(d) /\ ~isConnected(d)
  /\ unattended' = IF client[d] = "lost" THEN unattended \cup {d} ELSE unattended
  /\ UNCHANGED <<answers, starting, client, reads, retries>>

\* readAllRegisters() returns, with values or with errors: the next poll is set.
ReadAll(d) ==
  /\ reads[d] > 0 /\ reads' = Less(reads, d)
  /\ nextPoll' = More(nextPoll, d)
  /\ UNCHANGED <<answers, starting, client, firstPoll, retries, unattended>>

\* The connection is closed or reports an error; the client reconnects later.
ConnectionLost(d) ==
  /\ isConnected(d)
  /\ client' = [client EXCEPT ![d] = "lost"]
  /\ UNCHANGED <<answers, starting, timers, unattended>>

Reconnected(d) ==
  /\ client[d] = "lost" /\ answers[d]
  /\ client' = [client EXCEPT ![d] = "up"]
  /\ UNCHANGED <<answers, starting, timers, unattended>>

Reachable(d, now) ==
  /\ answers[d] # now
  /\ answers' = [answers EXCEPT ![d] = now]
  /\ UNCHANGED <<starting, client, timers, unattended>>
=============================================================================
