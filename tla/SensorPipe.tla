----------------------------- MODULE SensorPipe -----------------------------
(***************************************************************************)
(* From the socket server of an adapter to the broker                      *)
(* (agent/src/features/endpoints/common/socket-server.ts and               *)
(* agent/src/features/sensor-publish/sensor.ts).  Messages are numbers in  *)
(* the order they were written to the socket; the bytes of the stream      *)
(* reach the Sensor in chunks of any number of messages.                   *)
(***************************************************************************)
EXTENDS Naturals, FiniteSets, Sequences, SequencesExt

CONSTANTS
  bufferCapacity,  \* in messages
  bufferSize,      \* messages of a batch that is published at once
  MaxReadings,     \* bound: messages followed through the pipe
  MaxCalls         \* bound: publishes under way when the buffer timer fires

ASSUME PipeAssumption ==
  {bufferCapacity, bufferSize, MaxReadings, MaxCalls} \subseteq Nat \ {0}

Messages == 1 .. MaxReadings

VARIABLES
  open,    \* the Sensor is connected to the socket
  issued,  \* messages written to the socket so far
  stream,  \* those still in the socket
  buffer,  \* those the Sensor holds unparsed
  batch,   \* messageBatch
  calls,   \* the payload of each publish under way
  mqtt,    \* the agent is connected to the broker
  broker,  \* the messages the broker has
  lost     \* history: messages dropped unsent

pipeVars == <<open, issued, stream, buffer, batch, calls, mqtt, broker, lost>>

PipeTypeOK ==
  /\ {open, mqtt} \subseteq BOOLEAN
  /\ issued \in 0 .. MaxReadings
  /\ {stream, buffer, batch, broker, lost} \subseteq SUBSET Messages
  /\ calls \in Seq(SUBSET Messages)

PipeInit ==
  /\ open = FALSE /\ issued = 0
  /\ stream = {} /\ buffer = {} /\ batch = {} /\ calls = <<>>
  /\ mqtt \in BOOLEAN
  /\ broker = {} /\ lost = {}

\* sendData() drops what it is given while no client is connected.
sendData ==
  /\ IF open /\ issued < MaxReadings
     THEN issued' = issued + 1 /\ stream' = stream \cup {issued'}
     ELSE UNCHANGED <<issued, stream>>
  /\ UNCHANGED <<open, buffer, batch, calls, mqtt, broker, lost>>

\* publishBatch() up to its await; an empty batch is not published.
publishBatch(payload) ==
  calls' = IF mqtt /\ payload # {} THEN Append(calls, payload) ELSE calls
-----------------------------------------------------------------------------
Connect ==
  /\ ~open
  /\ open' = TRUE
  /\ UNCHANGED <<issued, stream, buffer, batch, calls, mqtt, broker, lost>>

\* What addMessageToBatch() publishes while the messages are added one by one:
\* every batch of bufferSize messages or more.
Filled(messages) ==
  LET first(k) == {x \in messages : Cardinality({y \in messages : y <= x}) <= k}
      fit == IF Cardinality(batch) < bufferSize THEN bufferSize - 1 - Cardinality(batch) ELSE 0
  IN  [i \in 1 .. Cardinality(messages) - fit |-> batch \cup first(fit + i)]

onData(chunk) ==
  /\ open /\ chunk # {}
  /\ stream' = stream \ chunk
  /\ LET received == buffer \cup chunk
     IN  IF Cardinality(received) > bufferCapacity
         THEN /\ buffer' = received
              /\ publishBatch(batch)
              /\ UNCHANGED batch
         ELSE /\ buffer' = {}
              /\ calls' = IF mqtt THEN calls \o Filled(received) ELSE calls
              /\ batch' = batch \cup received
  /\ UNCHANGED <<open, issued, mqtt, broker, lost>>

\* It runs since the first connection and is never stopped.
BufferTimer ==
  /\ mqtt /\ batch # {}
  /\ Len(calls) < MaxCalls
  /\ publishBatch(batch)
  /\ UNCHANGED <<open, issued, stream, buffer, batch, mqtt, broker, lost>>

\* A publish resolves and resets the batch, with what came in the meantime.
Published(i) ==
  /\ i \in DOMAIN calls /\ mqtt
  /\ calls' = RemoveAt(calls, i)
  /\ broker' = broker \cup calls[i]
  /\ lost' = lost \cup (batch \ broker')
  /\ batch' = {}
  /\ UNCHANGED <<open, issued, stream, buffer, mqtt>>

\* Defect: the batch is reset whatever became of it.
PublishFailsReset(i) ==
  /\ i \in DOMAIN calls
  /\ calls' = RemoveAt(calls, i)
  /\ broker' \in {broker, broker \cup calls[i]}
  /\ batch' = {}
  /\ UNCHANGED <<open, issued, stream, buffer, mqtt, lost>>

\* A publish fails or times out, whether or not the broker has the message.
PublishFails(i) ==
  /\ i \in DOMAIN calls
  /\ calls' = RemoveAt(calls, i)
  /\ broker' \in {broker, broker \cup calls[i]}
  /\ UNCHANGED <<open, issued, stream, buffer, batch, mqtt, lost>>

\* onClose() publishes the batch; the bytes in the socket are gone.
SocketCloses ==
  /\ open /\ open' = FALSE
  /\ lost' = lost \cup stream /\ stream' = {}
  /\ publishBatch(batch)
  /\ UNCHANGED <<issued, buffer, batch, mqtt, broker>>

BrokerLink ==
  /\ mqtt' = ~mqtt
  /\ UNCHANGED <<open, issued, stream, buffer, batch, calls, broker, lost>>
=============================================================================
