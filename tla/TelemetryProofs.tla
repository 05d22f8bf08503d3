-------------------------- MODULE TelemetryProofs ---------------------------
(***************************************************************************)
(* Proofs about Telemetry, for any number of devices and any bounds.       *)
(***************************************************************************)
EXTENDS Telemetry, FiniteSetTheorems, TLAPS

Chains(d) == firstPoll[d] + nextPoll[d] + reads[d]

\* What is due of a device: nothing before its first connection is settled, one
\* retry and at most its first poll after a failure, one chain after a success.
DueAt(d) ==
  /\ client[d] \in {"none", "connecting"} =>
       Chains(d) = 0 /\ retries[d] = 0 /\ d \notin unattended
  /\ client[d] = "failed" =>
       /\ nextPoll[d] = 0 /\ reads[d] = 0 /\ firstPoll[d] <= 1
       /\ IF d \in unattended THEN retries[d] = 0 ELSE retries[d] = 1
  /\ client[d] \in {"up", "lost"} =>
       retries[d] = 0 /\ Chains(d) <= 1 /\ (d \notin unattended => Chains(d) = 1)

\* start() goes through the devices in their order.
InOrder == \A d \in Devices : d > starting => client[d] = "none"

PollInv == PollerTypeOK /\ InOrder /\ \A d \in Devices : DueAt(d)
-----------------------------------------------------------------------------
LEMMA PollInvInit == Init => PollInv
  BY PolledAssumption
  DEF Init, PollerInit, PollInv, PollerTypeOK, InOrder, DueAt, Chains, Devices, Clients

\* What More and Less do to the counters of the devices.
LEMMA MoreAt ==
  ASSUME NEW f \in [Devices -> Nat], NEW d \in Devices
  PROVE  /\ More(f, d) \in [Devices -> Nat]
         /\ More(f, d)[d] = f[d] + 1
         /\ \A c \in Devices \ {d} : More(f, d)[c] = f[c]
  BY DEF More

LEMMA LessAt ==
  ASSUME NEW f \in [Devices -> Nat], NEW d \in Devices, f[d] > 0
  PROVE  /\ Less(f, d) \in [Devices -> Nat]
         /\ Less(f, d)[d] = f[d] - 1
         /\ \A c \in Devices \ {d} : Less(f, d)[c] = f[c]
  BY DEF Less

\* A poll's timer fires: one poll less is due at the device, none elsewhere.
LEMMA PollFiresAt ==
  ASSUME firstPoll \in [Devices -> Nat], nextPoll \in [Devices -> Nat],
         NEW d \in Devices, PollFires(d)
  PROVE  /\ firstPoll' \in [Devices -> Nat] /\ nextPoll' \in [Devices -> Nat]
         /\ firstPoll'[d] + nextPoll'[d] + 1 = firstPoll[d] + nextPoll[d]
         /\ firstPoll'[d] <= firstPoll[d] /\ nextPoll'[d] <= nextPoll[d]
         /\ \A c \in Devices \ {d} : firstPoll'[c] = firstPoll[c] /\ nextPoll'[c] = nextPoll[c]
<1>1. CASE firstPoll[d] > 0 /\ firstPoll' = Less(firstPoll, d) /\ UNCHANGED nextPoll
  <2>1. /\ firstPoll' \in [Devices -> Nat] /\ firstPoll'[d] = firstPoll[d] - 1
        /\ \A c \in Devices \ {d} : firstPoll'[c] = firstPoll[c]
    BY <1>1, LessAt
  <2>. QED
    BY <2>1, <1>1
<1>2. CASE nextPoll[d] > 0 /\ nextPoll' = Less(nextPoll, d) /\ UNCHANGED firstPoll
  <2>1. /\ nextPoll' \in [Devices -> Nat] /\ nextPoll'[d] = nextPoll[d] - 1
        /\ \A c \in Devices \ {d} : nextPoll'[c] = nextPoll[c]
    BY <1>2, LessAt
  <2>. QED
    BY <2>1, <1>2
<1>. QED
  BY <1>1, <1>2 DEF PollFires

\* A device a step leaves alone stays as it was.
SameAt(c) ==
  /\ client'[c] = client[c] /\ (c \in unattended' <=> c \in unattended)
  /\ firstPoll'[c] = firstPoll[c] /\ nextPoll'[c] = nextPoll[c]
  /\ reads'[c] = reads[c] /\ retries'[c] = retries[c]

LEMMA SameKeepsDue ==
  ASSUME NEW c, SameAt(c), DueAt(c) PROVE DueAt(c)'
  BY DEF SameAt, DueAt, Chains

\* A connection settles: start() goes on, and nothing else is disturbed.
LEMMA SettledKeeps ==
  ASSUME PollInv, NEW d \in Devices, NEW outcome \in {"up", "failed"}, Settled(d, outcome)
  PROVE  /\ starting' \in 0 .. Polled + 1 /\ client' \in [Devices -> Clients] /\ InOrder'
         /\ client'[d] = outcome
         /\ firstPoll' \in [Devices -> Nat] /\ firstPoll'[d] = firstPoll[d] + 1
         /\ \A c \in Devices \ {d} :
              /\ firstPoll'[c] = firstPoll[c]
              /\ client'[c] = client[c] \/ (client[c] = "none" /\ client'[c] = "connecting")
<1>1. /\ firstPoll \in [Devices -> Nat] /\ client \in [Devices -> Clients]
      /\ starting \in 0 .. Polled + 1 /\ InOrder
  BY DEF PollInv, PollerTypeOK
<1>2. /\ starting' \in 0 .. Polled + 1 /\ client' \in [Devices -> Clients]
      /\ client'[d] = outcome
  BY <1>1, PolledAssumption DEF Settled, Clients, Devices
<1>3. starting' >= starting
  BY <1>1, PolledAssumption DEF Settled, Devices
<1>4. ASSUME NEW c \in Devices \ {d}
      PROVE  client'[c] = client[c] \/ (client[c] = "none" /\ client'[c] = "connecting")
  <2>1. CASE starting = d /\ c = d + 1
    BY <1>1, <2>1, PolledAssumption DEF Settled, InOrder, Devices
  <2>2. CASE ~(starting = d /\ c = d + 1)
    BY <1>1, <2>2, <1>4 DEF Settled
  <2>. QED
    BY <2>1, <2>2
<1>5. InOrder'
  <2>1. SUFFICES ASSUME NEW c \in Devices, c > starting' PROVE client'[c] = "none"
    BY DEF InOrder
  <2>2. c > starting /\ client[c] = "none"
    BY <1>1, <1>2, <1>3, <2>1, PolledAssumption DEF InOrder, Devices
  <2>3. c # d
    BY <2>2 DEF Settled
  <2>4. ~(starting = d /\ c = d + 1)
    BY <1>1, <2>1, PolledAssumption DEF Settled, Devices
  <2>. QED
    BY <2>2, <2>3, <2>4 DEF Settled
<1>6. /\ firstPoll' \in [Devices -> Nat] /\ firstPoll'[d] = firstPoll[d] + 1
      /\ \A c \in Devices \ {d} : firstPoll'[c] = firstPoll[c]
  BY <1>1, MoreAt DEF Settled
<1>. QED
  BY <1>2, <1>4, <1>5, <1>6

LEMMA PollInvNext == PollInv /\ [Next]_vars => PollInv'
<1> SUFFICES ASSUME PollInv, [Next]_vars PROVE PollInv'
  OBVIOUS
<1>0. /\ firstPoll \in [Devices -> Nat] /\ nextPoll \in [Devices -> Nat]
      /\ reads \in [Devices -> Nat] /\ retries \in [Devices -> Nat]
      /\ client \in [Devices -> Clients] /\ answers \in [Devices -> BOOLEAN]
      /\ starting \in 0 .. Polled + 1 /\ unattended \subseteq Devices
      /\ InOrder /\ \A c \in Devices : DueAt(c)
  BY DEF PollInv, PollerTypeOK
<1>1. CASE Start
  <2>1. PollerTypeOK' /\ InOrder'
    BY <1>0, <1>1, PolledAssumption DEF Start, PollInv, PollerTypeOK, InOrder, Clients, Devices, timers
  <2>2. ASSUME NEW c \in Devices PROVE DueAt(c)'
    BY <1>0, <1>1, PolledAssumption, <2>2 DEF Start, InOrder, DueAt, Chains, Clients, Devices, timers
  <2>. QED
    BY <2>1, <2>2 DEF PollInv
<1>2. ASSUME NEW d \in Devices, Connected(d) PROVE PollInv'
  <2>1. /\ starting' \in 0 .. Polled + 1 /\ client' \in [Devices -> Clients] /\ InOrder'
        /\ client'[d] = "up" /\ client[d] = "connecting"
        /\ firstPoll' \in [Devices -> Nat] /\ firstPoll'[d] = firstPoll[d] + 1
        /\ \A c \in Devices \ {d} :
             /\ firstPoll'[c] = firstPoll[c]
             /\ client'[c] = client[c] \/ (client[c] = "none" /\ client'[c] = "connecting")
        /\ UNCHANGED <<answers, nextPoll, reads, unattended>>
    <3>1. Settled(d, "up")
      BY <1>2 DEF Connected
    <3>. QED
      BY <3>1, SettledKeeps DEF Settled
  <2>2. /\ retries' \in [Devices -> Nat] /\ retries'[d] = retries[d]
        /\ \A c \in Devices \ {d} : retries'[c] = retries[c]
    BY <1>0, <1>2, MoreAt DEF Connected
  <2>3. PollerTypeOK'
    BY <1>0, <2>1, <2>2 DEF PollerTypeOK
  <2>4. DueAt(d)'
    BY <1>0, <2>1, <2>2 DEF DueAt, Chains
  <2>5. ASSUME NEW c \in Devices \ {d} PROVE DueAt(c)'
    <3>1. DueAt(c)
      BY <1>0
    <3>2. CASE client'[c] = client[c]
      BY <3>1, <3>2, <2>1, <2>2, SameKeepsDue DEF SameAt
    <3>3. CASE client[c] = "none" /\ client'[c] = "connecting"
      BY <3>1, <3>3, <2>1, <2>2 DEF DueAt, Chains
    <3>. QED
      BY <2>1, <3>2, <3>3
  <2>. QED
    BY <2>1, <2>3, <2>4, <2>5 DEF PollInv
<1>3. ASSUME NEW d \in Devices, ConnectFails(d) PROVE PollInv'
  <2>1. /\ starting' \in 0 .. Polled + 1 /\ client' \in [Devices -> Clients] /\ InOrder'
        /\ client'[d] = "failed" /\ client[d] = "connecting"
        /\ firstPoll' \in [Devices -> Nat] /\ firstPoll'[d] = firstPoll[d] + 1
        /\ \A c \in Devices \ {d} :
             /\ firstPoll'[c] = firstPoll[c]
             /\ client'[c] = client[c] \/ (client[c] = "none" /\ client'[c] = "connecting")
        /\ UNCHANGED <<answers, nextPoll, reads, unattended>>
    <3>1. Settled(d, "failed")
      BY <1>3 DEF ConnectFails
    <3>. QED
      BY <3>1, SettledKeeps DEF Settled
  <2>2. /\ retries' \in [Devices -> Nat] /\ retries'[d] = retries[d] + 1
        /\ \A c \in Devices \ {d} : retries'[c] = retries[c]
    BY <1>0, <1>3, MoreAt DEF ConnectFails
  <2>3. PollerTypeOK'
    BY <1>0, <2>1, <2>2 DEF PollerTypeOK
  <2>4. DueAt(d)'
    BY <1>0, <2>1, <2>2 DEF DueAt, Chains
  <2>5. ASSUME NEW c \in Devices \ {d} PROVE DueAt(c)'
    <3>1. DueAt(c)
      BY <1>0
    <3>2. CASE client'[c] = client[c]
      BY <3>1, <3>2, <2>1, <2>2, SameKeepsDue DEF SameAt
    <3>3. CASE client[c] = "none" /\ client'[c] = "connecting"
      BY <3>1, <3>3, <2>1, <2>2 DEF DueAt, Chains
    <3>. QED
      BY <2>1, <3>2, <3>3
  <2>. QED
    BY <2>1, <2>3, <2>4, <2>5 DEF PollInv
<1>4. ASSUME NEW d \in Devices, RetryDropped(d) PROVE PollInv'
  <2>1. /\ retries[d] > 0
        /\ retries' \in [Devices -> Nat] /\ retries'[d] = retries[d] - 1
        /\ \A c \in Devices \ {d} : retries'[c] = retries[c]
    BY <1>0, <1>4, LessAt DEF RetryDropped, RetryFires
  <2>2. PollerTypeOK' /\ InOrder'
    BY <1>0, <1>4, <2>1 DEF RetryDropped, PollerTypeOK, InOrder, Clients
  <2>3. DueAt(d)'
    BY <1>0, <1>4, <2>1 DEF RetryDropped, DueAt, Chains, Clients, isConnected
  <2>4. ASSUME NEW c \in Devices \ {d} PROVE DueAt(c)'
    BY <1>0, <1>4, <2>1, SameKeepsDue DEF RetryDropped, SameAt
  <2>. QED
    BY <2>2, <2>3, <2>4 DEF PollInv
<1>5. ASSUME NEW d \in Devices, Retry(d) PROVE PollInv'
  <2>1. /\ retries[d] > 0 /\ firstPoll[d] = 0
        /\ retries' \in [Devices -> Nat] /\ retries'[d] = retries[d] - 1
        /\ \A c \in Devices \ {d} : retries'[c] = retries[c]
        /\ nextPoll' \in [Devices -> Nat] /\ nextPoll'[d] <= nextPoll[d]
        /\ \A c \in Devices \ {d} : nextPoll'[c] = nextPoll[c] /\ client'[c] = client[c]
        /\ client' \in [Devices -> Clients] /\ client'[d] = "connecting"
    BY <1>0, <1>5, LessAt DEF Retry, RetryFires, Clients
  <2>2. PollerTypeOK' /\ InOrder'
    <3>1. starting' = starting /\ starting > Polled
      BY <1>5 DEF Retry, running
    <3>2. InOrder'
      BY <1>0, <3>1, PolledAssumption DEF InOrder, Devices
    <3>. QED
      BY <1>0, <1>5, <2>1, <3>2 DEF Retry, PollerTypeOK
  <2>3. DueAt(d)'
    BY <1>0, <1>5, <2>1 DEF Retry, DueAt, Chains, Clients, isConnected
  <2>4. ASSUME NEW c \in Devices \ {d} PROVE DueAt(c)'
    BY <1>0, <1>5, <2>1, SameKeepsDue DEF Retry, SameAt
  <2>. QED
    BY <2>2, <2>3, <2>4 DEF PollInv
<1>6. ASSUME NEW d \in Devices, PollConnected(d) PROVE PollInv'
  <2>1. /\ firstPoll' \in [Devices -> Nat] /\ nextPoll' \in [Devices -> Nat]
        /\ firstPoll'[d] + nextPoll'[d] + 1 = firstPoll[d] + nextPoll[d]
        /\ firstPoll'[d] <= firstPoll[d] /\ nextPoll'[d] <= nextPoll[d]
        /\ \A c \in Devices \ {d} : firstPoll'[c] = firstPoll[c] /\ nextPoll'[c] = nextPoll[c]
        /\ reads' \in [Devices -> Nat] /\ reads'[d] = reads[d] + 1
        /\ \A c \in Devices \ {d} : reads'[c] = reads[c]
    BY <1>0, <1>6, PollFiresAt, MoreAt DEF PollConnected, isConnected
  <2>2. PollerTypeOK' /\ InOrder'
    BY <1>0, <1>6, <2>1 DEF PollConnected, PollerTypeOK, InOrder, Clients
  <2>3. DueAt(d)'
    BY <1>0, <1>6, <2>1 DEF PollConnected, DueAt, Chains, Clients, isConnected
  <2>4. ASSUME NEW c \in Devices \ {d} PROVE DueAt(c)'
    BY <1>0, <1>6, <2>1, SameKeepsDue DEF PollConnected, SameAt
  <2>. QED
    BY <2>2, <2>3, <2>4 DEF PollInv
<1>7. ASSUME NEW d \in Devices, PollOffline(d) PROVE PollInv'
  <2>1. /\ firstPoll' \in [Devices -> Nat] /\ nextPoll' \in [Devices -> Nat]
        /\ firstPoll'[d] + nextPoll'[d] + 1 = firstPoll[d] + nextPoll[d]
        /\ firstPoll'[d] <= firstPoll[d] /\ nextPoll'[d] <= nextPoll[d]
        /\ \A c \in Devices \ {d} : firstPoll'[c] = firstPoll[c] /\ nextPoll'[c] = nextPoll[c]
    BY <1>0, <1>7, PollFiresAt DEF PollOffline, isConnected
  <2>2. PollerTypeOK' /\ InOrder'
    BY <1>0, <1>7, <2>1 DEF PollOffline, PollerTypeOK, InOrder, Clients
  <2>3. DueAt(d)'
    BY <1>0, <1>7, <2>1 DEF PollOffline, DueAt, Chains, Clients, isConnected
  <2>4. ASSUME NEW c \in Devices \ {d} PROVE DueAt(c)'
    BY <1>0, <1>7, <2>1, SameKeepsDue DEF PollOffline, SameAt
  <2>. QED
    BY <2>2, <2>3, <2>4 DEF PollInv
<1>8. ASSUME NEW d \in Devices, ReadAll(d) PROVE PollInv'
  <2>1. /\ reads[d] > 0
        /\ reads' \in [Devices -> Nat] /\ reads'[d] = reads[d] - 1
        /\ \A c \in Devices \ {d} : reads'[c] = reads[c]
        /\ nextPoll' \in [Devices -> Nat] /\ nextPoll'[d] = nextPoll[d] + 1
        /\ \A c \in Devices \ {d} : nextPoll'[c] = nextPoll[c]
    BY <1>0, <1>8, LessAt, MoreAt DEF ReadAll, isConnected
  <2>2. PollerTypeOK' /\ InOrder'
    BY <1>0, <1>8, <2>1 DEF ReadAll, PollerTypeOK, InOrder, Clients
  <2>3. DueAt(d)'
    BY <1>0, <1>8, <2>1 DEF ReadAll, DueAt, Chains, Clients, isConnected
  <2>4. ASSUME NEW c \in Devices \ {d} PROVE DueAt(c)'
    BY <1>0, <1>8, <2>1, SameKeepsDue DEF ReadAll, SameAt
  <2>. QED
    BY <2>2, <2>3, <2>4 DEF PollInv
<1>9. ASSUME NEW d \in Devices, ConnectionLost(d) PROVE PollInv'
  <2>1. PollerTypeOK' /\ InOrder'
    BY <1>0, <1>9, PolledAssumption DEF ConnectionLost, isConnected, timers, PollInv, PollerTypeOK, InOrder, Clients, Devices
  <2>2. DueAt(d)'
    BY <1>0, <1>9, PolledAssumption DEF ConnectionLost, isConnected, timers, DueAt, Chains, Clients
  <2>3. ASSUME NEW c \in Devices \ {d} PROVE DueAt(c)'
    BY <1>0, <1>9, <2>3 DEF ConnectionLost, isConnected, timers, InOrder, DueAt, Chains, Clients, Devices
  <2>. QED
    BY <2>1, <2>2, <2>3 DEF PollInv
<1>10. ASSUME NEW d \in Devices, Reconnected(d) PROVE PollInv'
  <2>1. PollerTypeOK' /\ InOrder'
    BY <1>0, <1>10, PolledAssumption DEF Reconnected, timers, PollInv, PollerTypeOK, InOrder, Clients, Devices
  <2>2. DueAt(d)'
    BY <1>0, <1>10, PolledAssumption DEF Reconnected, timers, DueAt, Chains, Clients
  <2>3. ASSUME NEW c \in Devices \ {d} PROVE DueAt(c)'
    BY <1>0, <1>10, <2>3 DEF Reconnected, timers, InOrder, DueAt, Chains, Clients, Devices
  <2>. QED
    BY <2>1, <2>2, <2>3 DEF PollInv
<1>11. ASSUME NEW d \in Devices, NEW now \in BOOLEAN, Reachable(d, now) PROVE PollInv'
  BY <1>11 DEF Reachable, PollInv, PollerTypeOK, InOrder, DueAt, Chains, timers
<1>12. CASE UNCHANGED pollerVars
  BY <1>12 DEF pollerVars, PollInv, PollerTypeOK, InOrder, DueAt, Chains, timers
<1>. QED
  BY <1>1, <1>2, <1>3, <1>4, <1>5, <1>6, <1>7, <1>8, <1>9, <1>10, <1>11, <1>12
  DEF Next, Poller, Read, Polls, Connects, Retries, vars

\* Whatever happens to the devices, no two chains of timers poll one of them,
\* and a device that was tried is attended unless it took a known way out.
THEOREM OnePollLoopCorrect == Spec => []OnePollLoop
<1>1. PollInv => OnePollLoop
  BY DEF PollInv, PollerTypeOK, DueAt, Chains, OnePollLoop, Clients
<1>. QED
  BY <1>1, PollInvInit, PollInvNext, PTL DEF Spec
-----------------------------------------------------------------------------
(* The pipe.                                                               *)

LEMMA MessagesFinite == IsFiniteSet(Messages) /\ Messages \subseteq Nat
  BY PipeAssumption, FS_Interval DEF Messages

\* Whatever batches a chunk fills are batches of messages.
LEMMA FilledIs ==
  ASSUME NEW messages \in SUBSET Messages, batch \in SUBSET Messages
  PROVE  Filled(messages) \in Seq(SUBSET Messages)
<1>1. Cardinality(messages) \in Nat /\ Cardinality(batch) \in Nat
  BY MessagesFinite, FS_Subset, FS_CardinalityType
<1> DEFINE first(k) == {x \in messages : Cardinality({y \in messages : y <= x}) <= k}
           fit == IF Cardinality(batch) < bufferSize THEN bufferSize - 1 - Cardinality(batch) ELSE 0
           n == IF Cardinality(messages) - fit \in Nat THEN Cardinality(messages) - fit ELSE 0
<1>2. fit \in Nat
  BY <1>1, PipeAssumption
<1>3. n \in Nat /\ 1 .. Cardinality(messages) - fit = 1 .. n
  <2> HIDE DEF fit
  <2>. QED
    BY <1>1, <1>2
<1>4. \A k : batch \cup first(k) \in SUBSET Messages
  OBVIOUS
<1>5. Filled(messages) = [i \in 1 .. n |-> batch \cup first(fit + i)]
  BY <1>3 DEF Filled
<1> HIDE DEF first, fit, n
<1>. QED
  BY <1>3, <1>4, <1>5

LEMMA RemovedIs ==
  ASSUME NEW S, NEW s \in Seq(S), NEW i \in DOMAIN s
  PROVE  RemoveAt(s, i) \in Seq(S)
<1>1. SubSeq(s, 1, i - 1) \in Seq(S) /\ SubSeq(s, i + 1, Len(s)) \in Seq(S)
  OBVIOUS
<1>. QED
  BY <1>1 DEF RemoveAt

LEMMA PublishedIs ==
  ASSUME PipeTypeOK, NEW payload \in SUBSET Messages, publishBatch(payload)
  PROVE  calls' \in Seq(SUBSET Messages)
  BY DEF publishBatch, PipeTypeOK

\* No message leaves the pipe unseen: one that was written to the socket is in
\* it, in the Sensor's buffers, at the broker or among those known to be lost.
NoneVanishes == 1 .. issued \subseteq stream \cup buffer \cup batch \cup broker \cup lost

PipeInv == PipeTypeOK /\ faults \in 0 .. MaxFaults /\ NoneVanishes

LEMMA PipeInvInit == Init => PipeInv
<1> SUFFICES ASSUME Init PROVE PipeInv
  OBVIOUS
<1>1. issued = 0 /\ calls = <<>> /\ {stream, buffer, batch, broker, lost} \subseteq SUBSET Messages
  BY DEF Init, PipeInit
<1>2. issued \in 0 .. MaxReadings /\ faults \in 0 .. MaxFaults /\ 1 .. issued = {}
  BY <1>1, FaultsAssumption, PipeAssumption DEF Init
<1>3. {open, mqtt} \subseteq BOOLEAN
  BY DEF Init, PipeInit
<1>. QED
  BY <1>1, <1>2, <1>3 DEF PipeInv, PipeTypeOK, NoneVanishes

LEMMA SendDataKeeps ==
  ASSUME PipeTypeOK, NoneVanishes, sendData PROVE PipeTypeOK' /\ NoneVanishes'
<1>1. CASE open /\ issued < MaxReadings
  <2>1. issued' \in Messages /\ issued' = issued + 1 /\ stream' = stream \cup {issued'}
    BY <1>1, PipeAssumption DEF sendData, PipeTypeOK, Messages
  <2>2. PipeTypeOK'
    BY <2>1 DEF sendData, PipeTypeOK, Messages
  <2>3. 1 .. issued' \subseteq 1 .. issued \cup {issued'}
    BY <2>1 DEF PipeTypeOK
  <2>. QED
    BY <2>1, <2>2, <2>3 DEF NoneVanishes, sendData
<1>2. CASE ~(open /\ issued < MaxReadings)
  BY <1>2 DEF sendData, PipeTypeOK, NoneVanishes
<1>. QED
  BY <1>1, <1>2

LEMMA OnDataKeeps ==
  ASSUME PipeTypeOK, NoneVanishes, NEW chunk \in SUBSET stream, onData(chunk)
  PROVE  PipeTypeOK' /\ NoneVanishes'
<1> DEFINE received == buffer \cup chunk
<1>0. /\ stream \in SUBSET Messages /\ buffer \in SUBSET Messages /\ batch \in SUBSET Messages
      /\ received \in SUBSET Messages /\ calls \in Seq(SUBSET Messages)
  BY DEF PipeTypeOK
<1>1. CASE Cardinality(received) > bufferCapacity
  <2>1. buffer' = received /\ publishBatch(batch) /\ batch' = batch
    BY <1>1 DEF onData
  <2>2. calls' \in Seq(SUBSET Messages)
    BY <1>0, <2>1, PublishedIs
  <2>. QED
    BY <1>0, <2>1, <2>2 DEF onData, PipeTypeOK, NoneVanishes
<1>2. CASE ~(Cardinality(received) > bufferCapacity)
  <2>1. /\ buffer' = {} /\ batch' = batch \cup received
        /\ calls' = IF mqtt THEN calls \o Filled(received) ELSE calls
    BY <1>2 DEF onData
  <2>2. calls' \in Seq(SUBSET Messages)
    <3>1. Filled(received) \in Seq(SUBSET Messages)
      BY <1>0, FilledIs
    <3>. QED
      BY <1>0, <2>1, <3>1
  <2>. QED
    BY <1>0, <2>1, <2>2 DEF onData, PipeTypeOK, NoneVanishes
<1>. QED
  BY <1>1, <1>2

LEMMA SettleKeeps ==
  ASSUME PipeTypeOK, NoneVanishes, NEW i \in DOMAIN calls, Published(i) \/ PublishFails(i)
  PROVE  PipeTypeOK' /\ NoneVanishes'
<1>1. calls[i] \in SUBSET Messages /\ calls' \in Seq(SUBSET Messages)
  BY RemovedIs DEF PipeTypeOK, Published, PublishFails
<1>2. CASE Published(i)
  BY <1>1, <1>2 DEF Published, PipeTypeOK, NoneVanishes
<1>3. CASE PublishFails(i)
  BY <1>1, <1>3 DEF PublishFails, PipeTypeOK, NoneVanishes
<1>. QED
  BY <1>2, <1>3

LEMMA PipeInvNext == PipeInv /\ [Next]_vars => PipeInv'
<1> SUFFICES ASSUME PipeInv, [Next]_vars PROVE PipeInv'
  OBVIOUS
<1>0. PipeTypeOK /\ NoneVanishes /\ faults \in 0 .. MaxFaults
  BY DEF PipeInv
<1>1. faults' \in 0 .. MaxFaults
  <2>1. faults' = faults \/ Fault
    BY DEF Next, Pipe, Settle, vars
  <2>. QED
    BY <1>0, <2>1, FaultsAssumption DEF Fault
<1>2. CASE UNCHANGED pipeVars
  BY <1>0, <1>1, <1>2 DEF pipeVars, PipeInv, PipeTypeOK, NoneVanishes
<1>3. CASE sendData
  BY <1>0, <1>1, <1>3, SendDataKeeps DEF PipeInv
<1>4. CASE ToSensor
  <2>1. PICK last \in stream : onData({m \in stream : m <= last})
    BY <1>4 DEF ToSensor
  <2>2. {m \in stream : m <= last} \in SUBSET stream
    OBVIOUS
  <2>. QED
    BY <1>0, <1>1, <2>1, <2>2, OnDataKeeps DEF PipeInv
<1>5. CASE SensorConnects
  BY <1>0, <1>1, <1>5 DEF SensorConnects, Connect, PipeInv, PipeTypeOK, NoneVanishes
<1>6. CASE BufferTimer
  <2>1. batch \in SUBSET Messages /\ publishBatch(batch)
    BY <1>0, <1>6 DEF BufferTimer, PipeTypeOK
  <2>2. calls' \in Seq(SUBSET Messages)
    BY <1>0, <2>1, PublishedIs
  <2>. QED
    BY <1>0, <1>1, <1>6, <2>2 DEF BufferTimer, PipeInv, PipeTypeOK, NoneVanishes
<1>7. CASE BrokerLink
  BY <1>0, <1>1, <1>7 DEF BrokerLink, PipeInv, PipeTypeOK, NoneVanishes
<1>8. CASE Settle
  <2>1. PICK i \in DOMAIN calls : Published(i) \/ PublishFails(i)
    BY <1>8 DEF Settle
  <2>. QED
    BY <1>0, <1>1, <2>1, SettleKeeps DEF PipeInv
<1>9. CASE SocketCloses
  <2>1. batch \in SUBSET Messages /\ publishBatch(batch)
    BY <1>0, <1>9 DEF SocketCloses, PipeTypeOK
  <2>2. calls' \in Seq(SUBSET Messages)
    BY <1>0, <2>1, PublishedIs
  <2>. QED
    BY <1>0, <1>1, <1>9, <2>2 DEF SocketCloses, PipeInv, PipeTypeOK, NoneVanishes
<1>10. \/ UNCHANGED pipeVars \/ sendData
       \/ ToSensor \/ SensorConnects \/ BufferTimer \/ BrokerLink \/ Settle \/ SocketCloses
  BY DEF Next, Pipe, Poller, Read, Polls, Connects, Retries, vars
<1>. QED
  BY <1>2, <1>3, <1>4, <1>5, <1>6, <1>7, <1>8, <1>9, <1>10

\* Every reachable state of poller and pipe is well formed: the counters of the
\* timers never fall below zero (cleanupDevice and the chains never take off a
\* timer that is not there), and what is published is made of messages.
THEOREM TypeCorrect == Spec => []TypeOK
<1>1. PollInv /\ PipeInv => TypeOK
  BY DEF PollInv, PipeInv, TypeOK
<1>. QED
  BY <1>1, PollInvInit, PollInvNext, PipeInvInit, PipeInvNext, PTL DEF Spec

\* The safety behind Drained: whatever fails, overlaps or closes, the agent loses
\* a message only at the two places that history lost records, a socket that
\* closes and the end of an older publish.
THEOREM NoneVanishesCorrect == Spec => []NoneVanishes
<1>1. PipeInv => NoneVanishes
  BY DEF PipeInv
<1>. QED
  BY <1>1, PipeInvInit, PipeInvNext, PTL DEF Spec
=============================================================================
