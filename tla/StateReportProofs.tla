-------------------------- MODULE StateReportProofs --------------------------
(***************************************************************************)
(* Proofs about StateReport, for any bounds and whatever may fail.         *)
(***************************************************************************)
EXTENDS StateReport, TLAPS

\* TypeOK is not inductive alone: the shape could outgrow the apps, and a flush
\* could find its queue empty.
ReportInv ==
  /\ TypeOK
  /\ device.shape <= device.apps
  /\ flushing => queue # <<>>
-----------------------------------------------------------------------------
LEMMA MayHoldIs ==
  ASSUME NEW messages \in Seq(Report), Len(messages) <= MaxInFlight, NEW m \in Report,
         NEW held \in MayHold(messages, m)
  PROVE  held \in Seq(Report) /\ Len(held) <= MaxInFlight
  BY ReportAssumption DEF MayHold

LEMMA StoredIs ==
  ASSUME NEW m \in Report
  PROVE  Stored(m) \in [known : BOOLEAN, apps : Value, config : Config]
  BY ReportAssumption DEF Stored, Report, Config, Absent

\* What sendReport() may do to the transports and to the cloud
TransportOK ==
  /\ broker \in Seq(Report) /\ Len(broker) <= MaxInFlight
  /\ late \in Seq(Report) /\ Len(late) <= MaxInFlight
  /\ cloud \in [known : BOOLEAN, apps : Value, config : Config]

LEMMA SendsKeeps ==
  ASSUME TransportOK, NEW m \in Report, Sends(m) \/ Refuses(m) PROVE TransportOK'
<1>1. CASE Sends(m)
  <2>1. CASE Len(broker) < MaxInFlight /\ broker' = Append(broker, m) /\ UNCHANGED <<late, cloud>>
    BY <2>1, ReportAssumption DEF TransportOK
  <2>2. CASE cloud' = Stored(m) /\ broker' \in MayHold(broker, m) /\ UNCHANGED late
    BY <2>2, MayHoldIs, StoredIs DEF TransportOK
  <2>. QED
    BY <1>1, <2>1, <2>2 DEF Sends
<1>2. CASE Refuses(m)
  BY <1>2, MayHoldIs DEF Refuses, TransportOK
<1>. QED
  BY <1>1, <1>2

\* The rest of the state
AgentOK ==
  /\ device \in [apps : Value, shape : Value, config : Config] /\ device.shape <= device.apps
  /\ metricsDue \in BOOLEAN /\ flushing \in BOOLEAN
  /\ lastSent \in [first : BOOLEAN, shape : Value, config : Config]
  /\ job \in [busy : BOOLEAN, shape : Value, config : Config, report : Report]
  /\ queue \in Seq(Report) /\ Len(queue) <= MaxQueue
  /\ flushing => queue # <<>>

LEMMA Parts == ReportInv <=> AgentOK /\ TransportOK
  BY DEF ReportInv, TypeOK, AgentOK, TransportOK

LEMMA IdleIs == IdleJob \in [busy : BOOLEAN, shape : Value, config : Config, report : Report]
<1>1. 0 \in Value /\ 0 \in Config
  BY ReportAssumption DEF Value, Config
<1>. QED
  BY <1>1 DEF IdleJob, NoReport, Report

LEMMA ReportInvInit == Init => ReportInv
<1> SUFFICES ASSUME Init PROVE AgentOK /\ TransportOK
  BY Parts
<1>1. {0} \subseteq Value /\ {0, 1} \subseteq Config /\ 0 <= 0
  BY ReportAssumption DEF Value, Config
<1>2. AgentOK
  <2>1. /\ device \in [apps : Value, shape : Value, config : Config] /\ device.shape <= device.apps
        /\ lastSent \in [first : BOOLEAN, shape : Value, config : Config]
    BY <1>1 DEF Init
  <2>2. queue \in Seq(Report) /\ Len(queue) <= MaxQueue
    BY ReportAssumption DEF Init
  <2>3. metricsDue \in BOOLEAN /\ flushing \in BOOLEAN /\ flushing = FALSE
    BY DEF Init
  <2>4. job \in [busy : BOOLEAN, shape : Value, config : Config, report : Report]
    BY IdleIs DEF Init
  <2>. QED
    BY <2>1, <2>2, <2>3, <2>4 DEF AgentOK
<1>3. TransportOK
  BY <1>1, ReportAssumption DEF Init, TransportOK
<1>. QED
  BY <1>2, <1>3

LEMMA ReportInvNext == ReportInv /\ [Next]_vars => ReportInv'
<1> SUFFICES ASSUME ReportInv, [Next]_vars PROVE ReportInv'
  OBVIOUS
<1> SUFFICES AgentOK' /\ TransportOK'
  BY DEF ReportInv, TypeOK, AgentOK, TransportOK
<1>0. AgentOK /\ TransportOK
  BY Parts
<1> USE ReportAssumption
<1>1. CASE AppsChange
  <2>1. PICK shape \in {device.shape, device.shape + 1} :
          device' = [device EXCEPT !.apps = @ + 1, !.shape = shape]
    BY <1>0, <1>1 DEF AppsChange
  <2>2. /\ device.apps \in Nat /\ device.shape \in Nat /\ device.apps < MaxChanges
        /\ device.shape <= device.apps
    BY <1>0, <1>1 DEF AppsChange, AgentOK, Value
  <2>3. device.apps + 1 \in Value /\ shape \in Value /\ shape <= device.apps + 1
    BY <2>2 DEF Value
  <2>4. /\ device' \in [apps : Value, shape : Value, config : Config]
        /\ device'.shape <= device'.apps
    BY <1>0, <2>1, <2>3 DEF AgentOK
  <2>. QED
    BY <1>0, <1>1, <2>4 DEF AppsChange, AgentOK, TransportOK
<1>2. CASE ConfigChange
  <2>1. device.config + 1 \in Config
    BY <1>0, <1>2 DEF ConfigChange, AgentOK, Config
  <2>2. /\ device' \in [apps : Value, shape : Value, config : Config]
        /\ device'.shape <= device'.apps
    BY <1>0, <1>2, <2>1 DEF ConfigChange, AgentOK
  <2>. QED
    BY <1>0, <1>2, <2>2 DEF ConfigChange, AgentOK, TransportOK
<1>3. CASE MetricsInterval
  BY <1>0, <1>3 DEF MetricsInterval, AgentOK, TransportOK
<1>4. CASE BuildReport
  <2>1. job' \in [busy : BOOLEAN, shape : Value, config : Config, report : Report]
    BY <1>0, <1>4 DEF BuildReport, AgentOK, Report
  <2>. QED
    BY <1>0, <1>4, <2>1 DEF BuildReport, AgentOK, TransportOK
<1>5. CASE ReportSent
  <2>1. TransportOK'
    BY <1>0, <1>5, SendsKeeps DEF ReportSent, AgentOK
  <2>2. lastSent' \in [first : BOOLEAN, shape : Value, config : Config]
    BY <1>0, <1>5 DEF ReportSent, AgentOK
  <2>. QED
    BY <1>0, <1>5, <2>1, <2>2, IdleIs DEF ReportSent, AgentOK
<1>6. CASE ReportFails
  <2>1. TransportOK'
    BY <1>0, <1>6, SendsKeeps DEF ReportFails, AgentOK
  <2>2. queue' \in Seq(Report) /\ Len(queue') <= MaxQueue /\ queue' # <<>>
    BY <1>0, <1>6 DEF ReportFails, AgentOK
  <2>. QED
    BY <1>0, <1>6, <2>1, <2>2, IdleIs DEF ReportFails, AgentOK
<1>7. CASE FlushStart
  BY <1>0, <1>7 DEF FlushStart, AgentOK, TransportOK
<1>8. CASE FlushSent
  <2>1. Head(queue) \in Report /\ Tail(queue) \in Seq(Report) /\ Len(Tail(queue)) <= MaxQueue
    BY <1>0, <1>8 DEF FlushSent, AgentOK
  <2>2. TransportOK'
    BY <1>0, <1>8, <2>1, SendsKeeps DEF FlushSent
  <2>. QED
    BY <1>0, <1>8, <2>1, <2>2 DEF FlushSent, AgentOK
<1>9. CASE FlushFails
  <2>1. Head(queue) \in Report
    BY <1>0, <1>9 DEF FlushFails, AgentOK
  <2>2. TransportOK'
    BY <1>0, <1>9, <2>1, SendsKeeps DEF FlushFails
  <2>. QED
    BY <1>0, <1>9, <2>2 DEF FlushFails, AgentOK
<1>10. CASE BrokerDelivers
  <2>1. Head(broker) \in Report /\ Tail(broker) \in Seq(Report) /\ Len(Tail(broker)) <= MaxInFlight
    BY <1>0, <1>10 DEF BrokerDelivers, TransportOK
  <2>. QED
    BY <1>0, <1>10, <2>1, StoredIs DEF BrokerDelivers, AgentOK, TransportOK
<1>11. CASE LateArrives
  <2>1. Head(late) \in Report /\ Tail(late) \in Seq(Report) /\ Len(Tail(late)) <= MaxInFlight
    BY <1>0, <1>11 DEF LateArrives, TransportOK
  <2>. QED
    BY <1>0, <1>11, <2>1, StoredIs DEF LateArrives, AgentOK, TransportOK
<1>12. CASE UNCHANGED vars
  BY <1>0, <1>12 DEF vars, AgentOK, TransportOK
<1>. QED
  BY <1>1, <1>2, <1>3, <1>4, <1>5, <1>6, <1>7, <1>8, <1>9, <1>10, <1>11, <1>12 DEF Next

\* Every reachable state is well formed, whatever sends fail and whatever copies
\* they leave behind: the queue of failed reports stays within its limit, what is
\* flushed from it is a report, and what the cloud stores is what the device was.
THEOREM TypeCorrect == Spec => []TypeOK
<1>1. ReportInv => TypeOK
  BY DEF ReportInv
<1>. QED
  BY <1>1, ReportInvInit, ReportInvNext, PTL DEF Spec
=============================================================================
