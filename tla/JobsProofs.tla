----------------------------- MODULE JobsProofs -----------------------------
(***************************************************************************)
(* Proofs about Jobs, for any number of jobs and devices, any documents    *)
(* and any number of faults: types, what a success in the cloud means, and *)
(* how often a device starts a job.                                        *)
(***************************************************************************)
EXTENDS Jobs, WellFoundedInduction, TLAPS

LEMMA OldestQueued ==
  ASSUME NEW S \in SUBSET Jobs, S # {}
  PROVE  Oldest(S) \in S
<1>1. S \in SUBSET Nat
  BY JobAssumption
<1>2. PICK x \in S : \A y \in S : ~(<<y, x>> \in OpToRel(<, Nat))
  BY <1>1, NatLessThanWellFounded, WFMin
<1>3. \A y \in S : ~(y < x)
  BY <1>1, <1>2 DEF OpToRel
<1>4. \A y \in S : x <= y
  BY <1>1, <1>3
<1>. QED
  BY <1>4 DEF Oldest
-----------------------------------------------------------------------------
\* What is handled or handed out is a job.
RunsJob == \A d \in Devices : run[d].pc # "idle" => run[d].job \in Jobs
HandsJob == \A d \in Devices : asking[d].pc = "update" => asking[d].job \in Jobs

Types == MqttTypeOK /\ TableTypeOK /\ HandsJob /\ FeatureTypeOK /\ RunsJob

TypeInv == Types /\ faults \in 0 .. MaxFaults

LEMMA TypeInvInit == Init => TypeInv
<1> SUFFICES ASSUME Init PROVE TypeInv
  OBVIOUS
<1>1. MqttTypeOK
  BY DEF Init, MqttInit, MqttTypeOK, Links
<1>2. TableTypeOK /\ HandsJob
  BY DEF Init, TableInit, TableTypeOK, HandsJob, NotAsking, NoNotice, Status
<1>3. FeatureTypeOK /\ RunsJob
  BY StepsAssumption DEF Init, FeatureInit, FeatureTypeOK, RunsJob, Idle
<1>. QED
  BY <1>1, <1>2, <1>3, FaultsAssumption DEF Init, TypeInv, Types

\* Every step of the connection is a step of its types.
LEMMA LinkTypes ==
  ASSUME MqttTypeOK, NEW d \in Devices,
         \/ Connect(d) \/ ConnectSucceeds(d) \/ ConnectRefused(d) \/ ConnectTimesOut(d)
         \/ ConnectionCloses(d) \/ Unsubscribe(d) \/ MqttGone(d)
         \/ (\E ok \in BOOLEAN : Subscribe(d, ok)) \/ UNCHANGED mqttVars
  PROVE  MqttTypeOK'
BY DEF MqttTypeOK, Links, Connect, ConnectSucceeds, ConnectRefused, ConnectTimesOut,
       ConnectionCloses, Unsubscribe, MqttGone, Subscribe, Linked, Grant, mqttVars

\* An UPDATE sets one row to its status, or nothing.
LEMMA RowSet ==
  ASSUME rows \in [Jobs -> [Devices -> Status]], NEW j \in Jobs, NEW d \in Devices,
         NEW status \in Status, SetRow(j, d, status)
  PROVE  /\ rows' \in [Jobs -> [Devices -> Status]]
         /\ rows'[j][d] = IF rows[j][d] = "none" THEN "none" ELSE status
         /\ \A k \in Jobs, c \in Devices : <<k, c>> # <<j, d>> => rows'[k][c] = rows[k][c]
<1>1. rows' = [rows EXCEPT ![j] =
                 [rows[j] EXCEPT ![d] = IF rows[j][d] = "none" THEN "none" ELSE status]]
  BY DEF SetRow
<1> DEFINE row == [rows[j] EXCEPT ![d] = IF rows[j][d] = "none" THEN "none" ELSE status]
<1>2. /\ row \in [Devices -> Status]
      /\ row[d] = IF rows[j][d] = "none" THEN "none" ELSE status
      /\ \A c \in Devices : c # d => row[c] = rows[j][c]
  BY DEF Status
<1>3. rows' = [rows EXCEPT ![j] = row]
  BY <1>1
<1> HIDE DEF row
<1>4. /\ rows' \in [Jobs -> [Devices -> Status]] /\ rows'[j] = row
      /\ \A k \in Jobs : k # j => rows'[k] = rows[k]
  BY <1>2, <1>3
<1>. QED
  BY <1>2, <1>4

Counts == [Devices -> [Jobs -> Nat]]

OneMore(f, j, reached) ==
  [d \in Devices |-> IF d \in reached THEN [f[d] EXCEPT ![j] = f[d][j] + 1] ELSE f[d]]

LEMMA CountOneMore ==
  ASSUME NEW f \in Counts, NEW j \in Jobs, NEW reached
  PROVE  /\ OneMore(f, j, reached) \in Counts
         /\ \A d \in Devices, k \in Jobs :
              OneMore(f, j, reached)[d][k] = IF d \in reached /\ k = j THEN f[d][k] + 1 ELSE f[d][k]
<1>1. ASSUME NEW d \in Devices
      PROVE  /\ [f[d] EXCEPT ![j] = f[d][j] + 1] \in [Jobs -> Nat]
             /\ \A k \in Jobs : [f[d] EXCEPT ![j] = f[d][j] + 1][k] =
                                IF k = j THEN f[d][k] + 1 ELSE f[d][k]
  BY DEF Counts
<1>2. \A d \in Devices : f[d] \in [Jobs -> Nat]
  BY DEF Counts
<1>. QED
  BY <1>1, <1>2 DEF Counts, OneMore

\* A copy on its way is counted as sent, a copy that has come in is not on its way.
LEMMA SentCounts ==
  ASSUME notices \in Counts, copies \in Counts, NEW j \in Jobs, NEW reached, Sent(j, reached)
  PROVE  /\ notices' \in Counts /\ copies' \in Counts
         /\ \A d \in Devices, k \in Jobs :
              \/ notices'[d][k] = notices[d][k] /\ copies'[d][k] = copies[d][k]
              \/ /\ k = j
                 /\ notices'[d][k] = notices[d][k] + 1 /\ copies'[d][k] = copies[d][k] + 1
<1>1. notices' = OneMore(notices, j, reached) /\ copies' = OneMore(copies, j, reached)
  BY DEF Sent, OneMore
<1>2. /\ notices' \in Counts
      /\ \A d \in Devices, k \in Jobs :
           notices'[d][k] = IF d \in reached /\ k = j THEN notices[d][k] + 1 ELSE notices[d][k]
  BY <1>1, CountOneMore
<1>3. /\ copies' \in Counts
      /\ \A d \in Devices, k \in Jobs :
           copies'[d][k] = IF d \in reached /\ k = j THEN copies[d][k] + 1 ELSE copies[d][k]
  BY <1>1, CountOneMore
<1>. QED
  BY <1>2, <1>3

LEMMA NoticeUsed ==
  ASSUME notices \in Counts, NEW d \in Devices, NEW j \in Jobs, notices[d][j] > 0,
         notices' = [notices EXCEPT ![d][j] = @ - 1]
  PROVE  /\ notices' \in Counts /\ notices'[d][j] = notices[d][j] - 1
         /\ \A c \in Devices, k \in Jobs : <<c, k>> # <<d, j>> => notices'[c][k] = notices[c][k]
<1> DEFINE of == [notices[d] EXCEPT ![j] = notices[d][j] - 1]
<1>1. notices' = [notices EXCEPT ![d] = of]
  OBVIOUS
<1>2. /\ of \in [Jobs -> Nat] /\ of[j] = notices[d][j] - 1
      /\ \A k \in Jobs : k # j => of[k] = notices[d][k]
  BY DEF Counts
<1> HIDE DEF of
<1>. QED
  BY <1>1, <1>2 DEF Counts

LEMMA NoticesForgotten ==
  ASSUME notices \in Counts, NEW d \in Devices,
         notices' \in {notices, [notices EXCEPT ![d] = NoNotice]}
  PROVE  /\ notices' \in Counts
         /\ \A c \in Devices, k \in Jobs : notices'[c][k] <= notices[c][k]
<1>1. NoNotice \in [Jobs -> Nat] /\ \A k \in Jobs : NoNotice[k] = 0
  BY DEF NoNotice
<1>2. \A c \in Devices, k \in Jobs : notices[c][k] \in Nat
  BY DEF Counts
<1>3. \A c \in Devices : notices'[c] \in {notices[c], NoNotice}
  BY DEF Counts
<1>4. notices' \in Counts
  BY <1>1 DEF Counts
<1>. QED
  BY <1>1, <1>2, <1>3, <1>4

LEMMA TableSame == TableTypeOK /\ UNCHANGED tableVars => TableTypeOK'
BY DEF TableTypeOK, tableVars

LEMMA FeatureSame == FeatureTypeOK /\ RunsJob /\ UNCHANGED featureVars => FeatureTypeOK' /\ RunsJob'
BY DEF FeatureTypeOK, RunsJob, featureVars

\* Steps of the cloud
LEMMA PostTypes == TypeInv /\ Post => TableTypeOK' /\ HandsJob'
<1> SUFFICES ASSUME TypeInv, NEW j \in Jobs, ExecuteJob(j) \/ NotifyDevices(j)
             PROVE  TableTypeOK' /\ HandsJob'
  BY DEF Post
<1>1. CASE ExecuteJob(j)
  BY <1>1 DEF ExecuteJob, TypeInv, Types, TableTypeOK, HandsJob, Status
<1>2. CASE NotifyDevices(j)
  <2>1. notices' \in Counts /\ copies' \in Counts
    BY <1>2, SentCounts DEF NotifyDevices, TypeInv, Types, TableTypeOK, Counts
  <2>. QED
    BY <1>2, <2>1 DEF NotifyDevices, TypeInv, Types, TableTypeOK, HandsJob, Counts
<1>. QED
  BY <1>1, <1>2

LEMMA NotifyAgainTypes ==
  ASSUME TypeInv, NEW j \in Jobs, NotifyAgain(j)
  PROVE  TableTypeOK' /\ HandsJob'
<1>1. notices' \in Counts /\ copies' \in Counts
  BY SentCounts DEF NotifyAgain, TypeInv, Types, TableTypeOK, Counts
<1>. QED
  BY <1>1 DEF NotifyAgain, TypeInv, Types, TableTypeOK, HandsJob, Counts

LEMMA UserTypes ==
  ASSUME TypeInv, NEW j \in Jobs, CancelJob(j) \/ DeleteJob(j)
  PROVE  TableTypeOK' /\ HandsJob'
<1>1. rows' \in [Jobs -> [Devices -> Status]]
  <2>1. rows \in [Jobs -> [Devices -> Status]]
    BY DEF TypeInv, Types, TableTypeOK
  <2>2. CASE CancelJob(j)
    <3>1. [d \in Devices |-> IF rows[j][d] \in {"QUEUED", "IN_PROGRESS"}
                             THEN "CANCELED" ELSE rows[j][d]] \in [Devices -> Status]
      BY <2>1 DEF Status
    <3>. QED
      BY <2>1, <2>2, <3>1 DEF CancelJob
  <2>3. CASE DeleteJob(j)
    BY <2>1, <2>3 DEF DeleteJob, Status
  <2>. QED
    BY <2>2, <2>3
<1>. QED
  BY <1>1 DEF CancelJob, DeleteJob, TypeInv, Types, TableTypeOK, HandsJob

LEMMA HandOutTypes ==
  ASSUME TypeInv, NEW d \in Devices, NextSelect(d) \/ NextUpdate(d)
  PROVE  TableTypeOK' /\ HandsJob'
<1>1. CASE NextSelect(d)
  <2>1. QueuedFor(d) # {} => Oldest(QueuedFor(d)) \in Jobs
    BY OldestQueued DEF QueuedFor
  <2>. QED
    BY <1>1, <2>1 DEF NextSelect, TypeInv, Types, TableTypeOK, HandsJob
<1>2. CASE NextUpdate(d)
  <2>1. rows' \in [Jobs -> [Devices -> Status]]
    BY <1>2, RowSet DEF NextUpdate, TypeInv, Types, TableTypeOK, HandsJob, Status
  <2>. QED
    BY <1>2, <2>1 DEF NextUpdate, TypeInv, Types, TableTypeOK, HandsJob
<1>. QED
  BY <1>1, <1>2

\* Every report and every late request sets one row, to a status that the report
\* names or to IN_PROGRESS, and adds nothing to what is on its way.
LEMMA ReportsSetRow ==
  ASSUME TypeInv,
         \/ \E p \in patches : PatchStatus(p)
         \/ \E m \in marking : MarkLate(m)
         \/ \E u \in updates : ApplyUpdate(u) \/ ApplyUpdateTwice(u)
  PROVE  /\ \E j \in Jobs, d \in Devices, status \in Reported :
              /\ SetRow(j, d, status)
              /\ status # "IN_PROGRESS" =>
                   [dev |-> d, job |-> j, status |-> status] \in patches \cup updates
         /\ patches' \subseteq patches /\ updates' \subseteq updates
         /\ marking' \subseteq marking
         /\ UNCHANGED <<posted, asking, notices, copies>>
<1> DEFINE Sets(j, d, status) ==
             /\ SetRow(j, d, status)
             /\ status # "IN_PROGRESS" =>
                  [dev |-> d, job |-> j, status |-> status] \in patches \cup updates
<1>1. ASSUME NEW r \in patches \cup updates, SetRow(r.job, r.dev, r.status)
      PROVE  \E j \in Jobs, d \in Devices, status \in Reported : Sets(j, d, status)
  <2>1. /\ r.job \in Jobs /\ r.dev \in Devices /\ r.status \in Reported
        /\ r = [dev |-> r.dev, job |-> r.job, status |-> r.status]
    BY DEF TypeInv, Types, TableTypeOK, Report
  <2>2. Sets(r.job, r.dev, r.status)
    BY <1>1, <2>1
  <2>. QED
    BY <2>1, <2>2
<1>2. ASSUME NEW m \in marking, SetRow(m[1], m[2], "IN_PROGRESS")
      PROVE  \E j \in Jobs, d \in Devices, status \in Reported : Sets(j, d, status)
  BY <1>2 DEF TypeInv, Types, TableTypeOK, Reported
<1>3. \E j \in Jobs, d \in Devices, status \in Reported : Sets(j, d, status)
  <2> HIDE DEF Sets
  <2>. QED
    BY <1>1, <1>2 DEF PatchStatus, MarkLate, ApplyUpdate, ApplyUpdateTwice
<1>. QED
  BY <1>3 DEF PatchStatus, MarkLate, ApplyUpdate, ApplyUpdateTwice

LEMMA ReportsTypes ==
  ASSUME TypeInv,
         \/ \E p \in patches : PatchStatus(p)
         \/ \E m \in marking : MarkLate(m)
         \/ \E u \in updates : ApplyUpdate(u) \/ ApplyUpdateTwice(u)
  PROVE  TableTypeOK' /\ HandsJob'
<1>1. rows' \in [Jobs -> [Devices -> Status]]
  <2>1. rows \in [Jobs -> [Devices -> Status]] /\ Reported \subseteq Status
    BY DEF TypeInv, Types, TableTypeOK, Reported, Status
  <2>. QED
    BY <2>1, ReportsSetRow, RowSet
<1>. QED
  BY <1>1, ReportsSetRow DEF TypeInv, Types, TableTypeOK, HandsJob
-----------------------------------------------------------------------------
\* Steps of an agent
LEMMA AskTypes ==
  ASSUME TypeInv, NEW d \in Devices,
         \/ Ask(d)
         \/ GiveUpAsking(d) /\ UNCHANGED <<posted, rows, patches, updates, copies>>
            /\ notices' \in {notices, [notices EXCEPT ![d] = NoNotice]}
  PROVE  TableTypeOK' /\ HandsJob'
<1>0. TableTypeOK /\ HandsJob
  BY DEF TypeInv, Types
<1>1. CASE Ask(d)
  BY <1>0, <1>1 DEF TableTypeOK, HandsJob, Ask
<1>2. CASE /\ GiveUpAsking(d) /\ UNCHANGED <<posted, rows, patches, updates, copies>>
           /\ notices' \in {notices, [notices EXCEPT ![d] = NoNotice]}
  <2>1. asking' = [asking EXCEPT ![d] = NotAsking]
    BY <1>2 DEF GiveUpAsking
  <2>2. marking' \subseteq Jobs \X Devices
    BY <1>0, <1>2 DEF GiveUpAsking, TableTypeOK, HandsJob
  <2>3. notices' \in [Devices -> [Jobs -> Nat]]
    BY <1>0, <1>2, NoticesForgotten DEF TableTypeOK, Counts
  <2>4. HandsJob' /\ asking' \in [Devices -> [pc : {"none", "select", "update", "answer"},
                                              job : Jobs \cup {NoJob}]]
    BY <1>0, <2>1 DEF TableTypeOK, HandsJob, NotAsking
  <2>. QED
    BY <1>0, <1>2, <2>2, <2>3, <2>4 DEF TableTypeOK
<1>. QED
  BY <1>1, <1>2

\* A started job is counted.
LEMMA BeginTypes ==
  ASSUME FeatureTypeOK, NEW d \in Devices, NEW j \in Jobs, Begin(d, j)
  PROVE  /\ run' \in [Devices -> [pc : {"idle", "steps"} \cup Sends \cup Waits,
                                   job : Jobs \cup {NoJob}, step : 0 .. Steps, ok : BOOLEAN]]
         /\ run'[d] = Beginning(j) /\ \A c \in Devices : c # d => run'[c] = run[c]
         /\ latest' \in [Devices -> Jobs \cup {NoJob}]
         /\ started' \in [Jobs -> [Devices -> Nat]]
         /\ started'[j][d] = started[j][d] + 1
         /\ \A k \in Jobs, c \in Devices : <<k, c>> # <<j, d>> => started'[k][c] = started[k][c]
<1>1. Beginning(j) \in [pc : {"idle", "steps"} \cup Sends \cup Waits,
                        job : Jobs \cup {NoJob}, step : 0 .. Steps, ok : BOOLEAN]
  BY StepsAssumption DEF Beginning, Sends
<1>2. run' = [run EXCEPT ![d] = Beginning(j)] /\ latest' = [latest EXCEPT ![d] = j]
  BY DEF Begin
<1> DEFINE of == [started[j] EXCEPT ![d] = started[j][d] + 1]
<1>3. started' = [started EXCEPT ![j] = of] /\ started[j][d] \in Nat
  BY DEF Begin, FeatureTypeOK
<1>4. /\ of \in [Devices -> Nat] /\ of[d] = started[j][d] + 1
      /\ \A c \in Devices : c # d => of[c] = started[j][c]
  BY DEF FeatureTypeOK
<1> HIDE DEF of
<1>5. /\ started' \in [Jobs -> [Devices -> Nat]] /\ started'[j] = of
      /\ \A k \in Jobs : k # j => started'[k] = started[k]
  BY <1>3, <1>4 DEF FeatureTypeOK
<1>6. latest' \in [Devices -> Jobs \cup {NoJob}]
  BY <1>2 DEF FeatureTypeOK
<1>7. /\ run' \in [Devices -> [pc : {"idle", "steps"} \cup Sends \cup Waits,
                                job : Jobs \cup {NoJob}, step : 0 .. Steps, ok : BOOLEAN]]
      /\ run'[d] = Beginning(j) /\ \A c \in Devices : c # d => run'[c] = run[c]
  BY <1>1, <1>2 DEF FeatureTypeOK
<1>. QED
  BY <1>4, <1>5, <1>6, <1>7

LEMMA ExecuteTypes ==
  ASSUME FeatureTypeOK, RunsJob, NEW d \in Devices,
         (\E j \in Jobs : Execute(d, j)) \/ UNCHANGED <<run, latest, started>>,
         UNCHANGED <<boot, needStop, subscribed, lastMqtt, httpPaused, passed>>
  PROVE  FeatureTypeOK' /\ RunsJob'
<1>1. CASE UNCHANGED <<run, latest, started>>
  BY <1>1 DEF FeatureTypeOK, RunsJob
<1>2. CASE \E j \in Jobs : Begin(d, j)
  <2>1. PICK j \in Jobs : Begin(d, j)
    BY <1>2
  <2>2. run'[d] = Beginning(j) /\ \A c \in Devices : c # d => run'[c] = run[c]
    BY <2>1, BeginTypes
  <2>3. Beginning(j).job \in Jobs
    BY DEF Beginning
  <2>4. RunsJob'
    BY <2>2, <2>3 DEF RunsJob
  <2>. QED
    BY <2>1, <2>4, BeginTypes DEF FeatureTypeOK
<1>. QED
  BY <1>1, <1>2 DEF Execute

\* A step of executeJob() keeps its job.
LEMMA RunTypes ==
  ASSUME FeatureTypeOK, RunsJob, NEW d \in Devices, run[d].pc # "idle", NEW r,
         r \in {Returned(run[d]), Thrown(run[d]), InHttp(run[d])},
         run' = [run EXCEPT ![d] = r],
         UNCHANGED <<boot, needStop, latest, subscribed, lastMqtt, httpPaused, started, passed>>
  PROVE  FeatureTypeOK' /\ RunsJob'
<1> DEFINE Runs == [pc : {"idle", "steps"} \cup Sends \cup Waits,
                    job : Jobs \cup {NoJob}, step : 0 .. Steps, ok : BOOLEAN]
<1>0. run \in [Devices -> Runs] /\ run[d] \in Runs /\ run[d].job \in Jobs
  BY DEF FeatureTypeOK, RunsJob
<1>1. Idle \in Runs /\ Idle.pc = "idle"
  BY StepsAssumption DEF Idle
<1>2. Returned(run[d]) \in Runs /\ (Returned(run[d]).pc # "idle" => Returned(run[d]).job \in Jobs)
  <2>1. 1 \in 0 .. Steps
    BY StepsAssumption
  <2> DEFINE working == [run[d] EXCEPT !.pc = "steps", !.step = 1]
  <2>2. working \in Runs /\ working.job \in Jobs
    BY <1>0, <2>1
  <2>3. Returned(run[d]) \in {working, Idle}
    BY DEF Returned
  <2> HIDE DEF working
  <2>. QED
    BY <1>1, <2>2, <2>3
<1>3. Thrown(run[d]) \in Runs /\ (Thrown(run[d]).pc # "idle" => Thrown(run[d]).job \in Jobs)
  BY <1>0, <1>1 DEF Thrown, Sends
<1>4. InHttp(run[d]) \in Runs /\ (InHttp(run[d]).pc # "idle" => InHttp(run[d]).job \in Jobs)
  BY <1>0, <1>1 DEF InHttp, Waits
<1>5. r \in Runs /\ (r.pc # "idle" => r.job \in Jobs)
  BY <1>2, <1>3, <1>4
<1>6. run' \in [Devices -> Runs] /\ RunsJob'
  BY <1>0, <1>5 DEF RunsJob
<1>. QED
  BY <1>6 DEF FeatureTypeOK

LEMMA ReportType ==
  ASSUME FeatureTypeOK, RunsJob, NEW d \in Devices, run[d].pc # "idle"
  PROVE  ReportOf(d) \in Report
BY DEF ReportOf, Report, Reported, StatusOf, FeatureTypeOK, RunsJob

\* A step goes on or ends the run; only the last one gets the job through.
LEMMA StepMakes ==
  ASSUME NEW d \in Devices, Step(d)
  PROVE  \E goesOn \in BOOLEAN :
           /\ run' = [run EXCEPT ![d] =
                        IF run[d].step = Steps \/ ~goesOn
                        THEN [run[d] EXCEPT !.pc = "end", !.ok = goesOn]
                        ELSE [run[d] EXCEPT !.step = run[d].step + 1]]
           /\ passed' = IF run[d].step = Steps /\ goesOn
                        THEN passed \cup {<<run[d].job, d>>} ELSE passed
<1> DEFINE Moves(goesOn) ==
             /\ run' = [run EXCEPT ![d] =
                          IF run[d].step = Steps \/ ~goesOn
                          THEN [run[d] EXCEPT !.pc = "end", !.ok = goesOn]
                          ELSE [run[d] EXCEPT !.step = run[d].step + 1]]
             /\ passed' = IF run[d].step = Steps /\ goesOn
                          THEN passed \cup {<<run[d].job, d>>} ELSE passed
<1>1. \E works \in BOOLEAN : Moves(works \/ run[d].step \in MayFail)
  BY DEF Step
<1>2. \A works \in BOOLEAN : (works \/ run[d].step \in MayFail) \in BOOLEAN
  OBVIOUS
<1> HIDE DEF Moves
<1>3. \E goesOn \in BOOLEAN : Moves(goesOn)
  BY <1>1, <1>2, Zenon
<1>. QED
  BY <1>3 DEF Moves

LEMMA StepTypes ==
  ASSUME FeatureTypeOK, RunsJob, NEW d \in Devices, Step(d)
  PROVE  FeatureTypeOK' /\ RunsJob'
<1> DEFINE Runs == [pc : {"idle", "steps"} \cup Sends \cup Waits,
                    job : Jobs \cup {NoJob}, step : 0 .. Steps, ok : BOOLEAN]
<1>0. /\ run \in [Devices -> Runs] /\ run[d] \in Runs /\ run[d].job \in Jobs
      /\ passed \subseteq Jobs \X Devices
  BY DEF FeatureTypeOK, RunsJob, Step
<1>1. PICK r : /\ run' = [run EXCEPT ![d] = r] /\ r \in Runs /\ r.job = run[d].job
               /\ passed' \in {passed, passed \cup {<<run[d].job, d>>}}
  <2>1. PICK goesOn \in BOOLEAN :
          /\ run' = [run EXCEPT ![d] =
                       IF run[d].step = Steps \/ ~goesOn
                       THEN [run[d] EXCEPT !.pc = "end", !.ok = goesOn]
                       ELSE [run[d] EXCEPT !.step = run[d].step + 1]]
          /\ passed' \in {passed, passed \cup {<<run[d].job, d>>}}
    BY StepMakes
  <2> DEFINE ended == [run[d] EXCEPT !.pc = "end", !.ok = goesOn]
             next == [run[d] EXCEPT !.step = run[d].step + 1]
  <2>2. ended \in Runs /\ ended.job = run[d].job
    BY <1>0, <2>1 DEF Sends
  <2>3. run[d].step # Steps => next \in Runs /\ next.job = run[d].job
    BY <1>0, StepsAssumption
  <2> HIDE DEF ended, next
  <2>4. CASE run[d].step = Steps \/ ~goesOn
    <3>1. run' = [run EXCEPT ![d] = ended]
      BY <2>1, <2>4 DEF ended
    <3>. QED
      BY <3>1, <2>1, <2>2
  <2>5. CASE ~(run[d].step = Steps \/ ~goesOn)
    <3>1. run' = [run EXCEPT ![d] = next]
      BY <2>1, <2>5 DEF next
    <3>. QED
      BY <3>1, <2>1, <2>3, <2>5
  <2>. QED
    BY <2>4, <2>5
<1>2. run' \in [Devices -> Runs] /\ RunsJob'
  BY <1>0, <1>1 DEF RunsJob
<1>3. passed' \subseteq Jobs \X Devices
  BY <1>0, <1>1
<1>. QED
  BY <1>2, <1>3 DEF FeatureTypeOK, Step

\* What updateJobStatus() does in one step: a report goes out, and the run goes on.
Reporting(d) == Publish(d) \/ FallBack(d) \/ PublishFails(d) \/ Patched(d) \/ PatchThrows(d)

LEMMA ReportingMakes ==
  ASSUME NEW d \in Devices, Reporting(d)
  PROVE  /\ run[d].pc \in Sends \cup Waits
         /\ \E r \in {Returned(run[d]), Thrown(run[d]), InHttp(run[d])} :
              run' = [run EXCEPT ![d] = r]
         /\ patches' \in {patches, patches \cup {ReportOf(d)}}
         /\ updates' \in {updates, updates \cup {ReportOf(d)}}
         /\ UNCHANGED unreported
<1>1. /\ \/ run' = [run EXCEPT ![d] = Returned(run[d])]
         \/ run' = [run EXCEPT ![d] = Thrown(run[d])]
         \/ run' = [run EXCEPT ![d] = InHttp(run[d])]
      /\ run[d].pc \in Sends \cup Waits
  BY DEF Reporting, Publish, FallBack, PublishFails, Patched, PatchThrows, SendPatch
<1>2. /\ patches' \in {patches, patches \cup {ReportOf(d)}}
      /\ updates' \in {updates, updates \cup {ReportOf(d)}}
      /\ UNCHANGED unreported
  BY DEF Reporting, Publish, FallBack, PublishFails, Patched, PatchThrows, SendPatch
<1>. QED
  BY <1>1, <1>2

LEMMA ReportingTypes ==
  ASSUME TypeInv, NEW d \in Devices, Reporting(d)
  PROVE  Types'
<1>1. run[d].pc # "idle"
  BY ReportingMakes DEF Sends, Waits
<1>2. UNCHANGED <<mqttVars, posted, rows, asking, marking, notices, copies, boot, needStop,
                  latest, subscribed, lastMqtt, httpPaused, started, passed>>
  BY ReportingMakes DEF unreported
<1>3. ReportOf(d) \in Report
  BY <1>1, ReportType DEF TypeInv, Types
<1>4. MqttTypeOK'
  BY <1>2, LinkTypes DEF TypeInv, Types
<1>5. patches' \subseteq Report /\ updates' \subseteq Report
  BY <1>3, ReportingMakes DEF TypeInv, Types, TableTypeOK
<1>6. TableTypeOK' /\ HandsJob'
  BY <1>2, <1>5 DEF TypeInv, Types, TableTypeOK, HandsJob
<1>7. FeatureTypeOK' /\ RunsJob'
  BY <1>1, <1>2, ReportingMakes, RunTypes DEF TypeInv, Types
<1>. QED
  BY <1>4, <1>6, <1>7 DEF Types

LEMMA FlagTypes ==
  ASSUME FeatureTypeOK, RunsJob, NEW d \in Devices,
         \/ Start(d) \/ Started(d) \/ MonitorTick(d) \/ Stop(d)
  PROVE  FeatureTypeOK' /\ RunsJob'
<1>1. /\ boot' \in {boot, [boot EXCEPT ![d] = "polling"], [boot EXCEPT ![d] = "started"]}
      /\ needStop' \in {needStop, [needStop EXCEPT ![d] = TRUE]}
      /\ UNCHANGED <<run, latest, started, passed>>
  BY DEF Start, Started, MonitorTick, Stop
<1>2. {isConnected(d), isConnected(d) /\ subscribed[d]} \subseteq BOOLEAN
  BY DEF isConnected
<1>3. /\ \E b \in BOOLEAN : subscribed' \in {subscribed, [subscribed EXCEPT ![d] = b]}
      /\ \E b \in BOOLEAN : lastMqtt' \in {lastMqtt, [lastMqtt EXCEPT ![d] = b]}
      /\ \E b \in BOOLEAN : httpPaused' \in {httpPaused, [httpPaused EXCEPT ![d] = b]}
  <2>1. CASE Start(d)
    BY <2>1 DEF Start
  <2>2. CASE Started(d)
    BY <2>2, <1>2 DEF Started
  <2>3. CASE MonitorTick(d)
    BY <2>3, <1>2 DEF MonitorTick
  <2>4. CASE Stop(d)
    BY <2>4 DEF Stop
  <2>. QED
    BY <2>1, <2>2, <2>3, <2>4
<1>4. boot' \in [Devices -> {"down", "polling", "started"}] /\ needStop' \in [Devices -> BOOLEAN]
  BY <1>1 DEF FeatureTypeOK
<1>5. {subscribed', lastMqtt', httpPaused'} \subseteq [Devices -> BOOLEAN]
  <2>1. ASSUME NEW f \in [Devices -> BOOLEAN], NEW g,
               \E b \in BOOLEAN : g \in {f, [f EXCEPT ![d] = b]}
        PROVE  g \in [Devices -> BOOLEAN]
    BY <2>1
  <2>2. {subscribed, lastMqtt, httpPaused} \subseteq [Devices -> BOOLEAN]
    BY DEF FeatureTypeOK
  <2>. QED
    BY <1>3, <2>1, <2>2
<1>. QED
  BY <1>1, <1>4, <1>5 DEF FeatureTypeOK, RunsJob

LEMMA GoneTypes ==
  ASSUME TypeInv, NEW d \in Devices, Gone(d)
  PROVE  Types'
<1>1. MqttTypeOK' /\ TableTypeOK' /\ HandsJob'
  BY LinkTypes, AskTypes DEF TypeInv, Types, Gone
<1>2. RunsJob'
  BY DEF Gone, TypeInv, Types, RunsJob, FeatureTypeOK, Idle
<1>3. FeatureTypeOK'
  BY StepsAssumption DEF Gone, TypeInv, Types, FeatureTypeOK, Idle
<1>. QED
  BY <1>1, <1>2, <1>3 DEF Types

LEMMA AgentTypes ==
  ASSUME TypeInv, NEW d \in Devices, Agent(d) \/ AskFails(d) \/ Stop(d) \/ Crash(d)
  PROVE  Types'
<1>0. FeatureTypeOK /\ RunsJob /\ MqttTypeOK /\ TableTypeOK /\ HandsJob
  BY DEF TypeInv, Types
<1>1. CASE Start(d)
  BY <1>0, <1>1, LinkTypes, AskTypes, FlagTypes DEF Types, Start
<1>2. CASE Started(d)
  <2>1. MqttTypeOK'
    BY <1>0, <1>2, LinkTypes DEF Started
  <2>2. TableTypeOK' /\ HandsJob'
    BY <1>0, <1>2, TableSame DEF Started, HandsJob, tableVars
  <2>. QED
    BY <1>0, <1>2, <2>1, <2>2, FlagTypes DEF Types
<1>3. CASE Publish(d) \/ FallBack(d) \/ Patched(d)
  BY <1>3, ReportingTypes DEF Reporting
<1>4. CASE Step(d)
  BY <1>0, <1>4, LinkTypes, TableSame, StepTypes DEF Types, Step, HandsJob, tableVars
<1>5. CASE Poll(d)
  BY <1>0, <1>5, LinkTypes, AskTypes, FeatureSame DEF Types, Poll
<1>6. CASE Answered(d)
  <2>1. asking[d].job # NoJob => asking[d].job \in Jobs
    BY <1>0 DEF TableTypeOK
  <2>2. FeatureTypeOK' /\ RunsJob'
    BY <1>0, <1>6, <2>1, ExecuteTypes DEF Answered
  <2>3. TableTypeOK' /\ HandsJob'
    BY <1>0, <1>6 DEF Answered, TableTypeOK, HandsJob, NotAsking
  <2>. QED
    BY <1>0, <1>6, <2>2, <2>3, LinkTypes DEF Types, Answered
<1>7. CASE MonitorTick(d)
  BY <1>0, <1>7, LinkTypes, TableSame, FlagTypes DEF Types, MonitorTick, HandsJob, tableVars
<1>8. CASE Stopped(d) \/ Crash(d)
  BY <1>8, GoneTypes DEF Stopped, Crash
<1>9. CASE \E j \in Jobs : Notified(d, j)
  <2>1. PICK j \in Jobs : Notified(d, j)
    BY <1>9
  <2>2. FeatureTypeOK' /\ RunsJob'
    BY <1>0, <2>1, ExecuteTypes DEF Notified
  <2>3. notices' \in Counts
    BY <1>0, <2>1, NoticeUsed DEF Notified, TableTypeOK, Counts
  <2>4. TableTypeOK' /\ HandsJob'
    BY <1>0, <2>1, <2>3 DEF Notified, TableTypeOK, HandsJob, Counts
  <2>. QED
    BY <1>0, <2>1, <2>2, <2>4, LinkTypes DEF Types, Notified
<1>10. CASE AskFails(d)
  BY <1>0, <1>10, LinkTypes, AskTypes, FeatureSame DEF Types, AskFails
<1>11. CASE Stop(d)
  <2>1. MqttTypeOK'
    BY <1>0, <1>11, LinkTypes DEF Stop, mqttVars
  <2>2. TableTypeOK' /\ HandsJob'
    BY <1>0, <1>11, TableSame DEF Stop, HandsJob, tableVars
  <2>. QED
    BY <1>0, <1>11, <2>1, <2>2, FlagTypes DEF Types
<1>. QED
  BY <1>1, <1>2, <1>3, <1>4, <1>5, <1>6, <1>7, <1>8, <1>9, <1>10, <1>11 DEF Agent, Work

LEMMA TypesNext == TypeInv /\ [Next]_vars => Types'
<1> SUFFICES ASSUME TypeInv, [Next]_vars PROVE Types'
  OBVIOUS
<1>0. Types
  BY DEF TypeInv, Types
<1>1. OnlyTable /\ TableTypeOK' /\ HandsJob' => Types'
  BY <1>0, FeatureSame DEF OnlyTable, Types, MqttTypeOK, mqttVars
<1>2. CASE Post
  BY <1>1, <1>2, PostTypes DEF Post
<1>3. CASE Patches \/ Late \/ \E u \in updates : ApplyUpdateTwice(u) /\ OnlyTable
  BY <1>1, <1>3, ReportsTypes DEF Patches, Late
<1>4. CASE \E j \in Jobs : (CancelJob(j) \/ DeleteJob(j) \/ NotifyAgain(j)) /\ OnlyTable
  BY <1>1, <1>4, UserTypes, NotifyAgainTypes
<1>5. ASSUME NEW d \in Devices, HandOut(d) PROVE Types'
  BY <1>1, <1>5, HandOutTypes DEF HandOut
<1>6. ASSUME NEW d \in Devices, Link(d) \/ Closes(d) PROVE Types'
  <2>1. MqttTypeOK'
    BY <1>0, <1>6, LinkTypes DEF Types, Link, Closes
  <2>2. FeatureTypeOK' /\ RunsJob'
    BY <1>0, <1>6, FeatureSame DEF Types, Link, Closes, OnlyLink
  <2>3. notices' \in Counts /\ UNCHANGED copies
    BY <1>0, <1>6, NoticesForgotten DEF Types, Link, Closes, TableTypeOK, Counts
  <2>4. TableTypeOK' /\ HandsJob'
    BY <1>0, <1>6, <2>3 DEF Types, Link, Closes, OnlyLink, TableTypeOK, HandsJob, Counts
  <2>. QED
    BY <2>1, <2>2, <2>4 DEF Types
<1>7. ASSUME NEW d \in Devices, Agent(d) \/ AskFails(d) \/ Stop(d) \/ Crash(d) PROVE Types'
  BY <1>7, AgentTypes
<1>8. ASSUME NEW d \in Devices, PublishFails(d) \/ PatchThrows(d) PROVE Types'
  BY <1>8, ReportingTypes DEF Reporting
<1>9. CASE UNCHANGED vars
  BY <1>0, <1>9, TableSame, FeatureSame DEF vars, Types, MqttTypeOK, mqttVars, HandsJob, tableVars
<1>. QED
  BY <1>2, <1>3, <1>4, <1>5, <1>6, <1>7, <1>8, <1>9 DEF Next, Fault

LEMMA TypeInvNext == TypeInv /\ [Next]_vars => TypeInv'
<1>1. TypeInv /\ [Next]_vars => faults' \in 0 .. MaxFaults
  BY FaultsAssumption DEF Next, TypeInv, vars
<1>. QED
  BY <1>1, TypesNext DEF TypeInv

LEMMA TypeInvHolds == Spec => []TypeInv
  BY TypeInvInit, TypeInvNext, PTL DEF Spec

(* Everything keeps its type: the row of a device, the requests and the    *)
(* messages on their way, and the states of every agent.                   *)
THEOREM TypeCorrect == Spec => []TypeOK
<1>1. TypeInv => TypeOK
  BY DEF TypeInv, Types, TypeOK
<1>. QED
  BY <1>1, TypeInvHolds, PTL
-----------------------------------------------------------------------------
(***************************************************************************)
(* SuccessTrue needs the reports on their way to be true, and the agent    *)
(* about to send one to be through with its job.                           *)
(***************************************************************************)
TrueReports == \A r \in patches \cup updates : r.status = "SUCCEEDED" => <<r.job, r.dev>> \in passed

Ending(d) == run[d].pc \in {"end", "endHttp"} /\ run[d].ok
TrueEndings == \A d \in Devices : Ending(d) => <<run[d].job, d>> \in passed

SuccessInv == SuccessTrue /\ TrueReports /\ TrueEndings

(***************************************************************************)
(* StartsAccounted: a device may yet start a job once for each copy of its *)
(* notification that is on its way, and once for jobs/next, until the row  *)
(* is no longer queued and no answer with the job is awaited.              *)
(***************************************************************************)
Asked(j, d) == asking[d].pc \in {"update", "answer"} /\ asking[d].job = j

ByPoll(j, d) == posted[j] = "no" \/ rows[j][d] = "QUEUED" \/ Asked(j, d)

Once(may) == IF may THEN 1 ELSE 0

StartsBounded(j, d) ==
  started[j][d] + notices[d][j] + Once(ByPoll(j, d)) <= copies[d][j] + 1

StartsFit(j, d) ==
  /\ StartsBounded(j, d)
  /\ posted[j] = "no" => rows[j][d] = "none" /\ ~Asked(j, d)
  /\ asking[d].pc = "answer" /\ asking[d].job = j => rows[j][d] # "QUEUED"

StartInv == \A j \in Jobs, d \in Devices : StartsFit(j, d)

JobsInv == TypeInv /\ SuccessInv /\ StartInv

LEMMA SuccessInvInit == Init => SuccessInv
BY DEF Init, TableInit, FeatureInit, SuccessInv, SuccessTrue, TrueReports, TrueEndings,
       Ending, Idle

LEMMA StartInvInit == Init => StartInv
<1> SUFFICES ASSUME Init, NEW j \in Jobs, NEW d \in Devices PROVE StartsFit(j, d)
  BY DEF StartInv
<1>1. /\ started[j][d] = 0 /\ rows[j][d] = "none" /\ ~Asked(j, d) /\ asking[d].pc = "none"
      /\ notices[d][j] = 0 /\ copies[d][j] = 0
  BY DEF Init, TableInit, FeatureInit, Asked, NotAsking, NoNotice
<1>. QED
  BY <1>1 DEF StartsFit, StartsBounded, Once

-----------------------------------------------------------------------------
\* What a step may do to a row that exists; a job's rows are inserted once.
RowMoves(j, d) ==
  \/ rows'[j][d] = rows[j][d]
  \/ rows[j][d] # "none" /\ rows'[j][d] \in {"none", "IN_PROGRESS", "FAILED", "CANCELED"}
  \/ /\ rows[j][d] # "none" /\ rows'[j][d] = "SUCCEEDED"
     /\ [dev |-> d, job |-> j, status |-> "SUCCEEDED"] \in patches \cup updates
  \/ posted[j] = "no" /\ posted'[j] = "inserted" /\ rows'[j][d] = "QUEUED"

RowsMove == \A j \in Jobs, d \in Devices : RowMoves(j, d)

LEMMA RowsMovePost ==
  ASSUME TypeInv, NEW j \in Jobs,
         ExecuteJob(j) \/ NotifyDevices(j) \/ CancelJob(j) \/ DeleteJob(j)
  PROVE  RowsMove
<1>0. rows \in [Jobs -> [Devices -> Status]]
  BY DEF TypeInv, Types, TableTypeOK
<1> SUFFICES ASSUME NEW k \in Jobs, NEW d \in Devices PROVE RowMoves(k, d)
  BY DEF RowsMove
<1>1. CASE ExecuteJob(j)
  BY <1>0, <1>1 DEF ExecuteJob, RowMoves, TypeInv, Types, TableTypeOK
<1>2. CASE NotifyDevices(j)
  BY <1>2 DEF NotifyDevices, RowMoves
<1>3. CASE CancelJob(j)
  <2>1. CASE k = j
    <3>1. rows'[k][d] = IF rows[k][d] \in {"QUEUED", "IN_PROGRESS"} THEN "CANCELED" ELSE rows[k][d]
      BY <1>0, <1>3, <2>1 DEF CancelJob
    <3>. QED
      BY <3>1 DEF RowMoves
  <2>2. CASE k # j
    BY <1>0, <1>3, <2>2 DEF CancelJob, RowMoves
  <2>. QED
    BY <2>1, <2>2
<1>4. CASE DeleteJob(j)
  BY <1>0, <1>4 DEF DeleteJob, RowMoves
<1>. QED
  BY <1>1, <1>2, <1>3, <1>4

LEMMA RowsMoveUpdate ==
  ASSUME TypeInv, NEW d \in Devices, NextSelect(d) \/ NextUpdate(d)
  PROVE  RowsMove /\ (asking[d].pc = "update" => rows'[asking[d].job][d] # "QUEUED")
<1>0. rows \in [Jobs -> [Devices -> Status]] /\ (asking[d].pc = "update" => asking[d].job \in Jobs)
  BY DEF TypeInv, Types, TableTypeOK, HandsJob
<1>1. CASE NextSelect(d)
  BY <1>1 DEF NextSelect, RowsMove, RowMoves
<1>2. CASE NextUpdate(d)
  <2>1. "IN_PROGRESS" \in Status
    BY DEF Status
  <2>2. asking[d].job \in Jobs /\ SetRow(asking[d].job, d, "IN_PROGRESS")
    BY <1>0, <1>2 DEF NextUpdate
  <2>. QED
    BY <1>0, <2>1, <2>2, RowSet DEF RowsMove, RowMoves
<1>. QED
  BY <1>1, <1>2

LEMMA RowsMoveReports ==
  ASSUME TypeInv,
         \/ \E p \in patches : PatchStatus(p)
         \/ \E m \in marking : MarkLate(m)
         \/ \E u \in updates : ApplyUpdate(u) \/ ApplyUpdateTwice(u)
  PROVE  RowsMove
<1>1. rows \in [Jobs -> [Devices -> Status]] /\ Reported \subseteq Status
  BY DEF TypeInv, Types, TableTypeOK, Reported, Status
<1>2. PICK j \in Jobs, d \in Devices, status \in Reported :
        /\ SetRow(j, d, status)
        /\ status # "IN_PROGRESS" =>
             [dev |-> d, job |-> j, status |-> status] \in patches \cup updates
  BY ReportsSetRow
<1>3. /\ rows'[j][d] = IF rows[j][d] = "none" THEN "none" ELSE status
      /\ \A k \in Jobs, c \in Devices : <<k, c>> # <<j, d>> => rows'[k][c] = rows[k][c]
  BY <1>1, <1>2, RowSet
<1>4. RowMoves(j, d)
  BY <1>2, <1>3 DEF RowMoves, Reported
<1>. QED
  BY <1>3, <1>4 DEF RowsMove, RowMoves

LEMMA OtherRows ==
  ASSUME UNCHANGED rows
  PROVE  RowsMove
BY DEF RowsMove, RowMoves
-----------------------------------------------------------------------------
\* Rows move as they may, and what is on its way or being done stays true.
LEMMA SuccessKept ==
  ASSUME SuccessInv, RowsMove, TrueReports', TrueEndings', passed \subseteq passed'
  PROVE  SuccessInv'
<1>1. ASSUME NEW j \in Jobs, NEW d \in Devices, rows'[j][d] = "SUCCEEDED"
      PROVE  <<j, d>> \in passed
  <2>1. CASE rows[j][d] = "SUCCEEDED"
    BY <2>1 DEF SuccessInv, SuccessTrue
  <2>2. CASE [dev |-> d, job |-> j, status |-> "SUCCEEDED"] \in patches \cup updates
    <3> DEFINE r == [dev |-> d, job |-> j, status |-> "SUCCEEDED"]
    <3>1. r.status = "SUCCEEDED" /\ r.job = j /\ r.dev = d
      OBVIOUS
    <3> HIDE DEF r
    <3>. QED
      BY <2>2, <3>1 DEF SuccessInv, TrueReports, r
  <2>. QED
    BY <1>1, <2>1, <2>2 DEF RowsMove, RowMoves
<1>. QED
  BY <1>1 DEF SuccessInv, SuccessTrue

LEMMA SuccessOfTable ==
  ASSUME SuccessInv, RowsMove, patches' \subseteq patches, updates' \subseteq updates,
         UNCHANGED <<run, passed>>
  PROVE  SuccessInv'
<1>1. TrueReports' /\ TrueEndings'
  BY DEF SuccessInv, TrueReports, TrueEndings, Ending
<1>. QED
  BY <1>1, SuccessKept

\* A report of success is sent by a device that is through with the job.
LEMMA SuccessOfReporting ==
  ASSUME TypeInv, SuccessInv, NEW d \in Devices, Reporting(d)
  PROVE  SuccessInv'
<1>0. /\ UNCHANGED <<rows, passed>> /\ run \in [Devices -> [pc : {"idle", "steps"} \cup Sends \cup Waits,
                          job : Jobs \cup {NoJob}, step : 0 .. Steps, ok : BOOLEAN]]
  BY ReportingMakes DEF unreported, TypeInv, Types, FeatureTypeOK
<1>1. ReportOf(d).status = "SUCCEEDED" => <<ReportOf(d).job, ReportOf(d).dev>> \in passed
  <2>1. ReportOf(d).status = "SUCCEEDED" => Ending(d)
    BY DEF ReportOf, StatusOf, Ending
  <2>. QED
    BY <2>1 DEF ReportOf, SuccessInv, TrueEndings
<1>2. TrueReports'
  BY <1>0, <1>1, ReportingMakes DEF SuccessInv, TrueReports
<1>3. PICK r \in {Returned(run[d]), Thrown(run[d]), InHttp(run[d])} : run' = [run EXCEPT ![d] = r]
  BY ReportingMakes
<1>4. r.pc \in {"end", "endHttp"} /\ r.ok => Ending(d) /\ r.job = run[d].job
  <2>1. Returned(run[d]).pc \notin {"end", "endHttp"}
    BY <1>0 DEF Returned, Idle
  <2>2. Thrown(run[d]).pc \notin {"end", "endHttp"}
    BY <1>0 DEF Thrown, Idle
  <2>3. /\ InHttp(run[d]).job = run[d].job /\ InHttp(run[d]).ok = run[d].ok
        /\ InHttp(run[d]).pc = "endHttp" => run[d].pc = "end"
        /\ InHttp(run[d]).pc # "end"
    BY <1>0 DEF InHttp
  <2>. QED
    BY <1>3, <2>1, <2>2, <2>3 DEF Ending
<1>5. TrueEndings'
  BY <1>0, <1>3, <1>4 DEF SuccessInv, TrueEndings, Ending
<1>. QED
  BY <1>0, <1>2, <1>5, OtherRows, SuccessKept

\* The only way to the end with a success leads through the last step.
LEMMA SuccessOfStep ==
  ASSUME TypeInv, SuccessInv, NEW d \in Devices, Step(d)
  PROVE  SuccessInv'
<1>0. run \in [Devices -> [pc : {"idle", "steps"} \cup Sends \cup Waits,
                          job : Jobs \cup {NoJob}, step : 0 .. Steps, ok : BOOLEAN]]
      /\ run[d].pc = "steps" /\ UNCHANGED <<rows, patches, updates>>
  BY DEF TypeInv, Types, FeatureTypeOK, Step, tableVars
<1>1. PICK goesOn \in BOOLEAN :
        /\ run' = [run EXCEPT ![d] =
                     IF run[d].step = Steps \/ ~goesOn
                     THEN [run[d] EXCEPT !.pc = "end", !.ok = goesOn]
                     ELSE [run[d] EXCEPT !.step = run[d].step + 1]]
        /\ passed' = IF run[d].step = Steps /\ goesOn
                     THEN passed \cup {<<run[d].job, d>>} ELSE passed
  BY StepMakes
<1>2. run'[d].job = run[d].job /\ \A c \in Devices : c # d => run'[c] = run[c]
  BY <1>0, <1>1
<1>3. Ending(d)' => run[d].step = Steps /\ goesOn
  BY <1>0, <1>1 DEF Ending
<1>4. passed \subseteq passed'
  BY <1>1
<1>5. TrueEndings'
  <2>1. Ending(d)' => <<run'[d].job, d>> \in passed'
    BY <1>1, <1>2, <1>3
  <2>2. ASSUME NEW c \in Devices, c # d PROVE Ending(c)' => <<run'[c].job, c>> \in passed'
    BY <1>2, <1>4, <2>2 DEF SuccessInv, TrueEndings, Ending
  <2>. QED
    BY <2>1, <2>2 DEF TrueEndings
<1>6. TrueReports'
  BY <1>0, <1>4 DEF SuccessInv, TrueReports
<1>. QED
  BY <1>0, <1>4, <1>5, <1>6, OtherRows, SuccessKept

\* Everything else that changes a run begins one or ends the process.
LEMMA SuccessOfAgent ==
  ASSUME TypeInv, SuccessInv, NEW d \in Devices,
         Agent(d) \/ AskFails(d) \/ Stop(d) \/ Crash(d)
  PROVE  SuccessInv'
<1>1. CASE Publish(d) \/ FallBack(d) \/ Patched(d)
  BY <1>1, SuccessOfReporting DEF Reporting
<1>2. CASE Step(d)
  BY <1>2, SuccessOfStep
<1>3. ASSUME \E r \in {Idle} \cup {Beginning(j) : j \in Jobs} : run' = [run EXCEPT ![d] = r],
             UNCHANGED <<rows, patches, updates, passed>>
      PROVE  SuccessInv'
  <2>0. PICK r \in {Idle} \cup {Beginning(j) : j \in Jobs} : run' = [run EXCEPT ![d] = r]
    BY <1>3
  <2>1. r.pc \in {"idle", "begin"}
    BY DEF Idle, Beginning
  <2>2. TrueEndings'
    <3>1. run \in [Devices -> [pc : {"idle", "steps"} \cup Sends \cup Waits,
                              job : Jobs \cup {NoJob}, step : 0 .. Steps, ok : BOOLEAN]]
      BY DEF TypeInv, Types, FeatureTypeOK
    <3>2. run'[d].pc \in {"idle", "begin"} /\ \A c \in Devices : c # d => run'[c] = run[c]
      BY <2>0, <2>1, <3>1
    <3>. QED
      BY <1>3, <3>2 DEF SuccessInv, TrueEndings, Ending
  <2>3. TrueReports'
    BY <1>3 DEF SuccessInv, TrueReports
  <2>. QED
    BY <1>3, <2>2, <2>3, OtherRows, SuccessKept
<1>4. CASE Stopped(d) \/ Crash(d)
  BY <1>3, <1>4 DEF Stopped, Crash, Gone
<1>5. CASE Answered(d) \/ \E j \in Jobs : Notified(d, j)
  <2>1. /\ (\E j \in Jobs : Begin(d, j)) \/ UNCHANGED run
        /\ UNCHANGED <<rows, patches, updates, passed>>
    <3>1. asking[d].job # NoJob => asking[d].job \in Jobs
      BY DEF TypeInv, Types, TableTypeOK
    <3>. QED
      BY <1>5, <3>1 DEF Answered, Notified, Execute
  <2>2. CASE UNCHANGED run
    BY <2>1, <2>2, OtherRows, SuccessOfTable
  <2>3. CASE \E j \in Jobs : Begin(d, j)
    BY <2>1, <2>3, <1>3 DEF Begin
  <2>. QED
    BY <2>1, <2>2, <2>3
<1>6. CASE Start(d) \/ Started(d) \/ Poll(d) \/ MonitorTick(d) \/ AskFails(d) \/ Stop(d)
  <2>1. UNCHANGED <<rows, patches, updates, run, passed>>
    BY <1>6 DEF Start, Started, Poll, MonitorTick, AskFails, Stop, Ask, tableVars, featureVars
  <2>. QED
    BY <2>1, OtherRows, SuccessOfTable
<1>. QED
  BY <1>1, <1>2, <1>4, <1>5, <1>6 DEF Agent, Work

LEMMA SuccessInvNext == TypeInv /\ SuccessInv /\ [Next]_vars => SuccessInv'
<1> SUFFICES ASSUME TypeInv, SuccessInv, [Next]_vars PROVE SuccessInv'
  OBVIOUS
<1>1. CASE Post \/ \E j \in Jobs : (CancelJob(j) \/ DeleteJob(j) \/ NotifyAgain(j)) /\ OnlyTable
  <2>1. RowsMove
    BY <1>1, RowsMovePost, OtherRows DEF Post, NotifyAgain
  <2>2. UNCHANGED <<patches, updates, run, passed>>
    BY <1>1 DEF Post, ExecuteJob, NotifyDevices, CancelJob, DeleteJob, NotifyAgain, OnlyTable, featureVars
  <2>. QED
    BY <2>1, <2>2, SuccessOfTable
<1>2. CASE Patches \/ Late \/ \E u \in updates : ApplyUpdateTwice(u) /\ OnlyTable
  <2>1. RowsMove /\ patches' \subseteq patches /\ updates' \subseteq updates
    BY <1>2, RowsMoveReports, ReportsSetRow DEF Patches, Late
  <2>2. UNCHANGED <<run, passed>>
    BY <1>2 DEF Patches, Late, OnlyTable, featureVars
  <2>. QED
    BY <2>1, <2>2, SuccessOfTable
<1>3. ASSUME NEW d \in Devices, HandOut(d) PROVE SuccessInv'
  <2>1. RowsMove
    BY <1>3, RowsMoveUpdate DEF HandOut
  <2>2. UNCHANGED <<patches, updates, run, passed>>
    BY <1>3 DEF HandOut, NextSelect, NextUpdate, OnlyTable, featureVars
  <2>. QED
    BY <2>1, <2>2, SuccessOfTable
<1>4. ASSUME NEW d \in Devices, Link(d) \/ Closes(d) PROVE SuccessInv'
  BY <1>4, OtherRows, SuccessOfTable DEF Link, Closes, OnlyLink, featureVars
<1>5. ASSUME NEW d \in Devices, PublishFails(d) \/ PatchThrows(d) PROVE SuccessInv'
  BY <1>5, SuccessOfReporting DEF Reporting
<1>6. CASE UNCHANGED vars
  BY <1>6, OtherRows, SuccessOfTable DEF vars, tableVars, featureVars
<1>. QED
  BY <1>1, <1>2, <1>3, <1>4, <1>5, <1>6, SuccessOfAgent DEF Next, Fault

(* A job that the cloud shows as succeeded was got through by the device:  *)
(* however late, twice or out of order its reports arrive, and whatever    *)
(* restarts between.                                                       *)
THEOREM SuccessTrueCorrect == Spec => []SuccessTrue
<1>1. SuccessInv => SuccessTrue
  BY DEF SuccessInv
<1>2. Spec => [](TypeInv /\ SuccessInv)
  <2>1. TypeInv /\ SuccessInv /\ [Next]_vars => (TypeInv /\ SuccessInv)'
    BY TypeInvNext, SuccessInvNext
  <2>2. Init => TypeInv /\ SuccessInv
    BY TypeInvInit, SuccessInvInit
  <2>. QED
    BY <2>1, <2>2, PTL DEF Spec
<1>. QED
  BY <1>1, <1>2, PTL
-----------------------------------------------------------------------------
Starts(j, d) == started[j][d] \in Nat /\ notices[d][j] \in Nat /\ copies[d][j] \in Nat

LEMMA StartCounts == TypeInv => \A j \in Jobs, d \in Devices : Starts(j, d)
BY DEF TypeInv, Types, TableTypeOK, FeatureTypeOK, Starts

\* No start, and no new way to start the job but by a copy that is counted.
LEMMA FitsStill ==
  ASSUME NEW j \in Jobs, NEW d \in Devices, StartsBounded(j, d), Starts(j, d),
         started'[j][d] = started[j][d], ByPoll(j, d)' => ByPoll(j, d),
         \/ /\ notices'[d][j] \in Nat /\ notices'[d][j] <= notices[d][j]
            /\ copies'[d][j] = copies[d][j]
         \/ notices'[d][j] = notices[d][j] + 1 /\ copies'[d][j] = copies[d][j] + 1
  PROVE  StartsBounded(j, d)'
<1>1. Once(ByPoll(j, d)) \in {0, 1} /\ Once(ByPoll(j, d)') \in {0, 1}
  BY DEF Once
<1>2. Once(ByPoll(j, d)') <= Once(ByPoll(j, d))
  BY DEF Once
<1>3. StartsBounded(j, d)' <=>
        started'[j][d] + notices'[d][j] + Once(ByPoll(j, d)') <= copies'[d][j] + 1
  BY DEF StartsBounded, Once
<1>. QED
  BY <1>1, <1>2, <1>3 DEF StartsBounded, Starts

\* One start uses up one of the ways.
LEMMA FitsAfterStart ==
  ASSUME NEW j \in Jobs, NEW d \in Devices, StartsBounded(j, d), Starts(j, d),
         started'[j][d] = started[j][d] + 1, copies'[d][j] = copies[d][j],
         ByPoll(j, d)' => ByPoll(j, d),
         \/ notices'[d][j] = notices[d][j] - 1
         \/ notices'[d][j] = notices[d][j] /\ ByPoll(j, d) /\ ~ByPoll(j, d)'
  PROVE  StartsBounded(j, d)'
<1>1. Once(ByPoll(j, d)) \in {0, 1} /\ Once(ByPoll(j, d)') \in {0, 1}
  BY DEF Once
<1>2. /\ Once(ByPoll(j, d)') <= Once(ByPoll(j, d))
      /\ \/ notices'[d][j] = notices[d][j] - 1
         \/ /\ notices'[d][j] = notices[d][j]
            /\ Once(ByPoll(j, d)') + 1 <= Once(ByPoll(j, d))
  BY DEF Once
<1>3. StartsBounded(j, d)' <=>
        started'[j][d] + notices'[d][j] + Once(ByPoll(j, d)') <= copies'[d][j] + 1
  BY DEF StartsBounded, Once
<1>. QED
  BY <1>1, <1>2, <1>3 DEF StartsBounded, Starts

\* The copies of a notification on their way: one more, counted, or fewer.
CopiesMove(j, d) ==
  \/ /\ notices'[d][j] \in Nat /\ notices'[d][j] <= notices[d][j]
     /\ copies'[d][j] = copies[d][j]
  \/ notices'[d][j] = notices[d][j] + 1 /\ copies'[d][j] = copies[d][j] + 1

LEMMA CopiesStay ==
  TypeInv /\ UNCHANGED <<notices, copies>> => \A j \in Jobs, d \in Devices : CopiesMove(j, d)
BY StartCounts DEF CopiesMove, Starts

LEMMA CopiesGo ==
  ASSUME TypeInv, NEW d \in Devices, UNCHANGED copies,
         notices' \in {notices, [notices EXCEPT ![d] = NoNotice]}
  PROVE  \A j \in Jobs, c \in Devices : CopiesMove(j, c)
<1>1. notices' \in Counts /\ \A c \in Devices, k \in Jobs : notices'[c][k] <= notices[c][k]
  BY NoticesForgotten DEF TypeInv, Types, TableTypeOK, Counts
<1>. QED
  BY <1>1 DEF CopiesMove, Counts

LEMMA CopiesCome ==
  ASSUME TypeInv, NEW j \in Jobs, NotifyDevices(j) \/ NotifyAgain(j)
  PROVE  \A k \in Jobs, d \in Devices : CopiesMove(k, d)
<1>0. notices \in Counts /\ copies \in Counts
  BY DEF TypeInv, Types, TableTypeOK, Counts
<1>1. PICK reached : Sent(j, reached)
  BY DEF NotifyDevices, NotifyAgain
<1>2. \A d \in Devices, k \in Jobs :
        \/ notices'[d][k] = notices[d][k] /\ copies'[d][k] = copies[d][k]
        \/ notices'[d][k] = notices[d][k] + 1 /\ copies'[d][k] = copies[d][k] + 1
  BY <1>0, <1>1, SentCounts
<1>3. \A d \in Devices, k \in Jobs : notices[d][k] \in Nat
  BY <1>0 DEF Counts
<1>. QED
  BY <1>2, <1>3 DEF CopiesMove

\* Steps that post, select and start nothing
LEMMA StartKept ==
  ASSUME TypeInv, NEW j \in Jobs, NEW d \in Devices, StartsFit(j, d), RowMoves(j, d),
         started'[j][d] = started[j][d], CopiesMove(j, d),
         (posted'[j] = "no") <=> (posted[j] = "no"),
         Asked(j, d)' => asking'[d] = asking[d]
  PROVE  StartsFit(j, d)'
<1>1. Asked(j, d)' => Asked(j, d)
  BY DEF Asked
<1>2. rows'[j][d] = "QUEUED" => rows[j][d] = "QUEUED"
  BY DEF RowMoves
<1>3. ByPoll(j, d)' => ByPoll(j, d)
  BY <1>1, <1>2 DEF ByPoll
<1>4. StartsBounded(j, d)'
  BY <1>3, StartCounts, FitsStill DEF CopiesMove, StartsFit
<1>5. posted'[j] = "no" => rows'[j][d] = "none" /\ ~Asked(j, d)'
  BY <1>1 DEF StartsFit, RowMoves
<1>6. asking'[d].pc = "answer" /\ asking'[d].job = j => rows'[j][d] # "QUEUED"
  BY <1>2 DEF StartsFit, Asked
<1>. QED
  BY <1>4, <1>5, <1>6 DEF StartsFit

LEMMA StartOfPost ==
  ASSUME TypeInv, StartInv, NEW j \in Jobs, ExecuteJob(j), UNCHANGED started
  PROVE  StartInv'
<1> SUFFICES ASSUME NEW k \in Jobs, NEW d \in Devices PROVE StartsFit(k, d)'
  BY DEF StartInv
<1>0. /\ StartsFit(k, d) /\ RowMoves(k, d) /\ Starts(k, d) /\ CopiesMove(k, d)
      /\ UNCHANGED <<asking, notices, copies>>
      /\ posted \in [Jobs -> {"no", "inserted", "notified"}]
  <2>1. RowMoves(k, d)
    BY RowsMovePost DEF RowsMove
  <2>2. UNCHANGED <<asking, notices, copies>>
    BY DEF ExecuteJob
  <2>. QED
    BY <2>1, <2>2, StartCounts, CopiesStay DEF StartInv, TypeInv, Types, TableTypeOK
<1>1. CASE k # j
  <2>1. posted'[k] = posted[k]
    BY <1>0, <1>1 DEF ExecuteJob
  <2>. QED
    BY <1>0, <2>1, StartKept
<1>2. CASE k = j
  <2>1. posted[k] = "no" /\ posted'[k] = "inserted" /\ ~Asked(k, d)'
    BY <1>0, <1>2 DEF ExecuteJob, StartsFit, Asked
  <2>2. ByPoll(k, d)
    BY <2>1 DEF ByPoll
  <2>3. StartsBounded(k, d)'
    BY <1>0, <2>2, FitsStill DEF StartsFit, CopiesMove
  <2>. QED
    BY <2>1, <2>3 DEF StartsFit, Asked
<1>. QED
  BY <1>1, <1>2

\* A notification is sent, once more or for the first time.
LEMMA StartOfNotifying ==
  ASSUME TypeInv, StartInv, NEW j \in Jobs, NotifyDevices(j) \/ NotifyAgain(j), UNCHANGED started
  PROVE  StartInv'
<1> SUFFICES ASSUME NEW k \in Jobs, NEW d \in Devices PROVE StartsFit(k, d)'
  BY DEF StartInv
<1>1. UNCHANGED <<asking, rows>>
  BY DEF NotifyDevices, NotifyAgain
<1>2. (posted'[k] = "no") <=> (posted[k] = "no")
  BY DEF NotifyDevices, NotifyAgain, TypeInv, Types, TableTypeOK
<1>. QED
  BY <1>1, <1>2, StartKept, CopiesCome DEF StartInv, RowMoves

LEMMA StartOfRows ==
  ASSUME TypeInv, StartInv, RowsMove, UNCHANGED <<started, posted, asking, notices, copies>>
  PROVE  StartInv'
<1> SUFFICES ASSUME NEW j \in Jobs, NEW d \in Devices PROVE StartsFit(j, d)'
  BY DEF StartInv
<1>. QED
  BY StartKept, CopiesStay DEF StartInv, RowsMove

\* The row selected is queued; it no longer is when it is marked.
LEMMA StartOfHandOut ==
  ASSUME TypeInv, StartInv, NEW d \in Devices, NextSelect(d) \/ NextUpdate(d), UNCHANGED started
  PROVE  StartInv'
<1> SUFFICES ASSUME NEW j \in Jobs, NEW c \in Devices PROVE StartsFit(j, c)'
  BY DEF StartInv
<1>0. /\ StartsFit(j, c) /\ RowMoves(j, c) /\ Starts(j, c) /\ CopiesMove(j, c)
      /\ UNCHANGED <<posted, started>>
      /\ asking \in [Devices -> [pc : {"none", "select", "update", "answer"}, job : Jobs \cup {NoJob}]]
  <2>1. RowMoves(j, c)
    BY RowsMoveUpdate DEF RowsMove
  <2>2. UNCHANGED <<posted, notices, copies>>
    BY DEF NextSelect, NextUpdate
  <2>. QED
    BY <2>1, <2>2, StartCounts, CopiesStay DEF StartInv, TypeInv, Types, TableTypeOK
<1>1. CASE c # d
  <2>1. asking'[c] = asking[c]
    BY <1>0, <1>1 DEF NextSelect, NextUpdate
  <2>. QED
    BY <1>0, <2>1, StartKept
<1>2. CASE c = d /\ NextSelect(d)
  <2>1. rows' = rows /\ asking'[d] = IF QueuedFor(d) = {} THEN [pc |-> "answer", job |-> NoJob]
                                   ELSE [pc |-> "update", job |-> Oldest(QueuedFor(d))]
    BY <1>0, <1>2 DEF NextSelect
  <2>2. QueuedFor(d) # {} => Oldest(QueuedFor(d)) \in QueuedFor(d)
    BY OldestQueued DEF QueuedFor
  <2>3. /\ Asked(j, d)' => rows[j][d] = "QUEUED"
        /\ ~(asking'[d].pc = "answer" /\ asking'[d].job = j)
    BY <2>1, <2>2, JobAssumption DEF Asked, QueuedFor
  <2>4. ByPoll(j, d)' => ByPoll(j, d)
    BY <1>0, <2>1, <2>3 DEF ByPoll
  <2>5. StartsBounded(j, d)'
    BY <1>0, <1>2, <2>4, FitsStill DEF CopiesMove, StartsFit
  <2>6. posted'[j] = "no" => rows'[j][d] = "none" /\ ~Asked(j, d)'
    BY <1>0, <1>2, <2>1, <2>3 DEF StartsFit
  <2>. QED
    BY <1>2, <2>3, <2>5, <2>6 DEF StartsFit
<1>3. CASE c = d /\ NextUpdate(d)
  <2>1. /\ asking[d].pc = "update" /\ asking'[d].pc = "answer" /\ asking'[d].job = asking[d].job
        /\ rows'[asking[d].job][d] # "QUEUED"
    BY <1>0, <1>3, RowsMoveUpdate DEF NextUpdate
  <2>2. Asked(j, d)' <=> Asked(j, d)
    BY <2>1 DEF Asked
  <2>3. rows'[j][d] = "QUEUED" => rows[j][d] = "QUEUED"
    BY <1>0, <1>3 DEF RowMoves
  <2>4. ByPoll(j, d)' => ByPoll(j, d)
    BY <1>0, <2>2, <2>3 DEF ByPoll
  <2>5. StartsBounded(j, d)'
    BY <1>0, <1>3, <2>4, FitsStill DEF CopiesMove, StartsFit
  <2>6. posted'[j] = "no" => rows'[j][d] = "none" /\ ~Asked(j, d)'
    BY <1>0, <1>3, <2>2 DEF StartsFit, RowMoves
  <2>. QED
    BY <1>3, <2>1, <2>5, <2>6 DEF StartsFit
<1>. QED
  BY <1>1, <1>2, <1>3

\* Steps of the agent or its connection that start nothing only forget.
LEMMA StartOfForgetting ==
  ASSUME TypeInv, StartInv, UNCHANGED <<rows, posted, started>>,
         \A j \in Jobs, d \in Devices : CopiesMove(j, d),
         \A d \in Devices : asking'[d] = asking[d] \/ asking'[d].pc \in {"none", "select"}
  PROVE  StartInv'
<1> SUFFICES ASSUME NEW j \in Jobs, NEW d \in Devices PROVE StartsFit(j, d)'
  BY DEF StartInv
<1>1. Asked(j, d)' => asking'[d] = asking[d]
  BY DEF Asked
<1>. QED
  BY <1>1, StartKept DEF StartInv, RowMoves

\* A job comes by jobs/next, or by a copy of its notification, which is used up.
ByAnswer(d, j) ==
  /\ asking[d].pc = "answer" /\ asking[d].job = j /\ UNCHANGED notices
  /\ asking' = [asking EXCEPT ![d] = NotAsking]
ByCopy(d, j) ==
  /\ notices[d][j] > 0 /\ notices' = [notices EXCEPT ![d][j] = @ - 1]
  /\ UNCHANGED asking

LEMMA CopyUsed ==
  ASSUME TypeInv, NEW d \in Devices, NEW j \in Jobs, ByCopy(d, j), UNCHANGED copies
  PROVE  /\ notices'[d][j] = notices[d][j] - 1
         /\ \A k \in Jobs, c \in Devices : CopiesMove(k, c)
<1>1. /\ notices' \in Counts /\ notices'[d][j] = notices[d][j] - 1
      /\ \A c \in Devices, k \in Jobs : <<c, k>> # <<d, j>> => notices'[c][k] = notices[c][k]
  BY NoticeUsed DEF ByCopy, TypeInv, Types, TableTypeOK, Counts
<1>2. ASSUME NEW k \in Jobs, NEW c \in Devices PROVE CopiesMove(k, c)
  <2>1. notices'[c][k] \in Nat /\ notices[c][k] \in Nat
    BY <1>1 DEF Counts, TypeInv, Types, TableTypeOK
  <2>2. notices'[c][k] = notices[c][k] - 1 \/ notices'[c][k] = notices[c][k]
    BY <1>1
  <2>. QED
    BY <2>1, <2>2 DEF CopiesMove
<1>. QED
  BY <1>1, <1>2

LEMMA StartOfAnswer ==
  ASSUME TypeInv, StartInv, NEW d \in Devices, NEW j \in Jobs, Begin(d, j),
         UNCHANGED <<rows, posted, copies>>, ByAnswer(d, j) \/ ByCopy(d, j)
  PROVE  StartInv'
<1>0. /\ asking \in [Devices -> [pc : {"none", "select", "update", "answer"}, job : Jobs \cup {NoJob}]]
      /\ FeatureTypeOK /\ StartsFit(j, d) /\ Starts(j, d)
  BY StartCounts DEF TypeInv, Types, TableTypeOK, StartInv
<1>1. /\ started'[j][d] = started[j][d] + 1
      /\ \A k \in Jobs, c \in Devices : <<k, c>> # <<j, d>> => started'[k][c] = started[k][c]
  BY <1>0, BeginTypes
<1>2. /\ \A k \in Jobs, c \in Devices : CopiesMove(k, c)
      /\ \A c \in Devices : asking'[c] = asking[c] \/ asking'[c].pc = "none"
  <2>1. CASE ByAnswer(d, j)
    BY <1>0, <2>1, CopiesStay DEF ByAnswer, NotAsking
  <2>2. CASE ByCopy(d, j)
    BY <2>2, CopyUsed DEF ByCopy
  <2>. QED
    BY <2>1, <2>2
<1>3. ASSUME NEW k \in Jobs, NEW c \in Devices, <<k, c>> # <<j, d>>
      PROVE  StartsFit(k, c)'
  <2>1. Asked(k, c)' => asking'[c] = asking[c]
    BY <1>2 DEF Asked
  <2>. QED
    BY <1>1, <1>2, <1>3, <2>1, StartKept DEF StartInv, RowMoves
<1>4. StartsFit(j, d)'
  <2>1. Asked(j, d)' => Asked(j, d)
    BY <1>2 DEF Asked
  <2>2. ByPoll(j, d)' => ByPoll(j, d)
    BY <2>1 DEF ByPoll
  <2>3. \/ notices'[d][j] = notices[d][j] - 1
        \/ notices'[d][j] = notices[d][j] /\ ByPoll(j, d) /\ ~ByPoll(j, d)'
    <3>1. CASE ByAnswer(d, j)
      <4>1. Asked(j, d) /\ ~Asked(j, d)' /\ rows[j][d] # "QUEUED" /\ posted[j] # "no"
        BY <1>0, <3>1 DEF ByAnswer, Asked, NotAsking, StartsFit
      <4>2. ByPoll(j, d) /\ ~ByPoll(j, d)'
        BY <4>1 DEF ByPoll
      <4>. QED
        BY <3>1, <4>2 DEF ByAnswer
    <3>2. CASE ByCopy(d, j)
      BY <3>2, CopyUsed
    <3>. QED
      BY <3>1, <3>2
  <2>4. StartsBounded(j, d)'
    BY <1>0, <1>1, <2>2, <2>3, FitsAfterStart DEF StartsFit
  <2>5. /\ posted'[j] = "no" => rows'[j][d] = "none" /\ ~Asked(j, d)'
        /\ asking'[d].pc = "answer" /\ asking'[d].job = j => rows'[j][d] # "QUEUED"
    BY <1>0, <1>2, <2>1 DEF StartsFit
  <2>. QED
    BY <2>4, <2>5 DEF StartsFit
<1>. QED
  BY <1>3, <1>4 DEF StartInv

LEMMA StartOfAgent ==
  ASSUME TypeInv, StartInv, NEW d \in Devices,
         Agent(d) \/ AskFails(d) \/ Stop(d) \/ Crash(d) \/ PublishFails(d) \/ PatchThrows(d)
  PROVE  StartInv'
<1>0. asking \in [Devices -> [pc : {"none", "select", "update", "answer"}, job : Jobs \cup {NoJob}]]
  BY DEF TypeInv, Types, TableTypeOK
<1>1. UNCHANGED <<rows, posted, copies>>
  <2>1. Reporting(d) => UNCHANGED <<rows, posted, copies>>
    BY ReportingMakes DEF unreported
  <2>. QED
    BY <2>1
    DEF Reporting, Agent, Work, AskFails, Stop, Crash, Start, Started, Step, Poll, Answered, MonitorTick,
        Stopped, Notified, Gone, Ask, tableVars
<1>2. ASSUME UNCHANGED started, \A j \in Jobs, c \in Devices : CopiesMove(j, c),
             \A c \in Devices : asking'[c] = asking[c] \/ asking'[c].pc \in {"none", "select"}
      PROVE  StartInv'
  BY <1>1, <1>2, StartOfForgetting
<1>3. CASE Reporting(d) \/ Started(d) \/ Step(d) \/ MonitorTick(d) \/ Stop(d)
  <2>1. UNCHANGED <<started, notices, asking>>
    BY <1>3, ReportingMakes DEF unreported, Started, Step, MonitorTick, Stop, tableVars
  <2>. QED
    BY <1>1, <1>2, <2>1, CopiesStay
<1>4. CASE Start(d) \/ Poll(d)
  <2>1. UNCHANGED <<started, notices>> /\ asking[d].pc = "none"
        /\ asking' = [asking EXCEPT ![d].pc = "select"]
    BY <1>4 DEF Start, Poll, Ask, featureVars
  <2>2. \A c \in Devices : asking'[c] = asking[c] \/ asking'[c].pc \in {"none", "select"}
    BY <1>0, <2>1
  <2>. QED
    BY <1>1, <1>2, <2>1, <2>2, CopiesStay
<1>5. CASE AskFails(d) \/ Stopped(d) \/ Crash(d)
  <2>1. /\ UNCHANGED started /\ notices' \in {notices, [notices EXCEPT ![d] = NoNotice]}
        /\ asking' = [asking EXCEPT ![d] = NotAsking]
    BY <1>5 DEF AskFails, Stopped, Crash, Gone, GiveUpAsking, featureVars
  <2>2. \A c \in Devices : asking'[c] = asking[c] \/ asking'[c].pc \in {"none", "select"}
    BY <1>0, <2>1 DEF NotAsking
  <2>. QED
    BY <1>1, <1>2, <2>1, <2>2, CopiesGo
<1>6. CASE Answered(d)
  <2>1. asking[d].pc = "answer" /\ asking' = [asking EXCEPT ![d] = NotAsking] /\ UNCHANGED notices
    BY <1>6 DEF Answered
  <2>2. CASE UNCHANGED started
    <3>1. \A c \in Devices : asking'[c] = asking[c] \/ asking'[c].pc \in {"none", "select"}
      BY <1>0, <2>1 DEF NotAsking
    <3>. QED
      BY <1>1, <1>2, <2>1, <2>2, <3>1, CopiesStay
  <2>3. CASE asking[d].job \in Jobs /\ Begin(d, asking[d].job)
    BY <1>1, <2>1, <2>3, StartOfAnswer DEF ByAnswer
  <2>4. asking[d].job # NoJob => asking[d].job \in Jobs
    BY <1>0
  <2>. QED
    BY <1>6, <2>2, <2>3, <2>4 DEF Answered, Execute
<1>7. CASE \E j \in Jobs : Notified(d, j)
  <2>1. PICK j \in Jobs : Notified(d, j)
    BY <1>7
  <2>2. ByCopy(d, j)
    BY <2>1 DEF Notified, ByCopy
  <2>3. CASE UNCHANGED started
    BY <1>1, <1>2, <2>2, <2>3, CopyUsed DEF ByCopy
  <2>4. CASE Begin(d, j)
    BY <1>1, <2>2, <2>4, StartOfAnswer
  <2>. QED
    BY <2>1, <2>3, <2>4 DEF Notified, Execute
<1>. QED
  BY <1>3, <1>4, <1>5, <1>6, <1>7 DEF Agent, Work, Reporting

LEMMA StartInvNext == TypeInv /\ StartInv /\ [Next]_vars => StartInv'
<1> SUFFICES ASSUME TypeInv, StartInv, [Next]_vars PROVE StartInv'
  OBVIOUS
<1>1. CASE Post
  BY <1>1, StartOfPost, StartOfNotifying DEF Post, OnlyTable, featureVars
<1>2. CASE \/ \E j \in Jobs : (CancelJob(j) \/ DeleteJob(j)) /\ OnlyTable
           \/ Patches \/ Late \/ \E u \in updates : ApplyUpdateTwice(u) /\ OnlyTable
  <2>1. RowsMove
    BY <1>2, RowsMovePost, RowsMoveReports DEF Patches, Late
  <2>2. UNCHANGED <<posted, asking, notices, copies>>
    BY <1>2, ReportsSetRow DEF Patches, Late, CancelJob, DeleteJob
  <2>3. UNCHANGED started
    BY <1>2 DEF Patches, Late, OnlyTable, featureVars
  <2>. QED
    BY <2>1, <2>2, <2>3, StartOfRows
<1>3. CASE \E j \in Jobs : NotifyAgain(j) /\ OnlyTable
  BY <1>3, StartOfNotifying DEF OnlyTable, featureVars
<1>4. ASSUME NEW d \in Devices, HandOut(d) PROVE StartInv'
  BY <1>4, StartOfHandOut DEF HandOut, OnlyTable, featureVars
<1>5. ASSUME NEW d \in Devices, Link(d) \/ Closes(d) PROVE StartInv'
  <2>1. UNCHANGED <<rows, posted, started, asking, copies>>
    BY <1>5 DEF Link, Closes, OnlyLink, featureVars
  <2>2. notices' \in {notices, [notices EXCEPT ![d] = NoNotice]}
    BY <1>5 DEF Link, Closes
  <2>. QED
    BY <2>1, <2>2, CopiesGo, StartOfForgetting
<1>6. CASE UNCHANGED vars
  BY <1>6, OtherRows, StartOfRows DEF vars, tableVars, featureVars
<1>. QED
  BY <1>1, <1>2, <1>3, <1>4, <1>5, <1>6, StartOfAgent DEF Next, Fault

(* No device starts a job more often than copies of its notification were  *)
(* sent to it, and once more for jobs/next, however often it restarts,     *)
(* gives up an answer or loses a report.                                   *)
THEOREM StartsAccountedCorrect == Spec => []StartsAccounted
<1>1. TypeInv /\ StartInv => StartsAccounted
  <2> SUFFICES ASSUME TypeInv, StartInv, NEW j \in Jobs, NEW d \in Devices
               PROVE  started[j][d] <= copies[d][j] + 1
    BY DEF StartsAccounted
  <2>1. Once(ByPoll(j, d)) \in {0, 1}
    BY DEF Once
  <2>2. StartsBounded(j, d) /\ Starts(j, d)
    BY StartCounts DEF StartInv, StartsFit
  <2>. QED
    BY <2>1, <2>2 DEF StartsBounded, Starts
<1>2. Spec => [](TypeInv /\ StartInv)
  <2>1. TypeInv /\ StartInv /\ [Next]_vars => (TypeInv /\ StartInv)'
    BY TypeInvNext, StartInvNext
  <2>2. Init => TypeInv /\ StartInv
    BY TypeInvInit, StartInvInit
  <2>. QED
    BY <2>1, <2>2, PTL DEF Spec
<1>. QED
  BY <1>1, <1>2, PTL
=============================================================================
